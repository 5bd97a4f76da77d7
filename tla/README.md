# TLA+ models of the DAGA proof-of-concept web stack

This directory holds TLA+ models of the code under `src/` of this
repository and the TLC configurations that check them. `PROJECT.json` lists
the components, the runs, the mutants, the map from each definition to the
source lines it models, the findings and the hazards.

## 1. Inventory

The repository is the browser and web side of a DAGA (Deniable Anonymous
Group Authentication) deployment. The protocol itself runs in a Go service
and a local client daemon that are not under `src/`. They appear here only
at their interfaces, taken from `spec.md`.

| Component | Source | State it keeps | Operations |
|---|---|---|---|
| Cothority transport | `bundle.js` 245-279 (`createSocket`) | the caller's cache `socket[address]`; per WebSocket: readyState and the listeners registered | `createSocket(socket, address, message, callback, error)`; WebSocket events `open`, `message`, `error`, `close` |
| Schema registry | `bundle.js` 1-146 (`skeleton`, `CothorityProtobuf`) | the protobuf `Root` built from the skeleton JSON (read-only) | `encodeMessage`, `decodeMessage`, `getModel`; `createStatusRequest`, `decodeStatusResponse` |
| Roster helpers | `bundle.js` 287-337 | none | `buf2hex`, `toml_to_roster`, `si_to_ws` |
| OP login page | `main.js` | `Main.data.{contextFileArrayBuffer, clientFileArrayBuffer}`; the selected files; pending FileReaders; the daemon WebSocket of each click | input `onchange` → `readFile` → `reader.onload` → `thenSaveUnder`; button `onclick` → `buildAuthMsg` → `msgConn.onopen/onmessage/onclose` → `thenPostIt` → `$.post` success/error |
| Local DAGA daemon | not in `src/` (spec section 6) | per connection: the frames received | reads a context frame and a client frame, answers one `Auth` |
| OIDC relying party | `app.js`, `routes/profile.js` | the express-session store and the browser's cookie; in each session passport's user and the OIDC state | `/login`, `/authorization-code/callback`, `/logout`, `/profile` |
| DAGA protocol | not in `src/` (spec sections 4-5) | context, per-attempt client state, per-server contributions, the aggregate | context creation; client commit/challenge/respond/verify; server verification; aggregation with threshold and deadline |
| Build tooling | `build.js`, `build_proto.js` (two copies each) | none at run time | bundle sources; flatten `.proto` files into the skeleton JSON |

### How the parts interact

- The login page and the local daemon talk over a WebSocket to
  `127.0.0.1:9999`. The page sends two frames from `onopen`. The daemon's
  one answer arrives in `onmessage` and is POSTed to the OP. A successful
  POST navigates away.
- The page and the cothority nodes talk through `createSocket`. Many calls
  share one cached socket per address. Callbacks are one-shot event
  listeners on that socket.
- The relying party runs the OIDC authorization-code flow against the IdP.
  The state travels in the session between `/login` and the callback. The
  callback awaits the token endpoint between loading and saving the
  session.

### What is hard

- **Event interleavings in the browser.** FileReader completions, socket
  events and clicks arrive in any order. All listeners registered on a
  socket see each of its events.
- **Connection failures.** A connection can fail while connecting, break
  after it opened, or be closed cleanly. The code listens to `error` but
  not to `close`.
- **Concurrent requests on one session.** Tabs share a cookie.
  express-session writes a request's copy of the session back when the
  request ends, even if another request destroyed it meanwhile.
- **Protocol order.** The daemon expects exactly context then client.
  `onopen` sends them in that order on one WebSocket, which keeps frame
  order, so this is not listed as a hazard.
  The OIDC state must round-trip through the session.
- **No timers.** Neither `createSocket` nor the daemon exchange sets a
  timeout. Every liveness property here therefore assumes that a peer
  answers or closes (see section 4). A silent peer leaves a call pending
  forever. A `createSocket` call without a cache object opens a new
  socket that is never closed.

### What makes each part correct

- **Transport:** a callback receives the reply to its own request. A call
  ends exactly once, with its reply or an error. Every call ends.
- **Login page:** the Auth message POSTed is built from the files held at
  the click. `Main.data` reflects what the form shows. Every exchange
  ends visibly. (A one-exchange-at-a-time guard is commented out in
  `buildAuthMsg`, so overlapping exchanges are allowed and modelled.)
- **Relying party:** an attacker's authorization never signs the browser
  in. A logout is not undone by a request that was already in flight.
- **Schema:** decoding an encoded message gives the message back.
  Malformed messages are rejected on encode.
- **Roster helpers:** `si_to_ws` yields `ws://host:port+1`.
- **DAGA protocol:** an attempt succeeds only with a threshold of distinct
  server contributions. The reply is index-sorted and independent of
  arrival order. Late contributions are discarded. Every attempt ends,
  in Done or in Failed.

## 2. Modules

### CothoritySocket (`bundle.js` `createSocket`)

State:
- `cache`: the caller's `socket` object.
- `sock`: every WebSocket constructed. Each has its address, readyState,
  its `open`/`message`/`error` listeners, the requests sent and not yet
  answered, and the replies in flight.
- `issued`: the calls made.
- `outcome`: for each call, what its callback and error handler were
  invoked with.

Code actions:
- `CreateSocket(r, a, useCache)`: the whole call. `useCache` is whether the
  caller passes its cache. The call reuses the cached socket unless it is
  missing or `readyState > 2`. It registers the listeners, then sends or
  defers the send.
- `Opened`: the open listeners send their messages.
- `Receive`: the `message` dispatch.
- `ConnectFailed`, `ConnectionError`: the `error` dispatch.

Environment actions:
- `NodeReply`: the node answers the oldest request on the connection.
- `NodeClose`, `Closed`: a clean close by the node, allowed only when
  `CleanClose`.

Constants:
- `Sequential` models a caller that waits for each call to end, like the
  `getting_status` flag of the commented-out status code in `main.js`.

### AuthPage (`main.js`)

State:
- `selected`: the file each input shows.
- `data`: `Main.data`.
- `readers`: FileReaders started and not loaded.
- `attempts`: one record per click. It holds the files read at the click,
  the phase, the frames the daemon received and its answer.
- `page`: whether the page is still open.

Code actions:
- `Select`: `onchange` → `readFile`.
- `ReadLoaded`: `onload` → `thenSaveUnder`.
- `Click`: `buildAuthMsg` with its two alerts.
- `DaemonOpen`: `onopen`.
- `DaemonUnreachable`, `DaemonFail`: `onclose` without an answer.
- `OnMessage`: `onmessage` → `thenPostIt`.
- `PostSuccess`, `PostError`: the POST's callbacks.

Environment actions:
- `DaemonAnswer`: the daemon, modelled from the spec.

File contents are model values. The Auth message for context `x` and
client `y` is `<<x, y>>`.

### RPSession (`app.js`, `routes/profile.js`)

State:
- `store`: the session store.
- `cookie`: the browser's session cookie.
- `grants`: the authorizations the browser can come back with. One of
  them is the attacker's.
- `req`: a callback request of a tab that is awaiting the token endpoint.
- `loggedOut`: a history variable, set by `/logout` and cleared when a
  callback starts.

Library behaviour the routes rely on is modelled as stated in the module
header:
- express-session loads the session at request start and saves it at
  request end, under `resave: false, saveUninitialized: true`.
- passport-openidconnect's session state store.
- passport's `logIn` and `logout`.

Actions:
- `Login`.
- `CallbackStart`: the state check; on a match the request awaits the
  token endpoint.
- `CallbackFinish`: the token answer, `logIn`, and the session save.
  The cookie is set only if the session was new at request start. A
  matched callback's session never is, so the cookie is left as it is.
- `Logout`.
- `Profile`.

### AuthExchange and the refinement

`AuthExchange` says what the login page promises, with no readers,
sockets or frames. Each click is rejected when a file is missing, or
runs an exchange. The exchange fails, or posts the Auth for exactly the
files held at the click. A posted Auth fails, or is accepted and the
page is left. Nothing happens after that.

`AuthPage` defines `Abstract == INSTANCE AuthExchange WITH ...`:
- `clicks` maps each attempt to its files at the click, its phase folded
  onto the abstract states (`AbstractState`), and the posted Auth;
- `left` is `page = "left"`.

`ImplementsAuthExchange == Abstract!Spec` is a property of
`authpage_safety`. Reads, socket events and daemon steps that change no
abstract state are stuttering steps of `AuthExchange`.

### DagaAuth and DagaAttempt (spec sections 4.3-4.5, 5, 7)

The protocol's code, a Go service, is not under `src/`. These modules
follow the spec, and the map marks them spec-modelled.

`DagaAuth` is what an authentication promises its caller. Each attempt
ends once:
- Done, with exactly `Threshold` distinct roster indices in increasing
  order;
- or Failed, after which the caller may retry up to `MaxAttempts`.

Every attempt ends.

`DagaAttempt` state:
- `phase`: the client engine's state;
- `attempt`, `valid`: the attempt, and whether its proof is valid;
- `down`, `crashes`: crashed servers, and the crash count;
- `pending`: Auth requests the servers hold;
- `inbox`: contributions in the unordered network, each tagged with its
  attempt;
- `got`, `reply`: the aggregator's contributions, and the frozen reply;
- `error`: the error kind of a failed attempt.

`DagaAttempt` actions, one per step of the spec:
- `Commit`, `ReceiveChallenge`, `Respond`, `Verify`: the client engine.
  Too few challenge signatures give `ChallengeVerificationError`. An
  inconsistent contribution gives `ProofRejectedError`.
- `ServerHandle`: a server's verdict. A tampered proof gives
  `InvalidProofError`, which fails the attempt.
- `Crash`, `Restart`: a crash loses the requests the server holds.
- `Collect`, `DiscardLate`: the aggregator. It discards replies to other
  attempts. It freezes at `Threshold` contributions, index-sorted.
- `Timeout`: the deadline.
- `Retry`: a new attempt with fresh randomness. Replies to the old
  attempt are still in flight.

The refinement maps `phase` onto running, done or failed, and maps
`reply` to its indices once Done.

### RosterHelpers (`bundle.js` 288-337, `main.js` 93-96)

Strings are sequences of tokens: `Num(n)` is a run of digits, and
`Txt(s)` is any other piece. `Colon` is `Txt(":")`. The code only
depends on where the colons are and on what `parseInt` reads, and the
tokens keep both.

Operators:
- `HexDigits`, `Pad2`, `Buf2Hex`: `buf2hex`, digit by digit.
- `SetIds`, `TomlToRoster`: `toml_to_roster`. A malformed key throws;
  the catch logs it and the later servers keep no Id. A failed parse
  returns `{}`.
- `Split`, `ParseInt`, `NextPort`, `Join`, `SiToWs`: `si_to_ws`, where
  `NaN + 1` is `NaN`.

State: `toml`, `roster`, `ws`, `phase`. `ToRoster` is the page's call to
`toml_to_roster`. `ToWebSockets` calls `si_to_ws` for each server, and
throws on a roster with no `servers`. The page code is commented out in
`main.js`; the actions follow it.

`WsAddressFollowsSpec` exempts hosts that contain `:` and tcp addresses.
For those, `si_to_ws` splits at the wrong colon and yields a `NaN` port:
`tls://[::1]:7002` gives `ws://[:NaN:1]:7002`, and `tcp://h:7002` gives
`ws://tcp:NaN:7002`. The run reaches both cases.

### Schema (`bundle.js` lines 1-146)

- `Schema`: the skeleton of line 5 as a function from message type to
  field to (id, rule, type). Nested type names are resolved. The two map
  fields, `StatusResponse.system` and `Status.field`, lose their key
  type and are modelled as optional singular fields.
- `Lookup`: `getModel`. A name the Root does not hold gives null, and
  `encodeMessage`/`decodeMessage` then throw.
- `Encode`, `Decode` (RECURSIVE): the protobufjs encoder and decoder
  that `model.encode(msg).finish()` and `model.decode(buffer)` run. The
  wire is a sequence of `[id, val]` entries in id order, one per element
  of a repeated field. A nested message is its own wire. An sint32 is
  zigzag-encoded. The encoder writes a required field without checking
  it is set: an unset bytes, string or message field throws, an unset
  sint32 is written as 0. The decoder throws on a missing required field.
- State: `name`, `fields` (the object passed to `encodeMessage`),
  `buffer`, `decoded`, `phase`. `Init` picks any registered name, or an
  unregistered one, and any fields object of that type. Nested messages
  are minimal well-formed ones or the same without their first required
  field. `Send` is `encodeMessage`, `Receive` is `decodeMessage` of the
  bytes under the same name.

### Defect variants

Each module defines, just before a mapped helper, a one-line variant that
a plausible bug would produce. Examples: an `onMessage` that does not
remove itself, `onopen` reading `Main.data` late, a state check that
accepts anything. Each variant replaces its helper in one mutant, and the
run's property must then fail. The variants are not used by the
specifications.

## 3. Runs

The bounds keep each run under a minute. They are still large enough that
every interleaving of interest happens: two or three calls on one socket,
with reuse, failure and clean close; two files and up to four input
changes with two clicks; two tabs with three sessions and three sign-ins;
every schema type with its nested types, where sint32 values -1, 0 and 1
are the cases where zigzag encoding and the unset-field default differ.

| Run | Expect | What it shows |
|---|---|---|
| `socket_sequential` | pass | With a caller that waits, callbacks get their own replies, through socket reuse, failures and clean closes (3 calls, 1 address, 3 sockets). |
| `socket_liveness` | pass | With overlapping calls and error-raising failures, every call ends. |
| `socket_overlap` | violation | Two overlapping calls both get the first reply. |
| `socket_clean_close` | violation | A clean close by the node leaves a call pending forever. |
| `authpage_safety` | pass | The page implements the abstract `AuthExchange`: the POSTed Auth is the daemon's answer for the files held at the click, and the abstract spec's fairness makes every click that passes the checks end while the page is open (2 files, 4 changes, 2 clicks, daemon may be unreachable or fail). |
| `authpage_stale_data` | violation | An input is cleared while its FileReader is still loading. `readAsArrayBuffer(undefined)` throws, then the earlier read's `onload` stores its file, so `Main.data` holds a file the form does not show. Reads of successive selections finishing out of order have the same effect, but that is not the trace TLC reports. |
| `rp_sessions` | pass | Type invariant only, over every interleaving of two tabs' `/login`, callbacks (one with an attacker's authorization), `/logout` and `/profile` (3 sessions, 3 sign-ins); it fires every RP action. Whether an attacker's callback is rejected is not checked. The stored state is never the attacker's, so such a property would only restate the one comparison. |
| `schema_roundtrip` | pass | Every message of every type that `encodeMessage` accepts is written with the skeleton's field ids and wire types, with an sint32 in zigzag form. The instance has repeated fields of up to two elements and sint32 values -1, 0, 1. Decoding back is not checked: `Encode` and `Decode` are written as inverses, so the round trip would hold whatever the code did. |
| `schema_missing_required` | violation | A ServerSignature with its required index unset is encoded without error, as index 0. |
| `rp_logout_race` | violation | A callback in flight re-saves the session after `/logout` destroyed it. |
| `daga_attempt` | pass | An accepted AuthReply holds only verified contributions to the current attempt's Auth, and the protocol implements `DagaAuth`: each attempt ends once, Done with exactly 2 index-sorted contributions or Failed (3 servers, threshold 2, server 2 faulty, up to 2 crashes, 2 attempts). |
| `roster_helpers` | pass | For every `public.toml` of one or two servers, distinct keys get distinct Ids, and a tls address with a colon-free host becomes `ws://host:port+1` (3 keys, one malformed key, 3 hosts, tls and tcp, with and without a port). |

Deadlock checking is off in every configuration because the systems do
stop:
- the page idles once its bounded calls, changes and clicks are spent;
- a successful POST navigates away;
- a message's trip through the schema ends once it is decoded or an
  encode/decode throws;
- a hung call is one of the behaviours shown.

- an authentication stops once Done, or Failed with its attempts spent.

With `DaemonReliable = FALSE` a click can end as a failed exchange: the
daemon is unreachable or closes without answering, and `onclose` only
logs. The refinement counts this as an end, which it is; that the user
is told nothing is console output, which the model leaves out.

The DAGA bounds: three servers and threshold two are the spec's own
scenario (section 8). Two crashes is one more than the `n - threshold`
failures the protocol tolerates, so both a completed and a timed-out
attempt happen. Two attempts are enough for replies of the first attempt
to arrive during the second.

## 4. Fairness

**CothoritySocket.** Weak fairness is assumed for these actions, and the
code does not schedule them itself:
- the browser settles each connection attempt (open or fail);
- the browser dispatches each message and each close;
- a live node answers every request it received.

No fairness is assumed for new calls, breaks or clean closes. Those are
the caller's and the network's choices.

**AuthPage.** Weak fairness is assumed for FileReader completion, the
socket events, the daemon's answer or failure, and the POST's answer. No
fairness is assumed for the user's actions.

The abstract `AuthExchange` states this as weak fairness on ending each
running click and each POST. `ImplementsAuthExchange` checks it, so the
configuration has no symmetry.

**RPSession.** The model checks safety only.

**DagaAttempt.** Weak fairness is assumed for these steps:
- the client engine's synchronous steps (spec 5: computation never
  suspends);
- the arrival of the challenge;
- each live server's handling of its requests;
- the network's delivery of each server's replies;
- the deadline timer of AwaitReplies.

Crashes, restarts and retries are not forced. The abstract `DagaAuth`
has weak fairness on ending a running attempt, which the deadline
justifies.

## 5. Not modelled, and why

- **Build tooling.** It is build-time file I/O.
- **Views and the 404/error handlers.** They only render.
- **The rest of the commented-out status request in main.js.** Its
  calls to `toml_to_roster` and `si_to_ws` are the actions of
  `RosterHelpers`, and its `getting_status` flag is `Sequential` in
  `CothoritySocket`. The alerts are output only.
- **Local daemon.** It is not under `src/`. It is modelled at its
  interface in `AuthPage`.
- **DAGA context creation and cryptography.** Context creation (spec
  4.2) is a one-off setup exchange. The zero-knowledge relation is an
  open question of the spec (section 9). A proof is valid or tampered,
  and a server's contribution verifies or not.
- **Status request helpers.** `createStatusRequest` and
  `decodeStatusResponse` are one call each to `encodeMessage` and
  `decodeMessage`. `Schema` checks those calls for every type.

## 6. Plan

The modules are written in order of importance: the transport and the
login page first, since the page drives everything else.

1. **Done (sitting 1):** `CothoritySocket`, `AuthPage`, `RPSession`, with
   the runs above.
2. **Done (sitting 1): `Schema`** (`bundle.js` 1-146), with the runs
   `schema_roundtrip` and `schema_missing_required`.
3. **Done (sitting 2): `RosterHelpers`** (`bundle.js` 288-337), run
   `roster_helpers`; and the refinement of `AuthPage` to `AuthExchange`.
   The run `socket_double_outcome` (reply, then error, for one call) was
   retired to stay within twelve runs. `AtMostOneOutcome` still states
   it in `CothoritySocket`.
4. **Done (sitting 3): `DagaAuth` and `DagaAttempt`**, spec-modelled,
   run `daga_attempt`. The client engine, fan-out, server crashes,
   stale replies across retries, the deadline and the aggregator are in
   one module, checked against the abstract one. The page's liveness
   moved into the fairness of `AuthExchange`. This retired the run
   `authpage_liveness` and its property `ClickIsAnswered`.
5. **Open:** composing `DagaAttempt`'s fan-out with `CothoritySocket`'s
   socket semantics, one socket per server. The transport's overlap
   defect would then reach the aggregator.
6. **Done (sitting 4):** repeated schema fields of up to two elements
   (`MaxRepeat = 2`). Two byte values as well took over three minutes,
   so `BytesVals` stays a singleton. The same sitting recorded the missing
   timeouts (`bundle.js` 274, `main.js` 156) and the uncached-socket leak
   (`bundle.js` 248) as hazards. Also mapped: the `onchange` wiring of the
   form fields, and `passport.serializeUser`.
7. **Review (sitting 4):** three properties were removed because they
   held by construction or repeated another one:
   - `PostedAuthIsFromClick`: every violation is also one of
     `ImplementsAuthExchange`.
   - `NoLoginCSRF`: it restated the state comparison.
   - `WellFormedRoundTrips`: it held because `Encode` and `Decode` are
     inverses.
   `CallbackFinish` now sets the cookie only for a new session, as
   express-session does; `rp_logout_race` still fails.
8. **Open, `RPSession` extension:** the two-tab `/login` state overwrite (a
   hazard with no property yet).
