--------------------------- MODULE CothoritySocket ---------------------------
(***************************************************************************)
(* DagaMessages.createSocket (PoC/OPApp/.../scripts/bundle.js 245-279):    *)
(* the browser's transport to cothority nodes.  A caller-owned cache maps  *)
(* a websocket address to a WebSocket; a call reuses the cached socket     *)
(* unless it is missing or CLOSED, registers one-shot 'error' and          *)
(* 'message' listeners for its own callbacks, and sends its message at     *)
(* once or, while the socket is CONNECTING, from an 'open' listener.       *)
(*                                                                         *)
(* The browser and the node are the environment: a connection opens or    *)
(* fails, the node answers the requests of a connection one by one in      *)
(* order, a connection breaks (error event) or, where CleanClose holds, is *)
(* closed by the node with a close handshake (close event only).  A        *)
(* WebSocket event is dispatched to every listener registered when it      *)
(* fires, and send() on a CLOSING or CLOSED socket discards the data.      *)
(***************************************************************************)
EXTENDS Naturals, Sequences, FiniteSets

CONSTANTS
  Addresses,   \* websocket addresses, as built by si_to_ws
  Requests,    \* createSocket calls, each with its own message and callbacks
  MaxSockets,  \* bound on the number of WebSocket objects constructed
  Sequential,  \* the caller starts a call only when no earlier one is pending
  CleanClose,  \* a node may close a connection with a close handshake
  NoSock       \* absent cache entry

ASSUME MaxSockets \in Nat \ {0}
ASSUME Sequential \in BOOLEAN /\ CleanClose \in BOOLEAN

\* WebSocket.readyState
CONNECTING == 0
OPEN       == 1
CLOSING    == 2
CLOSED     == 3

VARIABLES
  cache,    \* the socket object passed by the caller: address -> socket id
  sock,     \* constructed WebSockets, indexed by socket id
  issued,   \* requests whose createSocket call has run
  outcome   \* per request, what its callback/error were invoked with, in order

vars == <<cache, sock, issued, outcome>>

\* What a callback of a request can be invoked with: the reply the node sent
\* to request q (callback(e.data)) or an error event (error(e)).
\* Defect variant: callback(e), the event instead of its data.
ReplyEvent(q) == [kind |-> "message", of |-> q]
Reply(q) == [kind |-> "reply", of |-> q]
ErrorEvent == [kind |-> "error", of |-> NoSock]
Outcomes == [kind: {"reply"}, of: Requests] \cup {ErrorEvent}

SocketRec ==
  [addr: Addresses, ready: CONNECTING..CLOSED,
   openL: Seq(Requests),          \* 'open' listeners, in registration order
   msgL: SUBSET Requests,         \* 'message' listeners (onMessage)
   errL: SUBSET Requests,         \* 'error' listeners (onError)
   wire: Seq(Requests),           \* requests sent, not yet answered by the node
   replies: Seq(Requests)]        \* replies in flight: the request each answers

Sockets == 1..Len(sock)

Pending == {r \in issued : outcome[r] = <<>>}

\* new WebSocket(address)
NewSocket(a) ==
  [addr |-> a, ready |-> CONNECTING, openL |-> <<>>, msgL |-> {}, errL |-> {},
   wire |-> <<>>, replies |-> <<>>]

\* sock.send(message): transmitted when OPEN, discarded when CLOSING/CLOSED.
Send(so, r) ==
  IF so.ready = OPEN THEN [so EXCEPT !.wire = Append(@, r)] ELSE so

\* Defect variant: the send is deferred also when the socket is OPEN.
DeferredUpToOpen(so) == so.ready <= OPEN

\* if (sock.readyState === 0): the send waits for the 'open' event.
Deferred(so) == so.ready = CONNECTING

\* The listeners and the send of one createSocket call on socket so.
Register(so, r) ==
  LET l == [so EXCEPT !.errL = @ \cup {r}, !.msgL = @ \cup {r}]
  IN  IF Deferred(l)
        THEN [l EXCEPT !.openL = Append(@, r)]
        ELSE Send(l, r)

\* The cached socket is reused unless missing or readyState > 2.
Reusable(a) == cache[a] # NoSock /\ sock[cache[a]].ready <= CLOSING

\* createSocket(socket, address, message, callback, error); useCache is
\* whether the caller passes its cache object (a falsy one is replaced by {}).
CreateSocket(r, a, useCache) ==
  /\ r \notin issued
  /\ Sequential => Pending = {}
  /\ LET reuse == useCache /\ Reusable(a)
         s     == IF reuse THEN cache[a] ELSE Len(sock) + 1
         base  == IF reuse THEN sock ELSE Append(sock, NewSocket(a))
     IN  /\ reuse \/ Len(sock) < MaxSockets
         /\ sock' = [base EXCEPT ![s] = Register(@, r)]
         /\ cache' = IF useCache /\ ~reuse THEN [cache EXCEPT ![a] = s] ELSE cache
  /\ issued' = issued \cup {r}
  /\ UNCHANGED outcome

\* An error event runs every onError listener: each removes itself and calls
\* error(e).  The onMessage listeners stay registered.
FireError(so) ==
  outcome' = [r \in Requests |->
                IF r \in so.errL THEN Append(outcome[r], ErrorEvent) ELSE outcome[r]]

\* The connection is established: every 'open' listener sends its message.
Opened(s) ==
  /\ sock[s].ready = CONNECTING
  /\ sock' = [sock EXCEPT ![s].ready = OPEN, ![s].wire = @ \o sock[s].openL]
  /\ UNCHANGED <<cache, issued, outcome>>

\* The connection attempt fails: error event, then close.
ConnectFailed(s) ==
  /\ sock[s].ready = CONNECTING
  /\ FireError(sock[s])
  /\ sock' = [sock EXCEPT ![s].ready = CLOSED, ![s].errL = {}]
  /\ UNCHANGED <<cache, issued>>

\* The node handles the oldest request of the connection and replies.
NodeReply(s) ==
  /\ sock[s].ready = OPEN
  /\ sock[s].wire # <<>>
  /\ sock' = [sock EXCEPT ![s].wire = Tail(@), ![s].replies = Append(@, Head(sock[s].wire))]
  /\ UNCHANGED <<cache, issued, outcome>>

\* Defect variant: onMessage does not remove itself.
MsgListenersKept(so) == so.msgL

\* sock.removeEventListener('message', onMessage) by each listener run.
MsgListenersAfter(so) == {}

\* A message event: every onMessage listener removes itself and calls
\* callback(e.data) with the same reply.
Receive(s) ==
  /\ sock[s].ready = OPEN
  /\ sock[s].replies # <<>>
  /\ outcome' = [r \in Requests |->
                   IF r \in sock[s].msgL
                     THEN Append(outcome[r], Reply(Head(sock[s].replies)))
                     ELSE outcome[r]]
  /\ sock' = [sock EXCEPT ![s].replies = Tail(@), ![s].msgL = MsgListenersAfter(sock[s])]
  /\ UNCHANGED <<cache, issued>>

\* The node closes the connection with a close handshake once its replies
\* are out; requests it has not handled are dropped.
NodeClose(s) ==
  /\ CleanClose
  /\ sock[s].ready = OPEN
  /\ sock[s].replies = <<>>
  /\ sock' = [sock EXCEPT ![s].ready = CLOSING, ![s].wire = <<>>]
  /\ UNCHANGED <<cache, issued, outcome>>

\* The close handshake completes: a close event, which nothing listens to.
Closed(s) ==
  /\ sock[s].ready = CLOSING
  /\ sock' = [sock EXCEPT ![s].ready = CLOSED]
  /\ UNCHANGED <<cache, issued, outcome>>

\* The connection breaks: error event, then close; data in flight is lost.
ConnectionError(s) ==
  /\ sock[s].ready \in {OPEN, CLOSING}
  /\ FireError(sock[s])
  /\ sock' = [sock EXCEPT ![s].ready = CLOSED, ![s].errL = {},
                          ![s].wire = <<>>, ![s].replies = <<>>]
  /\ UNCHANGED <<cache, issued>>

Init ==
  /\ cache = [a \in Addresses |-> NoSock]
  /\ sock = <<>>
  /\ issued = {}
  /\ outcome = [r \in Requests |-> <<>>]

Next ==
  \/ \E r \in Requests, a \in Addresses, useCache \in BOOLEAN : CreateSocket(r, a, useCache)
  \/ \E s \in Sockets :
       \/ Opened(s) \/ ConnectFailed(s) \/ NodeReply(s) \/ Receive(s)
       \/ NodeClose(s) \/ Closed(s) \/ ConnectionError(s)

\* The browser settles every connection attempt and delivers every message
\* and close it receives; a live node answers every request it receives.
\* Calls, breaks and node-initiated closes are not forced to happen.
Fairness ==
  \A s \in 1..MaxSockets :
    /\ WF_vars(s \in Sockets /\ (Opened(s) \/ ConnectFailed(s)))
    /\ WF_vars(s \in Sockets /\ NodeReply(s))
    /\ WF_vars(s \in Sockets /\ Receive(s))
    /\ WF_vars(s \in Sockets /\ Closed(s))

Spec == Init /\ [][Next]_vars /\ Fairness

-----------------------------------------------------------------------------

TypeOK ==
  /\ cache \in [Addresses -> 1..MaxSockets \cup {NoSock}]
  /\ sock \in Seq(SocketRec) /\ Len(sock) <= MaxSockets
  /\ issued \subseteq Requests
  /\ outcome \in [Requests -> Seq(Outcomes)]

\* The callback of a request is only ever given the node's reply to that
\* request (onMessage listeners of bundle.js 264-268 against the replies
\* of the connection they were registered on).
ReplyGoesToItsRequest ==
  \A r \in Requests : \A i \in DOMAIN outcome[r] :
    outcome[r][i].kind = "reply" => outcome[r][i].of = r

\* A request ends once: its callback or its error handler is invoked, and
\* only one time (onMessage and onError of bundle.js 258-268 each remove
\* only themselves).
AtMostOneOutcome ==
  \A r \in Requests : Len(outcome[r]) <= 1

\* Every createSocket call eventually invokes its callback or its error
\* handler (no request waits forever on a socket reused from the cache).
EveryRequestAnswered ==
  \A r \in Requests : (r \in issued) ~> (outcome[r] # <<>>)

=============================================================================
