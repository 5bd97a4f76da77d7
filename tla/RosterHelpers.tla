---------------------------- MODULE RosterHelpers ----------------------------
(***************************************************************************)
(* DagaMessages.buf2hex, toml_to_roster and si_to_ws (PoC/OPApp/.../      *)
(* scripts/bundle.js 282-337), and their use by a page that loads a       *)
(* public.toml and connects to its servers (main.js 88-96, commented out). *)
(*                                                                         *)
(* Strings are sequences of tokens: Num(n), a run of digits, and Txt(s)   *)
(* for everything else (":", "tls", "//", "[", "]", a host name or the    *)
(* rest of an IPv4 address).  Only ':' splits and parseInt's       *)
(* leading digits matter to si_to_ws, and the tokens keep both.  A hex     *)
(* string is a sequence of hex digits 0..15.                              *)
(*                                                                         *)
(* topl.parse, atob and the UUID v5 of a URL are taken by what they do:   *)
(* the parse succeeds or throws; atob gives the key's bytes or throws on  *)
(* a malformed key; the UUID of distinct URLs are distinct.               *)
(***************************************************************************)
EXTENDS Integers, Sequences, SequencesExt

CONSTANTS
  Keys,        \* public keys, as their decoded bytes
  BadKey,      \* a Public entry that is not valid base64
  Hosts,       \* host parts of server addresses, as token sequences
  Ports,       \* declared (TLS) ports
  MaxServers,  \* bound on the servers listed in a public.toml
  Unparsable,  \* a public.toml that topl.parse rejects
  NaN,         \* the number NaN, and its string "NaN"
  Path         \* the path argument of si_to_ws

ASSUME MaxServers \in Nat \ {0}

Num(n) == [num |-> n]
Txt(s) == [txt |-> s]
Colon == Txt(":")

\* x.toString(16): the hex digits of x, without leading zeros.
RECURSIVE HexDigits(_)
HexDigits(x) == IF x < 16 THEN <<x>> ELSE HexDigits(x \div 16) \o <<x % 16>>

\* Defect variant: the digits are not padded to two.
Pad2None(s) == s

\* Defect variant: the first two characters are kept, slice(0, 2).
Pad2Front(s) == SubSeq(<<0, 0>> \o s, 1, 2)

\* ('00' + s).slice(-2): the last two of "00" followed by s.
Pad2(s) == LET p == <<0, 0>> \o s IN SubSeq(p, Len(p) - 1, Len(p))

\* buf2hex(buffer): the padded hex digits of every byte, joined.
Buf2Hex(b) == FlattenSeq([i \in DOMAIN b |-> Pad2(HexDigits(b[i]))])

\* new UUID(5, "ns:URL", "https://dedis.epfl.ch/id/" + hex).export():
\* a name-based UUID, one per URL.
UuidOfUrl(hex) == <<"uuid", hex>>

\* A server of public.toml: its Public key and its Address.
Address(scheme, host, port) ==
  <<Txt(scheme), Colon, Txt("//")>> \o host \o (IF port = NaN THEN <<>> ELSE <<Colon, Num(port)>>)

\* 'str'.split(":"): the pieces between the colons.
RECURSIVE Split(_)
Split(s) ==
  LET i == SelectInSeq(s, LAMBDA t : t = Colon)
  IN  IF i = 0 THEN <<s>> ELSE <<SubSeq(s, 1, i - 1)>> \o Split(SubSeq(s, i + 1, Len(s)))

\* pieces.join(":")
Join(ps) == FlattenSeq([i \in DOMAIN ps |-> IF i = 1 THEN ps[i] ELSE <<Colon>> \o ps[i]])

\* parseInt(piece): its leading number, else NaN (also for undefined).
ParseInt(p) == IF p # <<>> /\ "num" \in DOMAIN p[1] THEN p[1].num ELSE NaN

\* Defect variant: the port is not incremented.
NextPortSame(v) == v

\* parseInt(...) + 1, where NaN + 1 is NaN.
NextPort(v) == IF v = NaN THEN NaN ELSE v + 1

\* The string of a number: "NaN" for NaN.
NumToken(v) == IF v = NaN THEN Txt("NaN") ELSE Num(v)

\* si_to_ws(si, path): drop the first "tls://", split on ':', replace
\* the second piece by its number plus one, join, prefix "ws://".
SiToWs(si, path) ==
  LET ps   == Split(ReplaceFirstSubSeq(<<>>, <<Txt("tls"), Colon, Txt("//")>>, si.Address))
      port == NextPort(ParseInt(IF Len(ps) >= 2 THEN ps[2] ELSE <<>>))
      ps2  == IF Len(ps) >= 2 THEN [ps EXCEPT ![2] = <<NumToken(port)>>] ELSE Append(ps, <<NumToken(port)>>)
  IN  <<Txt("ws"), Colon, Txt("//")>> \o Join(ps2) \o <<Txt(path)>>

\* The servers forEach of toml_to_roster: each server's Public is decoded
\* and its Id set, until a malformed key throws; the exception is caught
\* and logged, and the servers after it keep no Id.
RECURSIVE SetIds(_)
SetIds(ss) ==
  IF ss = <<>> \/ Head(ss).Public = BadKey THEN ss
  ELSE <<[Head(ss) EXCEPT !.Id = UuidOfUrl(Buf2Hex(Head(ss).Public))]>> \o SetIds(Tail(ss))

\* toml_to_roster(toml): {} when the parse throws, else the parsed
\* object with the Ids set so far.
TomlToRoster(toml) ==
  IF toml = Unparsable THEN [parsed |-> FALSE, servers |-> <<>>]
  ELSE [parsed |-> TRUE, servers |-> SetIds(toml)]

-----------------------------------------------------------------------------

NoId == <<>>
Schemes == {"tls", "tcp"}
Server == [Public: Keys \cup {BadKey}, Address: {Address(s, h, p) : s \in Schemes,
                                                   h \in Hosts, p \in Ports \cup {NaN}},
           Id: {NoId}]

VARIABLES
  toml,    \* the public.toml read: Unparsable, or its servers
  roster,  \* what toml_to_roster returned
  ws,      \* the websocket address si_to_ws gave for each server
  phase    \* "read", "parsed", "addressed" or "threw"

vars == <<toml, roster, ws, phase>>

Init ==
  /\ toml \in {Unparsable} \cup UNION {[1..n -> Server] : n \in 1..MaxServers}
  /\ roster = [parsed |-> FALSE, servers |-> <<>>]
  /\ ws = <<>>
  /\ phase = "read"

\* const roster = DagaProtobuf.toml_to_roster(serversToml)
ToRoster ==
  /\ phase = "read"
  /\ roster' = TomlToRoster(toml)
  /\ phase' = "parsed"
  /\ UNCHANGED <<toml, ws>>

\* DagaProtobuf.si_to_ws(roster.servers[i], path) for every server; with
\* no servers property, roster.servers[i] throws a TypeError.
ToWebSockets ==
  /\ phase = "parsed"
  /\ IF ~roster.parsed
       THEN phase' = "threw" /\ UNCHANGED ws
       ELSE /\ ws' = [i \in DOMAIN roster.servers |-> SiToWs(roster.servers[i], Path)]
            /\ phase' = "addressed"
  /\ UNCHANGED <<toml, roster>>

Next == ToRoster \/ ToWebSockets

Spec == Init /\ [][Next]_vars

-----------------------------------------------------------------------------

\* The address the spec derives from a ServerIdentity at tls://host:port.
SpecWs(h, p) == <<Txt("ws"), Colon, Txt("//")>> \o h \o <<Colon, Num(p + 1), Txt(Path)>>

HasId(sv) == sv.Id # NoId

TypeOK ==
  /\ phase \in {"read", "parsed", "addressed", "threw"}
  /\ roster.parsed \in BOOLEAN
  /\ \A i \in DOMAIN roster.servers :
       HasId(roster.servers[i]) =>
         LET hex == roster.servers[i].Id[2]
         IN  /\ roster.servers[i].Id = UuidOfUrl(hex)
             /\ hex \in Seq(0..15) /\ Len(hex) = 2 * Len(roster.servers[i].Public)
  /\ phase = "addressed" => DOMAIN ws = DOMAIN roster.servers

\* Servers with different public keys get different Ids (the hex string
\* of buf2hex, bundle.js 289-294, must be one-to-one for the UUIDs of
\* toml_to_roster, 311-317, to be).
IdsDistinct ==
  \A i, j \in DOMAIN roster.servers :
    /\ HasId(roster.servers[i]) /\ HasId(roster.servers[j])
    /\ roster.servers[i].Public # roster.servers[j].Public
    => roster.servers[i].Id # roster.servers[j].Id

\* For a server at tls://host:port, with no ':' in host, si_to_ws
\* (bundle.js 332-337) gives ws://host:(port+1)path, as the spec's
\* transport section derives it.
WsAddressFollowsSpec ==
  phase = "addressed" =>
    \A i \in DOMAIN ws : \A h \in Hosts, p \in Ports :
      roster.servers[i].Address = Address("tls", h, p) /\ Colon \notin ToSet(h)
        => ws[i] = SpecWs(h, p)

=============================================================================
