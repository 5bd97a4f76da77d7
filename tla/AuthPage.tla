------------------------------- MODULE AuthPage -------------------------------
(***************************************************************************)
(* The OP's DAGA login page, PoC/OPApp/.../scripts/main.js.               *)
(*                                                                         *)
(* Two file inputs (context, client) each start a FileReader on change;   *)
(* its onload stores the file in Main.data (readFile, thenSaveUnder).     *)
(* The button runs buildAuthMsg: it alerts if a file is not loaded, else  *)
(* opens a WebSocket to the local DAGA daemon, sends the context and then *)
(* the client from onopen, and hands the daemon's answer (the Auth        *)
(* message) to thenPostIt, which POSTs it to the page's URL; on success   *)
(* the page navigates to the returned redirect.                           *)
(*                                                                         *)
(* The user, the FileReaders, the daemon and the OP are the environment.  *)
(* The daemon (spec section 6) reads two frames and answers one Auth      *)
(* built from them; it may be unreachable or fail unless DaemonReliable.  *)
(* File contents are model values; the Auth message for (x, y) is <<x,y>>.*)
(***************************************************************************)
EXTENDS Naturals, Sequences

CONSTANTS
  Files,          \* files the user can pick
  MaxChanges,     \* bound on change events of the two inputs together
  MaxClicks,      \* bound on clicks of the button
  DaemonReliable, \* the daemon is reachable and answers every exchange
  None,           \* an input with no file selected
  Undef           \* a Main.data field never set (undefined)

ASSUME MaxChanges \in Nat /\ MaxClicks \in Nat \ {0}
ASSUME DaemonReliable \in BOOLEAN

Fields == {"context", "client"}

VARIABLES
  selected,  \* elem.files[0] of each input
  data,      \* Main.data.contextFileArrayBuffer / clientFileArrayBuffer
  readers,   \* FileReaders started by an onchange whose onload has not run
  attempts,  \* one record per click, in click order
  changes,   \* change events so far
  page       \* "open", or "left" once window.location.replace has run

vars == <<selected, data, readers, attempts, changes, page>>

\* Phases of a click: an alert, or the daemon exchange and the POST.
Phases == {"alerted", "connecting", "sent", "answered", "posting",
           "postFailed", "closed", "done"}

AttemptRec ==
  [ctx: Files \cup {Undef}, cli: Files \cup {Undef}, phase: Phases,
   frames: Seq(Files), auth: (Files \X Files) \cup {Undef}]

TypeOK ==
  /\ selected \in [Fields -> Files \cup {None}]
  /\ data \in [Fields -> Files \cup {Undef}]
  /\ readers \subseteq [field: Fields, file: Files]
  /\ attempts \in Seq(AttemptRec) /\ Len(attempts) <= MaxClicks
  /\ changes \in 0..MaxChanges
  /\ page \in {"open", "left"}

Init ==
  /\ selected = [f \in Fields |-> None]
  /\ data = [f \in Fields |-> Undef]
  /\ readers = {}
  /\ attempts = <<>>
  /\ changes = 0
  /\ page = "open"

SetPhase(i, p) == attempts' = [attempts EXCEPT ![i].phase = p]

\* The user picks a file, or clears the input.  onchange runs readFile:
\* files[0] is read by a new FileReader; with no file, readAsArrayBuffer
\* throws and nothing is started.
Select(f, file) ==
  /\ page = "open"
  /\ changes < MaxChanges
  /\ file # selected[f]
  /\ selected' = [selected EXCEPT ![f] = file]
  /\ readers' = IF file = None THEN readers
                ELSE readers \cup {[field |-> f, file |-> file]}
  /\ changes' = changes + 1
  /\ UNCHANGED <<data, attempts, page>>

\* Defect variant: onload hands over the reader, not reader.result.
LoadResultReader(rd) == rd

\* reader.result: the contents of the file read.
LoadResult(rd) == rd.file

\* reader.onload: next(reader.result), i.e. thenSaveUnder(field).
ReadLoaded(rd) ==
  /\ page = "open"
  /\ rd \in readers
  /\ data' = [data EXCEPT ![rd.field] = LoadResult(rd)]
  /\ readers' = readers \ {rd}
  /\ UNCHANGED <<selected, attempts, changes, page>>

\* Defect variant: only the context is checked.
ClickPhaseContextOnly(ctx, cli) == IF ctx = Undef THEN "alerted" ELSE "connecting"

\* The two checks of buildAuthMsg: an undefined context or client is
\* alerted and ends the click; else the daemon connection is opened.
ClickPhase(ctx, cli) == IF ctx = Undef \/ cli = Undef THEN "alerted" ELSE "connecting"

\* authFormBtnElem.onclick: buildAuthMsg()(thenPostIt)().  The context and
\* client are read once, here.
Click ==
  /\ page = "open"
  /\ Len(attempts) < MaxClicks
  /\ attempts' = Append(attempts, [ctx |-> data["context"], cli |-> data["client"],
                                   phase |-> ClickPhase(data["context"], data["client"]),
                                   frames |-> <<>>, auth |-> Undef])
  /\ UNCHANGED <<selected, data, readers, changes, page>>

\* Defect variant: onopen sends the context only.
OpenFramesContextOnly(i) == <<attempts[i].ctx>>

\* The frames onopen sends: msgConn.send(context); msgConn.send(client).
OpenFrames(i) == <<attempts[i].ctx, attempts[i].cli>>

\* msgConn.onopen: sends the frames to the daemon.
DaemonOpen(i) ==
  /\ page = "open"
  /\ attempts[i].phase = "connecting"
  /\ attempts' = [attempts EXCEPT ![i].phase = "sent", ![i].frames = OpenFrames(i)]
  /\ UNCHANGED <<selected, data, readers, changes, page>>

\* The daemon cannot be reached: only onclose runs, and it logs.
DaemonUnreachable(i) ==
  /\ ~DaemonReliable
  /\ page = "open"
  /\ attempts[i].phase = "connecting"
  /\ SetPhase(i, "closed")
  /\ UNCHANGED <<selected, data, readers, changes, page>>

\* The daemon has both frames and answers the Auth message built from them.
DaemonAnswer(i) ==
  /\ page = "open"
  /\ attempts[i].phase = "sent"
  /\ Len(attempts[i].frames) = 2
  /\ attempts' = [attempts EXCEPT ![i].phase = "answered",
                                  ![i].auth = <<attempts[i].frames[1], attempts[i].frames[2]>>]
  /\ UNCHANGED <<selected, data, readers, changes, page>>

\* The daemon closes the connection without an answer: onclose logs.
DaemonFail(i) ==
  /\ ~DaemonReliable
  /\ page = "open"
  /\ attempts[i].phase = "sent"
  /\ SetPhase(i, "closed")
  /\ UNCHANGED <<selected, data, readers, changes, page>>

\* msgConn.onmessage: next(evt.data), i.e. thenPostIt, which starts $.post.
OnMessage(i) ==
  /\ page = "open"
  /\ attempts[i].phase = "answered"
  /\ SetPhase(i, "posting")
  /\ UNCHANGED <<selected, data, readers, changes, page>>

\* The POST succeeds: window.location.replace(data.redirect) leaves the page.
PostSuccess(i) ==
  /\ page = "open"
  /\ attempts[i].phase = "posting"
  /\ SetPhase(i, "done")
  /\ page' = "left"
  /\ UNCHANGED <<selected, data, readers, changes>>

\* The POST fails: the error callback logs.
PostError(i) ==
  /\ page = "open"
  /\ attempts[i].phase = "posting"
  /\ SetPhase(i, "postFailed")
  /\ UNCHANGED <<selected, data, readers, changes, page>>

Next ==
  \/ \E f \in Fields, file \in Files \cup {None} : Select(f, file)
  \/ \E rd \in readers : ReadLoaded(rd)
  \/ Click
  \/ \E i \in DOMAIN attempts :
       \/ DaemonOpen(i) \/ DaemonUnreachable(i) \/ DaemonAnswer(i) \/ DaemonFail(i)
       \/ OnMessage(i) \/ PostSuccess(i) \/ PostError(i)

\* FileReaders complete, the browser delivers socket events, a reachable
\* daemon answers and the OP answers every POST.  The user is not forced.
Fairness ==
  /\ \A f \in Fields, file \in Files : WF_vars(ReadLoaded([field |-> f, file |-> file]))
  /\ \A i \in 1..MaxClicks :
       WF_vars(i \in DOMAIN attempts /\ (DaemonOpen(i) \/ DaemonUnreachable(i)))
  /\ \A i \in 1..MaxClicks :
       WF_vars(i \in DOMAIN attempts /\ (DaemonAnswer(i) \/ DaemonFail(i)))
  /\ \A i \in 1..MaxClicks : WF_vars(i \in DOMAIN attempts /\ OnMessage(i))
  /\ \A i \in 1..MaxClicks :
       WF_vars(i \in DOMAIN attempts /\ (PostSuccess(i) \/ PostError(i)))

Spec == Init /\ [][Next]_vars /\ Fairness

-----------------------------------------------------------------------------

\* Once no FileReader is pending, Main.data holds the file each input
\* shows, and nothing for an input the user has cleared (readFile and
\* thenSaveUnder keep the stored file up to date, so that buildAuthMsg's
\* "Please load" checks see what the form shows).
DataMatchesSelection ==
  readers = {} =>
    \A f \in Fields : data[f] = IF selected[f] = None THEN Undef ELSE selected[f]

\* The state of a click as the abstract page sees it.
AbstractState(p) ==
  CASE p = "alerted" -> "rejected"
    [] p \in {"connecting", "sent", "answered"} -> "running"
    [] p = "closed" -> "failed"
    [] p \in {"posting", "postFailed", "done"} -> p

\* The refinement mapping: each click's files, state and posted Auth, and
\* whether the page is left.
Abstract == INSTANCE AuthExchange WITH
  clicks <- [i \in DOMAIN attempts |->
               [files |-> <<attempts[i].ctx, attempts[i].cli>>,
                state |-> AbstractState(attempts[i].phase),
                auth  |-> IF attempts[i].phase \in {"posting", "postFailed", "done"}
                            THEN attempts[i].auth ELSE Undef]],
  left <- page = "left"

\* The page implements AuthExchange: every step of main.js's handlers is a
\* step of the abstract page or leaves it unchanged (a click is rejected
\* exactly when buildAuthMsg alerts, the Auth posted by onmessage ->
\* thenPostIt is the one for the click's files, nothing runs after the
\* page is left), and under the browser's scheduling every click that
\* passes the checks ends, in a failed exchange, a POST error or a
\* redirect, while the page is open.
ImplementsAuthExchange == Abstract!Spec

=============================================================================
