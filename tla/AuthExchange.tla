----------------------------- MODULE AuthExchange -----------------------------
(***************************************************************************)
(* What the OP login page promises, with no sockets, readers or frames:   *)
(* a click with a file missing is rejected; any other click runs an       *)
(* exchange for the two files held at the click, which either fails or    *)
(* posts the Auth message for exactly those files; a posted Auth is       *)
(* accepted, and the page is left, or its POST fails.  Once the page is   *)
(* left nothing more happens on it.  While the page is open, every click *)
(* that runs ends, and every POST is answered.                            *)
(***************************************************************************)
EXTENDS Naturals, Sequences

CONSTANTS Files, MaxClicks, Undef

VARIABLES
  clicks,  \* per click: the files held, its state, the Auth posted
  left     \* the page has been left

States == {"rejected", "running", "failed", "posting", "postFailed", "done"}

Init ==
  /\ clicks = <<>>
  /\ left = FALSE

\* A click with the files (ctx, cli) held at that moment.
Click(ctx, cli) ==
  /\ ~left
  /\ Len(clicks) < MaxClicks
  /\ clicks' = Append(clicks, [files |-> <<ctx, cli>>, auth |-> Undef,
                               state |-> IF Undef \in {ctx, cli} THEN "rejected" ELSE "running"])
  /\ UNCHANGED left

Move(i, from, to) ==
  /\ ~left
  /\ clicks[i].state = from
  /\ clicks' = [clicks EXCEPT ![i].state = to]

\* The exchange ends without an Auth.
Fail(i) == Move(i, "running", "failed") /\ UNCHANGED left

\* The Auth for the click's files is posted.
Post(i) ==
  /\ ~left
  /\ clicks[i].state = "running"
  /\ clicks' = [clicks EXCEPT ![i].state = "posting", ![i].auth = clicks[i].files]
  /\ UNCHANGED left

PostFail(i) == Move(i, "posting", "postFailed") /\ UNCHANGED left

\* The OP accepts the Auth and the page is left.
Accept(i) == Move(i, "posting", "done") /\ left' = TRUE

Next ==
  \/ \E ctx, cli \in Files \cup {Undef} : Click(ctx, cli)
  \/ \E i \in DOMAIN clicks : Fail(i) \/ Post(i) \/ PostFail(i) \/ Accept(i)

\* The exchange and the POST of a click end while the page is open; the
\* user's clicks are not forced.
Fairness ==
  \A i \in 1..MaxClicks :
    /\ WF_<<clicks, left>>(i \in DOMAIN clicks /\ (Fail(i) \/ Post(i)))
    /\ WF_<<clicks, left>>(i \in DOMAIN clicks /\ (PostFail(i) \/ Accept(i)))

Spec == Init /\ [][Next]_<<clicks, left>> /\ Fairness

=============================================================================
