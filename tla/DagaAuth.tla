------------------------------- MODULE DagaAuth -------------------------------
(***************************************************************************)
(* What a DAGA authentication promises its caller (spec 4.3, 4.5, 5, 7),  *)
(* with no messages, servers or proofs: an attempt is running until it    *)
(* ends, once, either Done with a reply of exactly Threshold distinct     *)
(* roster indices in increasing order, or Failed.  A failed attempt may   *)
(* be retried, as a new attempt, up to MaxAttempts; a Done one is final.  *)
(* Every attempt ends.                                                     *)
(***************************************************************************)
EXTENDS Naturals, Sequences

CONSTANTS
  Servers,     \* roster indices
  Threshold,   \* distinct contributions that make an AuthReply complete
  MaxAttempts  \* bound on the attempts of one authentication

VARIABLES
  attempt,  \* the number of the current attempt
  outcome,  \* "running", "done" or "failed"
  reply     \* the roster indices of the AuthReply, once done

vars == <<attempt, outcome, reply>>

\* The canonical encoding of a complete reply: Threshold distinct indices,
\* sorted (spec 5: index-sorted, whatever the arrival order).
Canonical(r) ==
  /\ Len(r) = Threshold
  /\ \A i, j \in 1..Len(r) : i < j => r[i] < r[j]

Init ==
  /\ attempt = 1
  /\ outcome = "running"
  /\ reply = <<>>

Succeed ==
  /\ outcome = "running"
  /\ \E r \in [1..Threshold -> Servers] : Canonical(r) /\ reply' = r
  /\ outcome' = "done"
  /\ UNCHANGED attempt

Fail ==
  /\ outcome = "running"
  /\ outcome' = "failed"
  /\ UNCHANGED <<attempt, reply>>

\* The caller starts over with fresh randomness (spec 7).
Retry ==
  /\ outcome = "failed"
  /\ attempt < MaxAttempts
  /\ attempt' = attempt + 1
  /\ outcome' = "running"
  /\ UNCHANGED reply

Next == Succeed \/ Fail \/ Retry

\* A running attempt ends; retrying is the caller's choice.
Spec == Init /\ [][Next]_vars /\ WF_vars(Succeed \/ Fail)

=============================================================================
