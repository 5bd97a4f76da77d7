------------------------------ MODULE DagaAttempt ------------------------------
(***************************************************************************)
(* One DAGA authentication, attempt by attempt: the client proof engine   *)
(* (spec 4.3), the server proof engines it fans out to (4.4) and the      *)
(* aggregator that collects their contributions (4.5), with the           *)
(* concurrency, deadline and error rules of sections 5 and 7.             *)
(*                                                                         *)
(* The cryptography is abstracted to what the checks decide: a client     *)
(* proof is valid or tampered; a server of Faulty returns an inconsistent *)
(* ServerProof.  Servers are stateless per request: a crash loses the     *)
(* requests it holds, and a restarted server answers new ones.  Replies   *)
(* travel through an unordered network and outlive the attempt that       *)
(* asked for them.                                                         *)
(***************************************************************************)
EXTENDS Naturals, FiniteSets, SequencesExt

CONSTANTS
  Servers,      \* roster indices
  Threshold,    \* distinct valid contributions that complete an AuthReply
  Faulty,       \* servers whose ServerProof does not verify
  MaxAttempts,  \* bound on attempts (each retry is a new attempt)
  MaxCrashes    \* bound on server crashes over the whole run

ASSUME /\ Servers \subseteq Nat /\ Faulty \subseteq Servers
       /\ Threshold \in 1..Cardinality(Servers)
       /\ MaxAttempts \in Nat \ {0} /\ MaxCrashes \in Nat

VARIABLES
  phase,    \* the client engine's state (4.3)
  attempt,  \* the current attempt; its randomness is fresh
  valid,    \* the current attempt's ClientProof satisfies the relation
  down,     \* servers that are crashed
  crashes,  \* crashes so far
  pending,  \* Auth requests held by servers: [srv, att, valid]
  inbox,    \* contributions in the network: [srv, att, kind]
  got,      \* contributions the aggregator holds for this attempt
  reply,    \* the frozen AuthReply, sorted by index; <<>> until frozen
  error     \* the error kind a Failed attempt carries

vars == <<phase, attempt, valid, down, crashes, pending, inbox, got, reply, error>>

Phases == {"Init", "AwaitChallenge", "Respond", "AwaitReplies", "Verify", "Done", "Failed"}
Kinds == {"proof", "bad", "invalid"}
Errors == {"none", "ChallengeVerificationError", "InvalidProofError", "TimeoutError",
           "ProofRejectedError"}

Init ==
  /\ phase = "Init"
  /\ attempt = 1
  /\ valid = FALSE
  /\ down = {}
  /\ crashes = 0
  /\ pending = {}
  /\ inbox = {}
  /\ got = {}
  /\ reply = <<>>
  /\ error = "none"

Fail(e) == phase' = "Failed" /\ error' = e

\* Init and Commit: load the Context, draw this attempt's randomness, send
\* PKclientCommitments.
Commit ==
  /\ phase = "Init"
  /\ phase' = "AwaitChallenge"
  /\ UNCHANGED <<attempt, valid, down, crashes, pending, inbox, got, reply, error>>

\* AwaitChallenge: PKclientChallenge arrives signed by the live servers in
\* sigs; fewer than Threshold signatures fail the attempt.
ReceiveChallenge(sigs) ==
  /\ phase = "AwaitChallenge"
  /\ IF Cardinality(sigs) >= Threshold THEN phase' = "Respond" /\ UNCHANGED error
     ELSE Fail("ChallengeVerificationError")
  /\ UNCHANGED <<attempt, valid, down, crashes, pending, inbox, got, reply>>

\* Respond: build ClientProof and Auth, then fan Auth out to every roster
\* server; a crashed server's connection fails and the request is lost.
Respond(ok) ==
  /\ phase = "Respond"
  /\ valid' = ok
  /\ pending' = pending \cup {[srv |-> s, att |-> attempt, valid |-> ok] : s \in Servers \ down}
  /\ phase' = "AwaitReplies"
  /\ UNCHANGED <<attempt, down, crashes, inbox, got, reply, error>>

\* The verdict of a server on an Auth (4.4): InvalidProofError for a
\* tampered proof, else its contribution, inconsistent if it is Faulty.
Verdict(m) ==
  IF ~m.valid THEN "invalid" ELSE IF m.srv \in Faulty THEN "bad" ELSE "proof"

\* A live server handles an Auth request and returns its answer.
ServerHandle(m) ==
  /\ m \in pending
  /\ m.srv \notin down
  /\ pending' = pending \ {m}
  /\ inbox' = inbox \cup {[srv |-> m.srv, att |-> m.att, kind |-> Verdict(m)]}
  /\ UNCHANGED <<phase, attempt, valid, down, crashes, got, reply, error>>

Crash(s) ==
  /\ s \notin down
  /\ crashes < MaxCrashes
  /\ down' = down \cup {s}
  /\ crashes' = crashes + 1
  /\ pending' = {m \in pending : m.srv # s}
  /\ UNCHANGED <<phase, attempt, valid, inbox, got, reply, error>>

Restart(s) ==
  /\ s \in down
  /\ down' = down \ {s}
  /\ UNCHANGED <<phase, attempt, valid, crashes, pending, inbox, got, reply, error>>

\* Freeze: the contributions held, sorted by roster index (spec 5).
Freeze(S) == SetToSortSeq(S, LAMBDA a, b : a.srv < b.srv)

\* Defect variant: the reply is frozen one contribution early.
CompleteEarly(n) == n >= Threshold - 1

\* Threshold-many distinct indices complete the reply (4.5).
Complete(n) == n = Threshold

\* Defect variant: a contribution is taken whatever Auth it answers.
ForAttemptAny(c) == TRUE

\* The contribution answers the current attempt's Auth.
ForAttempt(c) == c.att = attempt

\* The aggregator takes a contribution while it awaits replies: an
\* InvalidProofError fails the attempt; at Threshold distinct indices the
\* reply is frozen and the client verifies it.  A contribution that does
\* not answer this attempt's Auth is discarded.
Collect(c) ==
  /\ phase = "AwaitReplies"
  /\ c \in inbox
  /\ inbox' = inbox \ {c}
  /\ IF ~ForAttempt(c) THEN UNCHANGED <<phase, got, reply, error>>
     ELSE IF c.kind = "invalid" THEN Fail("InvalidProofError") /\ UNCHANGED <<got, reply>>
     ELSE /\ got' = got \cup {c}
          /\ IF Complete(Cardinality(got'))
               THEN reply' = Freeze(got') /\ phase' = "Verify"
               ELSE UNCHANGED <<reply, phase>>
          /\ UNCHANGED error
  /\ UNCHANGED <<attempt, valid, down, crashes, pending>>

\* A contribution arriving when no attempt awaits replies is discarded.
DiscardLate(c) ==
  /\ phase # "AwaitReplies"
  /\ c \in inbox
  /\ inbox' = inbox \ {c}
  /\ UNCHANGED <<phase, attempt, valid, down, crashes, pending, got, reply, error>>

\* The deadline of AwaitReplies expires before the reply is frozen.
Timeout ==
  /\ phase = "AwaitReplies"
  /\ Fail("TimeoutError")
  /\ UNCHANGED <<attempt, valid, down, crashes, pending, inbox, got, reply>>

\* Verify: every contribution of the reply must verify.
Verify ==
  /\ phase = "Verify"
  /\ IF \A i \in DOMAIN reply : reply[i].kind = "proof"
       THEN phase' = "Done" /\ UNCHANGED error
       ELSE Fail("ProofRejectedError")
  /\ UNCHANGED <<attempt, valid, down, crashes, pending, inbox, got, reply>>

\* Defect variant: retries are not bounded.
RetryUnbounded ==
  /\ phase = "Failed"
  /\ phase' = "Init"
  /\ attempt' = attempt + 1
  /\ got' = {}
  /\ reply' = <<>>
  /\ error' = "none"
  /\ UNCHANGED <<valid, down, crashes, pending, inbox>>

\* The caller retries a failed attempt from Init with fresh randomness.
Retry ==
  /\ phase = "Failed"
  /\ attempt < MaxAttempts
  /\ phase' = "Init"
  /\ attempt' = attempt + 1
  /\ got' = {}
  /\ reply' = <<>>
  /\ error' = "none"
  /\ UNCHANGED <<valid, down, crashes, pending, inbox>>

Next ==
  \/ Commit
  \/ \E sigs \in SUBSET (Servers \ down) : ReceiveChallenge(sigs)
  \/ \E ok \in BOOLEAN : Respond(ok)
  \/ \E m \in pending : ServerHandle(m)
  \/ \E s \in Servers : Crash(s) \/ Restart(s)
  \/ \E c \in inbox : Collect(c) \/ DiscardLate(c)
  \/ Timeout
  \/ Verify
  \/ Retry

\* The engine's synchronous steps run, the challenge arrives, live
\* servers answer, the network delivers and the deadline timer fires.
\* Crashes, restarts and retries are not forced.
Fairness ==
  /\ WF_vars(Commit)
  /\ WF_vars(\E sigs \in SUBSET (Servers \ down) : ReceiveChallenge(sigs))
  /\ WF_vars(\E ok \in BOOLEAN : Respond(ok))
  /\ WF_vars(Verify)
  /\ WF_vars(Timeout)
  /\ \A s \in Servers : WF_vars(\E m \in pending : m.srv = s /\ ServerHandle(m))
  /\ \A s \in Servers : WF_vars(\E c \in inbox : c.srv = s /\ (Collect(c) \/ DiscardLate(c)))

Spec == Init /\ [][Next]_vars /\ Fairness

-----------------------------------------------------------------------------

Message == [srv: Servers, att: 1..MaxAttempts, kind: Kinds]

TypeOK ==
  /\ phase \in Phases /\ attempt \in 1..MaxAttempts /\ valid \in BOOLEAN
  /\ down \subseteq Servers /\ crashes \in 0..MaxCrashes
  /\ pending \subseteq [srv: Servers, att: 1..MaxAttempts, valid: BOOLEAN]
  /\ inbox \subseteq Message /\ got \subseteq Message
  /\ reply \in Seq(Message) /\ error \in Errors

\* A reply the client accepts holds only contributions answering this
\* attempt's Auth, each a verified ServerProof, and this attempt's proof
\* was valid: a contribution to an earlier, timed-out attempt that arrives
\* late never completes a later one (spec 4.3 Verify, 4.5, 7).
DoneOnlyWithThisAttemptsProofs ==
  phase = "Done" =>
    /\ valid
    /\ \A i \in DOMAIN reply : reply[i].att = attempt /\ reply[i].kind = "proof"

\* The detailed protocol implements DagaAuth: each attempt ends once, Done
\* with exactly Threshold distinct indices in index order, whatever the
\* arrival order, or Failed; a retry is a new attempt; every attempt ends.
Abstract == INSTANCE DagaAuth WITH
  outcome <- CASE phase = "Done" -> "done" [] phase = "Failed" -> "failed"
                  [] OTHER -> "running",
  reply <- IF phase = "Done" THEN [i \in DOMAIN reply |-> reply[i].srv] ELSE <<>>

ImplementsDagaAuth == Abstract!Spec

=============================================================================
