--------------------------- MODULE ScrapeContract ---------------------------
(***************************************************************************)
(* What one execution environment promises of its invocations, without     *)
(* coroutines, threads or batches: a ledger of the messages every unit of  *)
(* work has produced and handed to SQS, and when an invocation may end.    *)
(*                                                                         *)
(* Success is reported only when all that was produced has been handed     *)
(* over, no message is handed over twice, and after a success or a kill    *)
(* the ledger of an invocation is closed.  A failure closes nothing: what  *)
(* the invocation had begun may still go out.                              *)
(***************************************************************************)
EXTENDS Naturals

CONSTANTS
  Invocations,   \* the invocations of the environment
  Work           \* the units of work, tuples that begin with their invocation

VARIABLES
  outcome,       \* how each invocation ended
  owed,          \* how many messages each unit has produced and still owes SQS
  handed         \* how many of them SQS has been handed

vars == <<outcome, owed, handed>>

Init ==
  /\ outcome = [i \in Invocations |-> "none"]
  /\ owed    = [w \in Work |-> 0]
  /\ handed  = [w \in Work |-> 0]

Begin(i) ==
  /\ \A j \in Invocations : outcome[j] # "running"
  /\ outcome[i] = "none"
  /\ outcome' = [outcome EXCEPT ![i] = "running"]
  /\ UNCHANGED <<owed, handed>>

Succeed(i) ==
  /\ outcome[i] = "running"
  /\ \A w \in Work : w[1] = i => owed[w] = 0
  /\ outcome' = [outcome EXCEPT ![i] = "ok"]
  /\ UNCHANGED <<owed, handed>>

Fail(i) ==
  /\ outcome[i] \in {"none", "running"}
  /\ outcome' = [outcome EXCEPT ![i] = "failed"]
  /\ UNCHANGED <<owed, handed>>

(* The process is killed: with it everything that failed invocations left. *)
Kill(i) ==
  /\ outcome[i] = "running"
  /\ outcome' = [outcome EXCEPT ![i] = "killed"]
  /\ UNCHANGED <<owed, handed>>

Open(w) == outcome[w[1]] \in {"running", "failed"}

(* A unit produces its messages once.                                      *)
Produce(w) ==
  /\ Open(w)
  /\ owed[w] = 0 /\ handed[w] = 0
  /\ owed'[w] \in Nat
  /\ owed' = [owed EXCEPT ![w] = owed'[w]]
  /\ UNCHANGED <<outcome, handed>>

(* Messages change hands: what SQS is handed is no longer owed.            *)
Hand(w) ==
  /\ Open(w)
  /\ \E n \in 0..owed[w] :
       /\ owed'   = [owed EXCEPT ![w] = @ - n]
       /\ handed' = [handed EXCEPT ![w] = @ + n]
  /\ UNCHANGED outcome

Next ==
  \/ \E i \in Invocations : Begin(i) \/ Succeed(i) \/ Fail(i) \/ Kill(i)
  \/ \E w \in Work : Produce(w) \/ Hand(w)

Spec == Init /\ [][Next]_vars
=============================================================================
