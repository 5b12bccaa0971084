------------------------------- MODULE Scrape -------------------------------
(***************************************************************************)
(* One execution environment of the metrics lambda: the handler, the event *)
(* loop it runs, and the coroutines of the executors (src/function.py,     *)
(* src/executor.py, the send loop of src/clients.py).                      *)
(*                                                                         *)
(* An invocation builds one RegionRoleExecutor per (region, role) and      *)
(* gathers their coroutines.  Each of them discovers batches of metrics,   *)
(* gathers one coroutine per batch, then scrapes its static jobs.  A batch *)
(* or the static scrape -- a "unit" -- fetches its metrics and hands the   *)
(* messages to SQS, SendLimit at a time.                                   *)
(*                                                                         *)
(* Two facts of the runtime make this hard.  asyncio.gather raises the     *)
(* first exception and leaves the other coroutines alone: they stay in the *)
(* loop, suspended, when run_until_complete returns.  And asyncio's        *)
(* get_event_loop gives the next invocation of a warm environment the same *)
(* loop, so those orphans go on there.  That holds of the gathers of one   *)
(* executor too: a discovery job or static query that raises leaves its    *)
(* siblings behind.  They send nothing; of these "strays" the model keeps  *)
(* only which executors have some.                                         *)
(***************************************************************************)
EXTENDS Naturals

CONSTANTS
  RegionRoles,     \* the (region, role) keys of the scrape config
  Batches,         \* the (period, delay) keys discovery can group metrics under
  Static,          \* names the unit of a region's static jobs
  DiscoveryRR,     \* the region-roles with discovery jobs
  StaticRR,        \* the region-roles with static jobs
  MaxInvocations,  \* bound: invocations of this environment
  MessageCounts,   \* bound: how many messages a unit can have to send
  SendLimit        \* entries of one send_message_batch (10 in the code)

ASSUME ScrapeAssumption ==
  /\ Static \notin Batches
  /\ DiscoveryRR \cup StaticRR = RegionRoles
  /\ MaxInvocations \in Nat
  /\ MessageCounts \subseteq Nat
  /\ SendLimit \in Nat \ {0}

Invocations == 1..MaxInvocations
Units       == Batches \cup {Static}
Regions     == Invocations \X RegionRoles             \* the executors
Work        == Invocations \X RegionRoles \X Units    \* the units of work

VARIABLES
  running,    \* the invocation whose handler is on the stack, 0 for none
  outcome,    \* how each invocation ended
  region,     \* where each executor's scrape_and_emit stands
  awaited,    \* the batches each executor gathers
  unit,       \* where each unit stands
  strays,     \* the executors whose discovery jobs or static queries live on
  generated,  \* how many messages each unit produced
  left,       \* how many of them send_messages has yet to batch ("remaining")
  batch,      \* the size of the batch in the current send_message_batch
  handed,     \* how many of them SQS has been handed
  refused     \* whether a send that returned left some of those unstored

vars == <<running, outcome, region, awaited, unit, strays,
          generated, left, batch, handed, refused>>

sends == <<generated, left, batch, handed, refused>>

Outcomes     == {"none", "running", "ok", "failed", "killed"}
RegionStates == {"none", "setup", "discovering", "batches", "static",
                 "done", "failed", "killed"}
UnitStates   == {"none", "fetching", "sending", "sent", "broken",
                 "done", "failed", "killed"}

LiveRegion == {"setup", "discovering", "batches", "static"}
LiveUnit   == {"fetching", "sending", "sent", "broken"}

Init ==
  /\ running   = 0
  /\ outcome   = [i \in Invocations |-> "none"]
  /\ region    = [e \in Regions |-> "none"]
  /\ awaited   = [e \in Regions |-> {}]
  /\ unit      = [w \in Work |-> "none"]
  /\ strays    = {}
  /\ generated = [w \in Work |-> 0]
  /\ left      = [w \in Work |-> 0]
  /\ batch     = [w \in Work |-> 0]
  /\ handed    = [w \in Work |-> 0]
  /\ refused   = [w \in Work |-> FALSE]

-----------------------------------------------------------------------------
(* The handler.  Invocations of one environment never overlap, so the next *)
(* one is the first that has not begun.                                    *)

NextInvocation(i) ==
  /\ running = 0
  /\ outcome[i] = "none"
  /\ \A j \in Invocations : j < i => outcome[j] # "none"

(* Config, ClientFactory, SQS client and executors are built, and          *)
(* run_until_complete starts the gather: one coroutine per region-role.    *)
Invoke(i) ==
  /\ NextInvocation(i)
  /\ running' = i
  /\ outcome' = [outcome EXCEPT ![i] = "running"]
  /\ region'  = [e \in Regions |-> IF e[1] = i THEN "setup" ELSE region[e]]
  /\ UNCHANGED <<awaited, unit, strays, sends>>

(* The config does not load, QUEUE_URL is missing, or the SQS client's     *)
(* role cannot be assumed: the handler raises before the loop runs.        *)
Reject(i) ==
  /\ NextInvocation(i)
  /\ outcome' = [outcome EXCEPT ![i] = "failed"]
  /\ UNCHANGED <<running, region, awaited, unit, strays, sends>>

(* Mutant: gather collects exceptions as results (return_exceptions).      *)
MutAllRegionsDone(i) ==
  \A r \in RegionRoles : region[<<i, r>>] \in {"done", "failed"}

(* The gather of the handler's Executor has every result ...               *)
AllRegionsDone(i) == \A r \in RegionRoles : region[<<i, r>>] = "done"

Return(i) ==
  /\ running = i
  /\ outcome[i] = "running"
  /\ AllRegionsDone(i)
  /\ running' = 0
  /\ outcome' = [outcome EXCEPT ![i] = "ok"]
  /\ UNCHANGED <<region, awaited, unit, strays, sends>>

(* ... or a first exception.  The handler raises; what the loop still      *)
(* holds is not cancelled.                                                 *)
Raise(i) ==
  /\ running = i
  /\ outcome[i] = "running"
  /\ \E r \in RegionRoles : region[<<i, r>>] = "failed"
  /\ running' = 0
  /\ outcome' = [outcome EXCEPT ![i] = "failed"]
  /\ UNCHANGED <<region, awaited, unit, strays, sends>>

(* Lambda stops the process: at the function's timeout while an invocation *)
(* runs, or to reclaim an idle environment.  Every coroutine of the loop   *)
(* is gone.                                                                *)
Kill ==
  /\ running' = 0
  /\ outcome' = [i \in Invocations |->
                   IF i = running THEN "killed" ELSE outcome[i]]
  /\ region'  = [e \in Regions |->
                   IF region[e] \in LiveRegion THEN "killed" ELSE region[e]]
  /\ unit'    = [w \in Work |->
                   IF unit[w] \in LiveUnit THEN "killed" ELSE unit[w]]
  /\ strays'  = {}
  /\ \/ running # 0
     \/ unit' # unit \/ region' # region \/ strays # {}
  /\ UNCHANGED <<awaited, sends>>

-----------------------------------------------------------------------------
(* A region-role's coroutine.  Coroutines advance only while the loop      *)
(* runs, whichever invocation runs it.                                     *)

LoopRuns == running # 0

(* After the batches: the static jobs if there are any, otherwise the      *)
(* stats are merged and returned.                                          *)
StaticOrDone(e) ==
  LET s == <<e[1], e[2], Static>>
  IN IF e[2] \in StaticRR
     THEN /\ region' = [region EXCEPT ![e] = "static"]
          /\ unit'   = [unit EXCEPT ![s] = "fetching"]
     ELSE /\ region' = [region EXCEPT ![e] = "done"]
          /\ unit'   = unit

(* ensure_clients, get_account_id and get_account_alias have answered.     *)
SetupDone(e) ==
  /\ LoopRuns
  /\ region[e] = "setup"
  /\ IF e[2] \in DiscoveryRR
     THEN /\ region' = [region EXCEPT ![e] = "discovering"]
          /\ unit'   = unit
     ELSE StaticOrDone(e)
  /\ UNCHANGED <<running, outcome, awaited, strays, sends>>

(* The discovery jobs have returned metrics for the (period, delay) keys   *)
(* D; one coroutine per key is gathered.                                   *)
Discovered(e, D) ==
  /\ LoopRuns
  /\ region[e] = "discovering"
  /\ awaited' = [awaited EXCEPT ![e] = D]
  /\ IF D = {}
     THEN StaticOrDone(e)
     ELSE /\ region' = [region EXCEPT ![e] = "batches"]
          /\ unit'   = [w \in Work |->
                          IF w[1] = e[1] /\ w[2] = e[2] /\ w[3] \in D
                          THEN "fetching" ELSE unit[w]]
  /\ UNCHANGED <<running, outcome, strays, sends>>

(* Mutant: the first batch's result is enough.                             *)
MutBatchesDone(e) ==
  \E b \in awaited[e] : unit[<<e[1], e[2], b>>] = "done"

(* gather has the result of every batch it was given.                      *)
BatchesDone(e) ==
  \A b \in awaited[e] : unit[<<e[1], e[2], b>>] = "done"

BatchesGathered(e) ==
  /\ LoopRuns
  /\ region[e] = "batches"
  /\ BatchesDone(e)
  /\ StaticOrDone(e)
  /\ UNCHANGED <<running, outcome, awaited, strays, sends>>

(* Mutant: nobody looks at the exception of a batch.                       *)
MutRegionFails(e) ==
  /\ LoopRuns
  /\ region[e] \in {"setup", "discovering"}
  /\ region' = [region EXCEPT ![e] = "failed"]
  /\ UNCHANGED <<running, outcome, awaited, unit, strays, sends>>

(* The gather of an executor's discovery jobs or static queries raises:    *)
(* siblings of the one that failed may be left in the loop.                *)
LeaveStrays(e) == strays' \in {strays, strays \cup {e}}

(* The setup or a discovery job raises, or gather hands on the exception   *)
(* of a batch: the executor logs it and raises it again.                   *)
RegionFails(e) ==
  /\ LoopRuns
  /\ \/ region[e] = "setup" /\ UNCHANGED strays
     \/ region[e] = "discovering" /\ LeaveStrays(e)
     \/ /\ region[e] = "batches"
        /\ \E b \in awaited[e] : unit[<<e[1], e[2], b>>] = "failed"
        /\ UNCHANGED strays
  /\ region' = [region EXCEPT ![e] = "failed"]
  /\ UNCHANGED <<running, outcome, awaited, unit, sends>>

(* The last of an executor's strays ends: it returns its tasks or raises,  *)
(* and nobody awaits it.                                                   *)
StraysEnd(e) ==
  /\ LoopRuns
  /\ e \in strays
  /\ strays' = strays \ {e}
  /\ UNCHANGED <<running, outcome, region, awaited, unit, sends>>

-----------------------------------------------------------------------------
(* A unit: a batch's coroutine, or the static part of the executor's own   *)
(* coroutine, which therefore ends with it.                                *)

Finish(w, result) ==
  /\ unit'   = [unit EXCEPT ![w] = result]
  /\ region' = IF w[3] = Static
               THEN [region EXCEPT ![<<w[1], w[2]>>] = result]
               ELSE region

(* Mutant: all that remains goes into one call.                            *)
MutBatchSize(n) == n

BatchSize(n) == IF n > SendLimit THEN SendLimit ELSE n

(* Mutant: a batch is taken, but not cut off what remains.                 *)
MutSendNext(w, n) ==
  /\ batch' = [batch EXCEPT ![w] = BatchSize(n)]
  /\ left'  = [left EXCEPT ![w] = n]
  /\ unit'  = [unit EXCEPT ![w] = "sending"]

(* The head of send_messages' loop: the next SendLimit of the n entries    *)
(* that remain are cut off and submitted to the thread pool.               *)
SendNext(w, n) ==
  /\ batch' = [batch EXCEPT ![w] = BatchSize(n)]
  /\ left'  = [left EXCEPT ![w] = n - BatchSize(n)]
  /\ unit'  = [unit EXCEPT ![w] = "sending"]

(* CloudWatch has answered every query of the unit and the results group   *)
(* into n messages; without any, nothing is sent.                          *)
Fetched(w, n) ==
  /\ LoopRuns
  /\ unit[w] = "fetching"
  /\ generated' = [generated EXCEPT ![w] = n]
  /\ IF n = 0
     THEN Finish(w, "done") /\ UNCHANGED <<left, batch>>
     ELSE SendNext(w, n) /\ UNCHANGED region
  /\ UNCHANGED <<running, outcome, awaited, strays, handed, refused>>

(* A query raises, or two tasks of a message carry the same statistic.     *)
(* Only the static queries are gathered, each a coroutine of its own.      *)
FetchFails(w) ==
  /\ LoopRuns
  /\ unit[w] = "fetching"
  /\ Finish(w, "failed")
  /\ IF w[3] = Static THEN LeaveStrays(<<w[1], w[2]>>) ELSE UNCHANGED strays
  /\ UNCHANGED <<running, outcome, awaited, sends>>

(* send_message_batch runs on a pool thread, with or without the loop.  It *)
(* returns, and the entries SQS did not store are listed in the response   *)
(* under "Failed", which nobody reads; or it raises.                       *)
SendCall(w, failed, result) ==
  /\ unit[w] = "sending"
  /\ handed'  = [handed EXCEPT ![w] = @ + batch[w]]
  /\ refused' = [refused EXCEPT ![w] = @ \/ failed]
  /\ batch'   = [batch EXCEPT ![w] = 0]
  /\ unit'    = [unit EXCEPT ![w] = result]
  /\ UNCHANGED <<running, outcome, region, awaited, strays, generated, left>>

(* The coroutine resumes after the send: the loop goes on while entries    *)
(* remain, then the unit's stats are returned.                             *)
SendReturns(w) ==
  /\ LoopRuns
  /\ unit[w] = "sent"
  /\ IF left[w] > 0
     THEN SendNext(w, left[w]) /\ UNCHANGED region
     ELSE Finish(w, "done") /\ UNCHANGED <<left, batch>>
  /\ UNCHANGED <<running, outcome, awaited, strays, generated, handed, refused>>

SendRaises(w) ==
  /\ LoopRuns
  /\ unit[w] = "broken"
  /\ Finish(w, "failed")
  /\ UNCHANGED <<running, outcome, awaited, strays, sends>>

-----------------------------------------------------------------------------
HandlerStep(i) == Invoke(i) \/ Reject(i) \/ Return(i) \/ Raise(i)

RegionStep(e) ==
  \/ SetupDone(e)
  \/ \E D \in SUBSET Batches : Discovered(e, D)
  \/ BatchesGathered(e)
  \/ RegionFails(e)

UnitStep(w) ==
  \/ \E n \in MessageCounts : Fetched(w, n)
  \/ FetchFails(w)
  \/ SendReturns(w)
  \/ SendRaises(w)

ThreadStep(w) ==
  \/ \E failed \in BOOLEAN : SendCall(w, failed, "sent")
  \/ SendCall(w, FALSE, "broken")

Next ==
  \/ \E i \in Invocations : HandlerStep(i)
  \/ Kill
  \/ \E e \in Regions : RegionStep(e) \/ StraysEnd(e)
  \/ \E w \in Work : UnitStep(w) \/ ThreadStep(w)

Spec == Init /\ [][Next]_vars

(* A running loop resumes every coroutine whose result is in, and every    *)
(* call answers: botocore's connect and read timeouts bound it.  Nothing   *)
(* is assumed of Lambda: it need neither invoke nor kill.                  *)
Fairness ==
  /\ \A i \in Invocations : WF_vars(Return(i) \/ Raise(i))
  /\ \A e \in Regions : WF_vars(RegionStep(e)) /\ WF_vars(StraysEnd(e))
  /\ \A w \in Work : WF_vars(UnitStep(w)) /\ WF_vars(ThreadStep(w))

FairSpec == Spec /\ Fairness

-----------------------------------------------------------------------------
(* Every variable has its type; a batch is never larger than SendLimit,    *)
(* the most entries the call takes (send_messages, remaining[:10]).        *)
TypeOK ==
  /\ running   \in 0..MaxInvocations
  /\ outcome   \in [Invocations -> Outcomes]
  /\ region    \in [Regions -> RegionStates]
  /\ awaited   \in [Regions -> SUBSET Batches]
  /\ unit      \in [Work -> UnitStates]
  /\ strays    \in SUBSET Regions
  /\ generated \in [Work -> Nat]
  /\ left      \in [Work -> Nat]
  /\ batch     \in [Work -> 0..SendLimit]
  /\ handed    \in [Work -> Nat]
  /\ refused   \in [Work -> BOOLEAN]

(* An invocation whose handler returns has scraped everything: every batch *)
(* its discovery found and every static job ended well, and SQS was handed *)
(* every message of every one of them.  No failure is swallowed and no     *)
(* coroutine forgotten between the two levels of gather.                   *)
SuccessIsComplete ==
  \A i \in Invocations, r \in RegionRoles : outcome[i] = "ok" =>
    /\ \A b \in awaited[<<i, r>>] : unit[<<i, r, b>>] = "done"
    /\ r \in StaticRR => unit[<<i, r, Static>>] = "done"
    /\ \A u \in Units : handed[<<i, r, u>>] = generated[<<i, r, u>>]

(* send_messages neither drops nor repeats an entry: at every moment, of   *)
(* success, failure or kill, each message of a unit has been handed to SQS *)
(* once, is in the current batch, or is still to be batched.               *)
EachMessageHandedOnce ==
  \A w \in Work :
    generated[w] = handed[w] + batch[w] + left[w]

(* What lives on in the loop after its invocation ended was left by a      *)
(* failure: a success leaves no coroutine behind, a kill none either.      *)
OrphansComeFromFailures ==
  /\ \A e \in Regions :
       region[e] \in LiveRegion /\ e[1] # running => outcome[e[1]] = "failed"
  /\ \A w \in Work :
       unit[w] \in LiveUnit /\ w[1] # running => outcome[w[1]] = "failed"
  /\ \A e \in strays : e[1] # running => outcome[e[1]] = "failed"

(* A region's static jobs are scraped only after all its batches ended     *)
(* well (scrape_and_emit awaits the gather first), so the message order of *)
(* one region is batches first, even for an orphan in a later invocation.  *)
StaticAfterBatches ==
  \A i \in Invocations, r \in RegionRoles :
    unit[<<i, r, Static>>] # "none" =>
      \A b \in Batches :
        unit[<<i, r, b>>] = IF b \in awaited[<<i, r>>] THEN "done" ELSE "none"

(* What a unit owes SQS: the batch under way and what is left to batch.    *)
Owed == [w \in Work |-> batch[w] + left[w]]

Contract == INSTANCE ScrapeContract WITH owed <- Owed

(* The whole environment implements its contract, in which the loop, the   *)
(* threads and the batches of send_messages are gone: an invocation that   *)
(* succeeds owes nothing, and nothing moves after a success or a kill.     *)
ImplementsContract == Contract!Spec

(* run_until_complete always comes back: every invocation ends, whatever   *)
(* fails and whatever earlier invocations left in the loop.                *)
InvocationEnds ==
  \A i \in Invocations : running = i ~> running # i

(* A region that fails fails its invocation (or the timeout comes first):  *)
(* the exception passes both gathers and the handler, so the error alarm   *)
(* of cloudwatch.tf sees it.                                               *)
FailureIsReported ==
  \A i \in Invocations, r \in RegionRoles :
    region[<<i, r>>] = "failed" ~> outcome[i] \in {"failed", "killed"}

-----------------------------------------------------------------------------
(* What the README says of the function, which the code does not do.       *)

(* "delivering the output in json to an SQS queue": after a successful     *)
(* invocation every message is in the queue.                               *)
SuccessIsDelivered ==
  \A w \in Work : outcome[w[1]] = "ok" => ~refused[w]

(* "to avoid overlapping executions", with a max_concurrency of 1: while   *)
(* an invocation runs, no earlier one is being carried out.                *)
NoOverlappingExecution ==
  running # 0 =>
    /\ \A e \in Regions : region[e] \in LiveRegion => e[1] = running
    /\ \A w \in Work : unit[w] \in LiveUnit => w[1] = running
    /\ \A e \in strays : e[1] = running

(* How far that goes: it takes an invocation that failed.                  *)
OverlapNeedsFailure ==
  (\A i \in Invocations : outcome[i] # "failed") => NoOverlappingExecution

-----------------------------------------------------------------------------
(* The inductive invariant behind the safety properties.  Its first parts  *)
(* tie the coroutines to the handler ...                                   *)

RunningIsCurrent == \A i \in Invocations : outcome[i] = "running" <=> i = running

LiveMeansOpen ==
  /\ \A e \in Regions :
       region[e] \in LiveRegion => outcome[e[1]] \in {"running", "failed"}
  /\ \A w \in Work :
       unit[w] \in LiveUnit => outcome[w[1]] \in {"running", "failed"}

RegionsFollowHandler ==
  \A e \in Regions :
    /\ outcome[e[1]] = "none" => region[e] = "none"
    /\ outcome[e[1]] = "ok" => region[e] = "done"

(* ... the next ones tie the units to their region's coroutine ...         *)
NothingBeforeDiscovery ==
  \A i \in Invocations, r \in RegionRoles :
    region[<<i, r>>] \in {"none", "setup", "discovering"} =>
      awaited[<<i, r>>] = {} /\ \A u \in Units : unit[<<i, r, u>>] = "none"

OnlyAwaitedBatches ==
  \A i \in Invocations, r \in RegionRoles :
    \A b \in Batches \ awaited[<<i, r>>] : unit[<<i, r, b>>] = "none"

StaticFollowsRegion ==
  \A i \in Invocations, r \in RegionRoles :
    /\ region[<<i, r>>] = "batches" => unit[<<i, r, Static>>] = "none"
    /\ region[<<i, r>>] = "static" <=> unit[<<i, r, Static>>] \in LiveUnit
    /\ unit[<<i, r, Static>>] # "none" => r \in StaticRR

DoneRegions ==
  \A i \in Invocations, r \in RegionRoles : region[<<i, r>>] = "done" =>
    /\ \A b \in awaited[<<i, r>>] : unit[<<i, r, b>>] = "done"
    /\ unit[<<i, r, Static>>] = IF r \in StaticRR THEN "done" ELSE "none"

(* ... and the last one ties the counters to where the unit stands.        *)
CountersFollowUnit ==
  \A w \in Work :
    /\ unit[w] \in {"none", "fetching"} =>
         generated[w] = 0 /\ left[w] = 0 /\ batch[w] = 0 /\ handed[w] = 0
    /\ unit[w] \notin {"sending", "killed"} => batch[w] = 0
    /\ unit[w] = "done" => left[w] = 0

IInv ==
  /\ TypeOK
  /\ RunningIsCurrent
  /\ LiveMeansOpen
  /\ RegionsFollowHandler
  /\ NothingBeforeDiscovery
  /\ OnlyAwaitedBatches
  /\ StaticFollowsRegion
  /\ DoneRegions
  /\ StaticAfterBatches
  /\ CountersFollowUnit
  /\ EachMessageHandedOnce

(* What it says of the strays: their executor has failed, and so has its   *)
(* invocation unless the handler has yet to learn of it.                   *)
StraysHaveFailed ==
  \A e \in strays :
    region[e] = "failed" /\ outcome[e[1]] \in {"running", "failed"}

-----------------------------------------------------------------------------
(* Why run_until_complete can always go on: every region-role of the       *)
(* running invocation has its coroutine, and a gather waits for units that *)
(* were started and not lost.                                              *)
RunningRegions ==
  \A i \in Invocations, r \in RegionRoles : outcome[i] = "running" =>
    region[<<i, r>>] \in LiveRegion \cup {"done", "failed"}

AwaitedUnits ==
  \A i \in Invocations, r \in RegionRoles : region[<<i, r>>] = "batches" =>
    \A b \in awaited[<<i, r>>] : unit[<<i, r, b>>] \in LiveUnit \cup {"done", "failed"}

(* What can go on in a running loop: a handler whose gather has all        *)
(* results or an exception, a region that waits for its clients or jobs,   *)
(* or whose gather has them, a unit whose call can end.                    *)
HandlerCanGo(i) ==
  AllRegionsDone(i) \/ \E r \in RegionRoles : region[<<i, r>>] = "failed"

RegionCanGo(e) ==
  \/ region[e] \in {"setup", "discovering"}
  \/ /\ region[e] = "batches"
     /\ BatchesDone(e) \/ \E b \in awaited[e] : unit[<<e[1], e[2], b>>] = "failed"

UnitCanGo(w) == unit[w] \in LiveUnit

(* A running invocation never waits for anything but its own work: one of  *)
(* its own coroutines, or the handler itself, can go on, whatever orphans  *)
(* of earlier invocations do in the same loop.                             *)
NeverStuck ==
  \A i \in Invocations : running = i =>
    \/ HandlerCanGo(i)
    \/ \E r \in RegionRoles :
         RegionCanGo(<<i, r>>) \/ \E u \in Units : UnitCanGo(<<i, r, u>>)
=============================================================================
