------------------------------ MODULE Schedule ------------------------------
(***************************************************************************)
(* The windows that successive invocations of one executor ask for: the    *)
(* requests of a scrape config become tasks, discovery finds metrics for   *)
(* some of them, those that share a period and a delay are merged into one *)
(* batch with the longest length (get_batched_discovery_metrics), and each *)
(* window is computed when its batch or its static request begins.         *)
(*                                                                         *)
(* The clock is explicit.  The schedule fires every Rate, at most Jitter   *)
(* late, and an invocation ends, for whatever reason, within Timeout.      *)
(* Which requests fail and what is sent are Scrape's subject.              *)
(***************************************************************************)
EXTENDS JobPlan, Window

CONSTANTS
  Configs,   \* the scrape configs that may be deployed
  Rate,      \* of the schedule expression
  Jitter,    \* how late the schedule may fire
  Timeout,   \* of the lambda function
  MaxTime,   \* bound: when the model's clock stops
  Unread     \* no window was asked for

(* The invocations do not overlap: "to avoid overlapping executions".      *)
ASSUME ScheduleAssumption ==
  /\ Rate \in Nat /\ Jitter \in Nat /\ Timeout \in Nat /\ MaxTime \in Nat
  /\ Jitter + Timeout <= Rate

ASSUME ConfigsAssumption ==
  \A config \in Configs : \A j \in DOMAIN config :
    /\ config[j].static \in BOOLEAN
    /\ \A k \in DOMAIN config[j].metrics : \A f \in {"period", "length", "delay"} :
         Field(config[j].metrics[k], f) \in Nat

ASSUME UnreadAssumption == Unread \notin [at : Nat, start : Int, end : Int]

VARIABLES
  clock,
  due,       \* when the schedule fires next
  began,     \* when the invocation began
  phase,     \* cold, idle, discovering, merging or reading
  tasks,     \* of the executor
  unmerged,  \* tasks that were found and are in no batch yet
  batches,   \* for each (period, delay), its length and its tasks
  found,     \* tasks that discovery found
  now,       \* for each task the window this invocation asks for
  prev       \* for each task the window the invocation before asked for

vars == <<clock, due, began, phase, tasks, unmerged, batches, found, now, prev>>

Key(t) == <<t.period, t.delay>>

NoBatches(T) == [k \in {Key(t) : t \in T} |-> [length |-> 0, tasks |-> {}]]

NoWindows(T) == [t \in T |-> Unread]

Init ==
  /\ clock \in 0..Rate
  /\ due = clock
  /\ began = 0
  /\ phase = "cold"
  /\ tasks = {}
  /\ unmerged = {}
  /\ found = {}
  /\ batches = NoBatches({})
  /\ now = NoWindows({})
  /\ prev = NoWindows({})

(* Time passes; no invocation outlives its timeout, and the schedule fires.*)
Tick ==
  /\ clock < MaxTime
  /\ IF phase \in {"cold", "idle"} THEN clock < due + Jitter ELSE clock < began + Timeout
  /\ clock' = clock + 1
  /\ UNCHANGED <<due, began, phase, tasks, unmerged, batches, found, now, prev>>

Fires ==
  /\ due <= clock
  /\ due' = due + Rate
  /\ began' = clock
  /\ UNCHANGED clock

(* A first invocation loads the config; one that does not parse fails the  *)
(* invocation and is loaded again by the next.                             *)
ColdStart ==
  /\ phase = "cold"
  /\ Fires
  /\ \E config \in Configs :
       \/ /\ ~ Parses(config)
          /\ UNCHANGED <<phase, tasks, unmerged, batches, found, now, prev>>
       \/ /\ Parses(config)
          /\ \E rr \in RegionRoles(config) : tasks' = Plan(config, rr)
          /\ phase' = "discovering"
          /\ unmerged' = {}
          /\ found' = {}
          /\ batches' = NoBatches(tasks')
          /\ now' = NoWindows(tasks')
          /\ prev' = NoWindows(tasks')

WarmStart ==
  /\ phase = "idle"
  /\ Fires
  /\ phase' = "discovering"
  /\ prev' = now
  /\ now' = NoWindows(tasks)
  /\ unmerged' = {}
  /\ found' = {}
  /\ batches' = NoBatches(tasks)
  /\ UNCHANGED tasks

(* Mutant: the requests of the static jobs are discovered too.             *)
MutDiscovered ==
  /\ phase = "discovering"
  /\ \E F \in SUBSET tasks : found' = F /\ unmerged' = F
  /\ phase' = "merging"
  /\ UNCHANGED <<clock, due, began, tasks, batches, now, prev>>

(* The discovery jobs find metrics for some of their requests.             *)
Discovered ==
  /\ phase = "discovering"
  /\ \E F \in SUBSET {t \in tasks : ~ t.static} : found' = F /\ unmerged' = F
  /\ phase' = "merging"
  /\ UNCHANGED <<clock, due, began, tasks, batches, now, prev>>

(* What one job found for one period, delay and length.                    *)
Shard(t) == {u \in unmerged : /\ Key(u) = Key(t) /\ u.length = t.length
                              /\ u.job = t.job /\ u.copy = t.copy}

(* Mutant: the first shard's length stays.                                 *)
MutMerged(batch, shard, length) ==
  [length |-> IF batch.tasks = {} THEN length ELSE batch.length,
   tasks |-> batch.tasks \cup shard]

(* Mutant: a later shard is not added to the batch it shares.              *)
MutMergedFirst(batch, shard, length) ==
  IF batch.tasks = {} THEN [length |-> length, tasks |-> shard]
  ELSE [batch EXCEPT !.length = IF batch.length < length THEN length ELSE batch.length]

(* Tasks are added to their batch, and the longest length is kept.         *)
Merged(batch, shard, length) ==
  [length |-> IF batch.tasks = {} \/ batch.length < length THEN length ELSE batch.length,
   tasks |-> batch.tasks \cup shard]

MergeShard(t) ==
  /\ phase = "merging"
  /\ batches' = [batches EXCEPT ![Key(t)] = Merged(batches[Key(t)], Shard(t), t.length)]
  /\ unmerged' = unmerged \ Shard(t)
  /\ UNCHANGED <<clock, due, began, phase, tasks, found, now, prev>>

AllMerged ==
  /\ phase = "merging"
  /\ unmerged = {}
  /\ phase' = "reading"
  /\ UNCHANGED <<clock, due, began, tasks, unmerged, batches, found, now, prev>>

Ask(t, length) == [at |-> clock,
                   start |-> Start(clock, t.period, length, t.delay),
                   end |-> End(clock, t.period, t.delay)]

(* A batch asks for all its tasks at once.                                 *)
OpenBatch(k) ==
  /\ phase = "reading"
  /\ \E t \in batches[k].tasks : now[t] = Unread
  /\ now' = [t \in tasks |-> IF t \in batches[k].tasks THEN Ask(t, batches[k].length)
                                                       ELSE now[t]]
  /\ UNCHANGED <<clock, due, began, phase, tasks, unmerged, batches, found, prev>>

(* After the batches, each static request by itself.                       *)
OpenStatic(t) ==
  /\ phase = "reading"
  /\ t.static
  /\ now[t] = Unread
  /\ \A u \in found : now[u] # Unread
  /\ now' = [now EXCEPT ![t] = Ask(t, t.length)]
  /\ UNCHANGED <<clock, due, began, phase, tasks, unmerged, batches, found, prev>>

(* The invocation ends: it is complete, it failed or it was killed (a new  *)
(* container then loads the same config, which makes no difference here).  *)
Over ==
  /\ phase \in {"discovering", "merging", "reading"}
  /\ phase' = "idle"
  /\ UNCHANGED <<clock, due, began, tasks, unmerged, batches, found, now, prev>>

Ended == clock = MaxTime /\ UNCHANGED vars

Next ==
  \/ Tick
  \/ ColdStart
  \/ WarmStart
  \/ Discovered
  \/ \E t \in unmerged : MergeShard(t)
  \/ AllMerged
  \/ \E k \in DOMAIN batches : OpenBatch(k)
  \/ \E t \in tasks : OpenStatic(t)
  \/ Over
  \/ Ended

Spec == Init /\ [][Next]_vars

-----------------------------------------------------------------------------
Windows == [at : Nat, start : Int, end : Int] \cup {Unread}

(* The variables have their types.                                         *)
STypeOK ==
  /\ clock \in Nat /\ due \in Nat /\ began \in Nat
  /\ phase \in {"cold", "idle", "discovering", "merging", "reading"}
  /\ \A t \in tasks : /\ t.static \in BOOLEAN
                      /\ t.period \in Nat /\ t.length \in Nat /\ t.delay \in Nat
  /\ unmerged \subseteq found
  /\ found \subseteq {t \in tasks : ~ t.static}
  /\ batches \in [{Key(t) : t \in tasks} -> [length : Nat, tasks : SUBSET tasks]]
  /\ now \in [tasks -> Windows]
  /\ prev \in [tasks -> Windows]

(* Once the shards are merged each task that was found is in exactly the   *)
(* batch of its period and delay, and the length of a batch is one that    *)
(* one of its tasks asks for and none of them exceeds, whatever the order  *)
(* of the jobs (get_batched_discovery_metrics).                            *)
TasksInTheirBatches ==
  phase = "reading" =>
    \A k \in DOMAIN batches :
      /\ batches[k].tasks = {t \in found : Key(t) = k}
      /\ batches[k].tasks # {} =>
           \E t \in batches[k].tasks :
             /\ batches[k].length = t.length
             /\ \A u \in batches[k].tasks : u.length <= t.length

(* The window that is asked for a task covers the window of its own        *)
(* request, alone or in a batch with others, and ends where that ends.     *)
OwnWindowIsRead ==
  \A t \in tasks : now[t] # Unread =>
    /\ now[t].start <= Start(now[t].at, t.period, t.length, t.delay)
    /\ now[t].end = End(now[t].at, t.period, t.delay)
    /\ t.static => now[t].start = Start(now[t].at, t.period, t.length, t.delay)

(* No period is lost between two successive invocations that both ask for  *)
(* a task, if the task's length is whole periods and covers the rate, the  *)
(* jitter and the timeout: wherever discovery ends in an invocation and    *)
(* whichever batch the task is in (get_start_end when a batch begins).     *)
NoPeriodIsLost ==
  \A t \in tasks :
    /\ now[t] # Unread /\ prev[t] # Unread
    /\ Divides(t.period, t.length)
    /\ t.length >= Rate + Jitter + Timeout
    => now[t].start <= prev[t].end

(* The tasks whose length may become the length of t's window.             *)
Companions(t) == IF t.static THEN {t} ELSE {u \in tasks : ~ u.static /\ Key(u) = Key(t)}

(* No period is reported twice by two successive invocations, if the       *)
(* lengths of the task and of those it may share a batch with are whole    *)
(* periods and no longer than the least time between two windows.          *)
PeriodsAreReadOnce ==
  \A t \in tasks :
    /\ now[t] # Unread /\ prev[t] # Unread
    /\ \A u \in Companions(t) : /\ Divides(u.period, u.length)
                                /\ u.length + Jitter + Timeout <= Rate
    => prev[t].end <= now[t].start
=============================================================================
