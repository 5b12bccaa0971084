--------------------------- MODULE StaticMetrics ---------------------------
(***************************************************************************)
(* One metric of a static job: get_metric_statistics of src/clients.py and *)
(* the message that get_static_metrics_emit of src/executor.py makes of    *)
(* it.                                                                     *)
(*                                                                         *)
(* A single answer holds the datapoints of all statistics, in no           *)
(* particular order.  Each datapoint is split: every statistic with a      *)
(* value gets it as a value of its own task, and "with a value" is         *)
(* Python's truth, so a value of zero counts as none.  All tasks go into   *)
(* one message, those without a value too, unless two of them have one     *)
(* name there: the request's statistics are told apart by their spelling.  *)
(*                                                                         *)
(* Outside of src/: CloudWatch's answer, any sequence of datapoints with   *)
(* different times.                                                        *)
(***************************************************************************)
EXTENDS Messages, FiniteSets

CONSTANTS
  Requests,     \* bound: the metric requests, records [stats, stamped,
                \* nilToZero]; stats is a sequence of spellings
  Times         \* bound: the times datapoints can have

ASSUME StaticAssumption ==
  /\ IsFiniteSet(Times) /\ Times \subseteq Nat \ {0}
  /\ \A r \in Requests : /\ r.stats \in Seq(STRING)
                         /\ r.stamped \in BOOLEAN /\ r.nilToZero \in BOOLEAN

VARIABLES
  request,      \* the metric request
  answer,       \* external: the datapoints, records [time, value]; value is
                \* a function from the statistics to a Kind
  next,         \* the index of the next datapoint to split
  times,        \* the times of the values each task was given
  phase,
  message       \* what is handed to send_messages

vars == <<request, answer, next, times, phase, message>>

(* What a datapoint has for a statistic: a value, zero, or nothing.        *)
Kinds == {"some", "zero", "none"}

Stats(r) == ToSet(r.stats)

Datapoints(r) == [time : Times, value : [Stats(r) -> Kinds]]

Answers(r) ==
  {a \in BoundedSeq(Datapoints(r), Cardinality(Times)) :
     \A m, n \in DOMAIN a : m # n => a[m].time # a[n].time}

(* One task for each statistic, with an empty result.                      *)
Init ==
  /\ request \in Requests
  /\ answer = <<>>
  /\ next = 1
  /\ times = [s \in Stats(request) |-> <<>>]
  /\ phase = "asking"
  /\ message = {}

Answer ==
  /\ phase = "asking"
  /\ answer' \in Answers(request)
  /\ phase' = "splitting"
  /\ UNCHANGED <<request, next, times, message>>

(* Mutant: a zero counts as a value.                                       *)
MutHasValue(kind) == kind # "none"

(* if val: a zero is passed over like a value that is missing.             *)
HasValue(kind) == kind = "some"

(* How often a statistic is in the request: the loop over metric.stats     *)
(* comes to a repeated one again, while results has it once.               *)
Mentions(s) == {n \in DOMAIN request.stats : request.stats[n] = s}

(* Mutant: a value is appended once for every statistic of the request.    *)
MutGivenToAll(point, s) ==
  IF HasValue(point.value[s])
  THEN [n \in DOMAIN request.stats |-> point.time] ELSE <<>>

(* Mutant: a datapoint without the first statistic is skipped altogether.  *)
MutGiven(point, s) ==
  IF HasValue(point.value[request.stats[1]]) /\ HasValue(point.value[s])
  THEN [n \in 1..Cardinality(Mentions(s)) |-> point.time] ELSE <<>>

(* The times one datapoint adds to a statistic's task.                     *)
Given(point, s) ==
  IF HasValue(point.value[s])
  THEN [n \in 1..Cardinality(Mentions(s)) |-> point.time] ELSE <<>>

Split ==
  /\ phase = "splitting"
  /\ next <= Len(answer)
  /\ times' = [s \in Stats(request) |-> times[s] \o Given(answer[next], s)]
  /\ next' = next + 1
  /\ UNCHANGED <<request, answer, phase, message>>

Task(s) == [statistic |-> s, stamped |-> request.stamped,
            nilToZero |-> request.nilToZero, times |-> times[s]]

Group == [s \in Stats(request) |-> Task(s)]

Emit ==
  /\ phase = "splitting"
  /\ next > Len(answer)
  /\ IF DuplicateStat(Group)
     THEN phase' = "raised" /\ UNCHANGED message
     ELSE phase' = "emitted" /\ message' = {Message(Group)}
  /\ UNCHANGED <<request, answer, next, times>>

Ended == phase \in {"emitted", "raised"}

Next == Answer \/ Split \/ Emit \/ (Ended /\ UNCHANGED vars)

Spec == Init /\ [][Next]_vars

-----------------------------------------------------------------------------
(* Every variable has its type; a task has at most one value for each      *)
(* datapoint and mention of its statistic.                                 *)
TypeOK ==
  /\ request \in Requests
  /\ phase \in {"asking", "splitting", "emitted", "raised"}
  /\ next \in 1..(Len(answer) + 1)
  /\ DOMAIN times = Stats(request)
  /\ \A s \in Stats(request) :
       /\ ToSet(times[s]) \subseteq {answer[n].time : n \in 1..(next - 1)}
       /\ Len(times[s]) <= (next - 1) * Cardinality(Mentions(s))
  /\ phase = "emitted" <=> message # {}

(* The times at which a statistic has a value other than zero.             *)
NonZero(s) ==
  {answer[n].time : n \in {m \in DOMAIN answer : answer[m].value[s] = "some"}}

(* The index of the first of them.                                         *)
First(s) == Min({n \in DOMAIN answer : answer[n].value[s] = "some"})

(* The message has every statistic of the request, whether or not the      *)
(* datapoints have values for it, each computed from its own values only:  *)
(* Sum, SampleCount, Minimum and Maximum, spelled so, from all that are    *)
(* not zero, once each, any other from the first of them.  There is no     *)
(* message only if the request has one statistic in two spellings.         *)
ValuesAreExact ==
  Ended /\ IsInjective(request.stats) =>
    /\ phase = "raised" <=>
         \E s, u \in Stats(request) : s # u /\ ShortName(s) = ShortName(u)
    /\ \A m \in message :
         /\ DOMAIN m.values = {ShortName(s) : s \in Stats(request)}
         /\ \A s \in Stats(request) :
              LET value == m.values[ShortName(s)]
              IN /\ IsInjective(times[s])
                 /\ value.zero <=> (NonZero(s) = {} /\ request.nilToZero)
                 /\ value.points = IF s \in Aggregated \/ NonZero(s) = {}
                                   THEN NonZero(s) ELSE {answer[First(s)].time}

AllNonZero == UNION {NonZero(s) : s \in Stats(request)}

Newest == IF request.stamped THEN Max({0} \cup AllNonZero) ELSE 0

(* Datapoints that come newest first give the message the newest time of   *)
(* all its values, even if the newest datapoint lacks some statistics.     *)
OrderedAnswersAreStamped ==
  phase = "emitted"
  /\ (\A m, n \in DOMAIN answer : m < n => answer[m].time > answer[n].time)
  => \A m \in message : m.timestamp = Newest

-----------------------------------------------------------------------------
(* "use the most recent timestamp" (_group_metrics_to_message), for the    *)
(* datapoints of get_metric_statistics too, which come in any order.       *)
TimestampIsNewest ==
  phase = "emitted" => \A m \in message : m.timestamp = Newest
=============================================================================
