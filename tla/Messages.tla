------------------------------ MODULE Messages ------------------------------
(***************************************************************************)
(* How metric tasks with results become a message (CloudwatchMetricTask of *)
(* src/model.py, _group_metrics_to_message of src/executor.py).            *)
(*                                                                         *)
(* A task is a record with the fields statistic (as the config spells it), *)
(* nilToZero, stamped (add_cw_timestamp) and times: the timestamps of the  *)
(* datapoints of its result, positive numbers, in the order they were      *)
(* stored.  A datapoint is known by its timestamp, so a value is           *)
(* represented by the datapoints it is computed from.  A group is a        *)
(* function to tasks.                                                      *)
(***************************************************************************)
EXTENDS Naturals, Sequences, SequencesExt, FiniteSetsExt

(* The name of a statistic in a message.  It does not depend on the case   *)
(* of the letters: two spellings of the first five stand for all, and the  *)
(* others (percentiles) are spelled in small letters.                      *)
ShortName(statistic) ==
  CASE statistic \in {"SampleCount", "samplecount"} -> "count"
    [] statistic \in {"Average", "average"}         -> "avg"
    [] statistic \in {"Sum", "sum"}                 -> "sum"
    [] statistic \in {"Minimum", "minimum"}         -> "min"
    [] statistic \in {"Maximum", "maximum"}         -> "max"
    [] OTHER                                        -> statistic

(* The statistics that add up over datapoints: spelled in this way only.   *)
Aggregated == {"Sum", "SampleCount", "Minimum", "Maximum"}

(* Mutant: the last value instead of the first.                            *)
MutGetValue(task) ==
  [points |-> IF task.statistic \in Aggregated \/ task.times = <<>>
              THEN ToSet(task.times) ELSE {Last(task.times)},
   zero   |-> task.times = <<>> /\ task.nilToZero]

(* No datapoint: 0 if nil_to_zero, else null.  Of a statistic that does    *)
(* not add up, the first datapoint's value.                                *)
GetValue(task) ==
  [points |-> IF task.statistic \in Aggregated \/ task.times = <<>>
              THEN ToSet(task.times) ELSE {task.times[1]},
   zero   |-> task.times = <<>> /\ task.nilToZero]

(* 0 stands for "no timestamp".                                            *)
GetTimestamp(task) ==
  IF task.stamped /\ task.times # <<>> THEN task.times[1] ELSE 0

Name(group, n) == ShortName(group[n].statistic)

(* Mutant: a second task of the same name overwrites the first.            *)
MutDuplicateStat(group) == FALSE

(* _group_metrics_to_message raises on a second task of the same name.     *)
DuplicateStat(group) ==
  \E m, n \in DOMAIN group : m # n /\ Name(group, m) = Name(group, n)

(* Mutant: an older timestamp replaces a newer one.                        *)
MutMessageTimestamp(group) ==
  LET Stamps == {GetTimestamp(group[n]) : n \in DOMAIN group} \ {0}
  IN IF Stamps = {} THEN 0 ELSE Min(Stamps)

(* Tasks without a timestamp are passed over, an older one never replaces  *)
(* a newer one.                                                            *)
MessageTimestamp(group) == Max({0} \cup {GetTimestamp(group[n]) : n \in DOMAIN group})

(* The values by name, and the timestamp (labels, tags and dimensions are  *)
(* those of the group).                                                    *)
Message(group) ==
  [values    |-> [s \in {Name(group, n) : n \in DOMAIN group} |->
                    GetValue(group[CHOOSE n \in DOMAIN group : Name(group, n) = s])],
   timestamp |-> MessageTimestamp(group)]
=============================================================================
