---------------------------- MODULE MCMetricData ----------------------------
(***************************************************************************)
(* MetricData for TLC: calls of two queries and up to four tasks, so that  *)
(* the ids of the first call come again in a second one, which may be the  *)
(* smaller; tasks of one signature lie in different calls, the same task   *)
(* may occur twice, and one statistic in two spellings.                    *)
(***************************************************************************)
EXTENDS MetricData

Kind(s, f, b) == [sig |-> s, statistic |-> f, stamped |-> b, nilToZero |-> FALSE]

Kinds == {Kind("a", "Sum", TRUE), Kind("a", "Average", FALSE), Kind("b", "Sum", TRUE)}

Lists == {<<>>} \cup UNION {[1..n -> Kinds] : n \in 1..3}
           \cup {<<Kind("a", "Sum", TRUE), Kind("b", "Maximum", TRUE),
                   Kind("b", "Sum", TRUE), Kind("a", "Average", TRUE)>>,
                 <<Kind("a", "Sum", TRUE), Kind("b", "sum", TRUE), Kind("a", "sum", TRUE)>>}

TwoTimes == {1, 2}
=============================================================================
