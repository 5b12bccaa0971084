----------------------------- MODULE MCApiCalls -----------------------------
(***************************************************************************)
(* Two CloudWatch clients for TLC.  One has three batches, whose pages     *)
(* take turns at its two permits; the other has two static metrics, in a   *)
(* region without batches, and a single permit.  They share two threads.   *)
(***************************************************************************)
EXTENDS ApiCalls

CONSTANTS b1, b2, b3, s1, s2

Batches == {b1, b2, b3}
Statics == {s1, s2}

TwoClients == {"cloudwatch-1", "cloudwatch-2"}

AllCallers  == Batches \cup Statics
FourCallers == Batches \cup {s1}

Users   == [c \in Callers |-> IF c \in Batches THEN "cloudwatch-1" ELSE "cloudwatch-2"]
Permits == [k \in TwoClients |-> IF k = "cloudwatch-1" THEN 2 ELSE 1]
=============================================================================
