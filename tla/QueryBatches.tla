---------------------------- MODULE QueryBatches ----------------------------
(***************************************************************************)
(* How get_metric_data (src/clients.py) divides its tasks: calls of at     *)
(* most Limit queries (300 in the code, the service takes 500), all about  *)
(* the same size.                                                          *)
(***************************************************************************)
EXTENDS Naturals

CONSTANT Limit    \* the most queries of one get_metric_data call

ASSUME LimitAssumption == Limit \in Nat \ {0}

Ceil(a, b) == (a + b - 1) \div b

NumBatches(total) == Ceil(total, Limit)

(* Mutant: the number of batches rounded down.                             *)
MutBatchSize(total) ==
  IF total > Limit THEN Ceil(total, total \div Limit) ELSE Limit

BatchSize(total) ==
  IF total > Limit THEN Ceil(total, NumBatches(total)) ELSE Limit

(* How many of the tasks a call takes when cut of them were taken before   *)
(* (remaining[:batch_size]).                                               *)
NextSize(total, cut) ==
  IF total - cut < BatchSize(total) THEN total - cut ELSE BatchSize(total)
=============================================================================
