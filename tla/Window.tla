------------------------------- MODULE Window -------------------------------
(***************************************************************************)
(* The window of time a query asks for (get_start_end of src/shared.py).   *)
(* Times are whole numbers of some unit in which periods, lengths and      *)
(* delays are whole too.                                                   *)
(***************************************************************************)
EXTENDS Naturals, Integers

(* The beginning of the current period; a period of 0 is not rounded to.   *)
Floor(now, period) == IF period > 0 THEN (now \div period) * period ELSE now

(* Mutant: the delay moves the end only.                                   *)
MutStart(now, period, length, delay) == Floor(now, period) - length

Start(now, period, length, delay) == Floor(now, period) - length - delay

(* Mutant: the delay moves the beginning only.                             *)
MutEnd(now, period, delay) == Floor(now, period)

End(now, period, delay) == Floor(now, period) - delay

(* Whole periods fit into the length.                                      *)
Divides(period, length) == period = 0 \/ length % period = 0
=============================================================================
