------------------------------ MODULE MCScrape ------------------------------
(***************************************************************************)
(* Instances of Scrape for TLC: two region-roles, one with discovery jobs  *)
(* only and one with both kinds, and batches of two entries, so that a     *)
(* unit of three messages needs two sends.                                 *)
(***************************************************************************)
EXTENDS Scrape

CONSTANTS rA, rB     \* two region-roles
CONSTANTS b1, b2     \* two (period, delay) keys

TwoRegions    == {rA, rB}
OneRegion     == {rA}
OnlyA         == {rA}
OnlyB         == {rB}
TwoBatches    == {b1, b2}
OneBatch      == {b1}
=============================================================================
