-------------------------- MODULE MCStaticMetrics --------------------------
(***************************************************************************)
(* StaticMetrics for TLC: one or two statistics of both kinds, or one that *)
(* is named twice, in one spelling or in two; up to three datapoints, in   *)
(* every order.                                                            *)
(***************************************************************************)
EXTENDS StaticMetrics

SomeStats == {<<"Sum">>, <<"Sum", "Average">>, <<"Average", "Maximum">>,
              <<"Sum", "Sum">>, <<"Sum", "sum">>}

SomeRequests == [stats : SomeStats, stamped : BOOLEAN, nilToZero : BOOLEAN]

ThreeTimes == 1..3
=============================================================================
