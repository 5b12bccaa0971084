--------------------------- MODULE MCClientFactory ---------------------------
(***************************************************************************)
(* Five callers for TLC.  Two executors of the same role in two regions    *)
(* share the support client, which lives in one region only; the executor  *)
(* of the lambda's own role in the STS region uses the factory's own STS   *)
(* client, whose only permit (STS_API_CONCURRENCY = 1) the sessions need   *)
(* too; and two discovery jobs of a second role ask for the same filter's  *)
(* client at once.                                                         *)
(***************************************************************************)
EXTENDS ClientFactory

CONSTANTS e1, e2, e3, j1, j2, roleA, roleB

FiveCallers == {e1, e2, e3, j1, j2}
TwoRoles    == {roleA, roleB}

Sts1 == "sts-1"
Sts2 == "sts-2"
Sts0 == "sts-0"
Support == "support"
Filter  == "filter"

AllKeys == {Sts0, Sts1, Sts2, Support, Filter}

KeyRoles ==
  [k \in AllKeys |-> CASE k = Sts0 -> NoRole [] k = Filter -> roleB [] OTHER -> roleA]

Client(k)  == [op |-> "client", key |-> k]
Account(k) == [op |-> "account", key |-> k]
Alias(k)   == [op |-> "alias", key |-> k]

Programs ==
  [c \in FiveCallers |->
     CASE c = e1 -> <<Client(Sts1), Client(Support), Account(Sts1), Alias(Support)>>
       [] c = e2 -> <<Client(Sts2), Client(Support), Alias(Support)>>
       [] c = e3 -> <<Client(Sts0), Account(Sts0)>>
       [] OTHER  -> <<Client(Filter)>>]
=============================================================================
