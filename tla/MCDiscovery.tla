---------------------------- MODULE MCDiscovery ----------------------------
(***************************************************************************)
(* Discovery for TLC: two patterns whose dimensions overlap, the less      *)
(* specific one first (as for transit gateways), a dimension whose values  *)
(* are fixed (upper to lower case, as for SageMaker), and a job for each   *)
(* kind of filter.                                                         *)
(***************************************************************************)
EXTENDS Discovery

TwoPatterns == <<{"Gateway"}, {"Gateway", "Attachment"}>>
TwoNames    == {"Gateway", "Attachment"}
TwoValues   == {"A", "a"}

Lower ==
  [n \in TwoNames |->
     [v \in TwoValues |-> IF n = "Gateway" THEN "a" ELSE v]]

Lowered == [n \in TwoNames |-> [v \in TwoValues |-> n = "Gateway"]]

OneTag == {"odin"}

AllArns == {f \in Patterned : \A p \in Patterns, r \in Resources : f[p][r] \in Found(p)}

OnlyFirst  == {1}
OnlySecond == {2}
OnFirst    == [t \in OnlySecond |-> 1]

(* A request that narrows the job's conditions, then one of its own.       *)
Narrow == [dims |-> [n \in {"Attachment"} |-> {""}], merge |-> TRUE, exact |-> {}]
Plain  == [dims |-> <<>>, merge |-> TRUE, exact |-> {}]
Strict == [dims |-> [n \in {"Gateway"} |-> {"a"}], merge |-> FALSE, exact |-> {TRUE}]

OnGateway == [n \in {"Gateway"} |-> {"A", "a"}]

Base == [filter |-> "none", types |-> TRUE, searchTags |-> {{"odin"}},
         exported |-> TRUE, custom |-> NoTag, dims |-> <<>>, exact |-> FALSE,
         metrics |-> <<Plain>>]

(* One for each filter; two with a listing of their own differ in whether  *)
(* they export the tag or set it, and in what they search for.             *)
AllJobs ==
  {[Base EXCEPT !.searchTags = {}, !.dims = OnGateway, !.metrics = <<Narrow, Plain, Strict>>],
   [Base EXCEPT !.filter = "autoscaling", !.custom = "odin"],
   [Base EXCEPT !.filter = "spot", !.types = FALSE],
   [Base EXCEPT !.filter = "prometheus", !.searchTags = {{""}}]}
  \cup {[Base EXCEPT !.filter = f] :
          f \in {"transitgateway", "shield", "storagegateway", "apigateway", "dms"}}
=============================================================================
