----------------------------- MODULE Associator -----------------------------
(***************************************************************************)
(* Which resource a metric belongs to (src/associator.py).                 *)
(*                                                                         *)
(* The patterns of a service are tried one after the other.  A pattern     *)
(* claims every resource it matches and no earlier one has claimed, and    *)
(* maps its signature -- the values of the pattern's dimensions -- to it.  *)
(* A metric is looked up in the mapping with the most dimensions that it   *)
(* has all of, first with its values fixed (Amazon MQ, SageMaker), then as *)
(* they are.                                                               *)
(*                                                                         *)
(* Signatures are tuples of (name, value) pairs.  A mapping's are sorted   *)
(* by name; a metric's come in the order in which Python iterates over the *)
(* mapping's set of names, which for two or more strings differs from one  *)
(* process to the next.  Here a signature is a function from names to      *)
(* values and whether it is in sorted order.                               *)
(*                                                                         *)
(* Discovery builds an associator from what a job has found and asks it    *)
(* about every metric; its specification is the whole of both.             *)
(***************************************************************************)
EXTENDS Naturals, Sequences, FiniteSets, FiniteSetsExt

CONSTANTS
  Dims,          \* the names of each pattern's groups, a sequence of sets
  Names,         \* all dimension names a metric can have
  Values,        \* their values
  NumResources,  \* bound: the length of the resource list
  Fixed,         \* [Names -> [Values -> Values]], _fix_dimension's value
  WasFixed       \* [Names -> [Values -> BOOLEAN]], whether it says "fixed"

Patterns  == DOMAIN Dims
Resources == 1..NumResources

ASSUME AssociatorAssumption ==
  /\ IsFiniteSet(Names) /\ Dims \in Seq(SUBSET Names)
  /\ NumResources \in Nat
  /\ Fixed \in [Names -> [Values -> Values]]
  /\ WasFixed \in [Names -> [Values -> BOOLEAN]]
  /\ \A n \in Names, v \in Values : Fixed[n][v] # v => WasFixed[n][v]

(* What a pattern finds in a resource's ARN: nothing, or a value per name. *)
Found(p) == {[hit |-> FALSE, dims |-> <<>>]} \cup
            [hit : {TRUE}, dims : [Dims[p] -> Values]]

Metrics == UNION {[N -> Values] : N \in SUBSET Names}

VARIABLES
  search,     \* what each pattern finds in each resource
  sorted,     \* whether the set of a pattern's names is iterated in order
  next,       \* the pattern whose turn it is
  claimedBy,  \* the pattern that has mapped a resource, 0 for none
  mapped,     \* each pattern's mapping, from signatures to resources
  answer      \* the last metric looked up, its resource (0: none) and skip

vars == <<search, sorted, next, claimedBy, mapped, answer>>

NoAnswer == [metric |-> <<>>, resource |-> 0, skip |-> FALSE]

(* Before get_mappings; search is whatever the resources make it.          *)
Unbuilt ==
  /\ sorted \in {f \in [Patterns -> BOOLEAN] :
                   \A p \in Patterns : Cardinality(Dims[p]) < 2 => f[p]}
  /\ next = 1
  /\ claimedBy = [r \in Resources |-> 0]
  /\ mapped = [p \in Patterns |-> <<>>]
  /\ answer = NoAnswer

-----------------------------------------------------------------------------
Signature(inOrder, dims) == [sorted |-> inOrder, dims |-> dims]

(* Mutant: a resource can be claimed again.                                *)
MutClaimed(p) == {r \in Resources : search[p][r].hit}

(* The resources a pattern claims: unclaimed ones it matches.              *)
Claimed(p) == {r \in Resources : claimedBy[r] = 0 /\ search[p][r].hit}

(* get_mappings, one pattern: of two resources with one signature the      *)
(* later one stays in the mapping.                                         *)
MapPattern(p) ==
  /\ next = p
  /\ next' = p + 1
  /\ claimedBy' = [r \in Resources |-> IF r \in Claimed(p) THEN p ELSE claimedBy[r]]
  /\ LET SigOf(r) == Signature(TRUE, search[p][r].dims)
     IN mapped' = [mapped EXCEPT ![p] =
          [s \in {SigOf(r) : r \in Claimed(p)} |->
             Max({r \in Claimed(p) : SigOf(r) = s})]]
  /\ UNCHANGED <<search, sorted, answer>>

Built == \A p \in Patterns : next > p

(* Mutant: a mapping is kept even if nothing was claimed.                  *)
MutMappings == {p \in Patterns : Dims[p] # {}}

(* A pattern without groups, or that claimed nothing, has no mapping.      *)
Mappings == {p \in Patterns : Dims[p] # {} /\ DOMAIN mapped[p] # {}}

Applicable(m) == {p \in Mappings : Dims[p] \subseteq DOMAIN m}

(* Mutant: the mappings stay in the order of the patterns.                 *)
MutFirst(m) == Min(Applicable(m))

(* The first of them that applies: most dimensions first, then in the      *)
(* order of the patterns (a stable sort).                                  *)
First(m) ==
  LET Most == Max({Cardinality(Dims[p]) : p \in Applicable(m)})
  IN Min({p \in Applicable(m) : Cardinality(Dims[p]) = Most})

(* Mutant: the values are only ever fixed.                                 *)
MutTries(p, m) == <<[n \in Dims[p] |-> Fixed[n][m[n]]]>>

(* Mutant: every dimension is fixed the way one of them is.                *)
MutTriesAll(p, m) ==
  LET FixOf(v) == Fixed[CHOOSE n \in Names : WasFixed[n][v]][v]
  IN <<[n \in Dims[p] |-> FixOf(m[n])], [n \in Dims[p] |-> m[n]]>>

(* The values to look up: fixed, then as they are if that fixed any.       *)
Tries(p, m) ==
  LET Raw   == [n \in Dims[p] |-> m[n]]
  IN IF \E n \in Dims[p] : WasFixed[n][m[n]]
     THEN <<[n \in Dims[p] |-> Fixed[n][m[n]]], Raw>>
     ELSE <<Raw>>

(* associate_metric_to_resource: only the first mapping that applies is    *)
(* consulted; a metric it does not know is to be skipped.                  *)
Lookup(m) ==
  LET p    == First(m)
      Sigs == [n \in DOMAIN Tries(p, m) |-> Signature(sorted[p], Tries(p, m)[n])]
      Hits == {n \in DOMAIN Sigs : Sigs[n] \in DOMAIN mapped[p]}
  IN IF Applicable(m) = {}
     THEN [metric |-> m, resource |-> 0, skip |-> FALSE]
     ELSE IF Hits = {}
          THEN [metric |-> m, resource |-> 0, skip |-> TRUE]
          ELSE [metric |-> m, resource |-> mapped[p][Sigs[Min(Hits)]], skip |-> FALSE]

Associate(m) ==
  /\ Built
  /\ answer' = Lookup(m)
  /\ UNCHANGED <<search, sorted, next, claimedBy, mapped>>

-----------------------------------------------------------------------------
(* Every variable has its type, and a mapping leads only to resources that *)
(* its pattern has claimed.                                                *)
TypeOK ==
  /\ next \in Nat
  /\ claimedBy \in [Resources -> {0} \cup Patterns]
  /\ \A p \in Patterns : \A s \in DOMAIN mapped[p] :
       /\ s.dims \in [Dims[p] -> Values]
       /\ claimedBy[mapped[p][s]] = p
  /\ answer.metric \in Metrics
  /\ answer.resource \in {0} \cup Resources /\ answer.skip \in BOOLEAN

(* What a resource shows of a metric's dimensions: through the pattern     *)
(* that claimed it, the metric's own values or their fixed forms.          *)
Shows(r, m) ==
  LET p == claimedBy[r]
      d == search[p][r].dims
  IN /\ p # 0 /\ Dims[p] # {} /\ Dims[p] \subseteq DOMAIN m
     /\ \/ \A n \in Dims[p] : d[n] = m[n]
        \/ \A n \in Dims[p] : d[n] = Fixed[n][m[n]]

(* A metric is never given the tags of somebody else's resource, in        *)
(* whichever order sets are iterated.                                      *)
AnswersAreSound == answer.resource # 0 => Shows(answer.resource, answer.metric)

(* The more specific resource wins: no resource of which the metric shows  *)
(* more dimensions is passed over for the one it is given.                 *)
MostSpecificWins ==
  answer.resource # 0 =>
    \A r \in Resources : Shows(r, answer.metric) =>
      Cardinality(Dims[claimedBy[r]]) <= Cardinality(Dims[claimedBy[answer.resource]])

(* A metric is dropped only if it has the dimensions of some resource that *)
(* was discovered; and one that is kept as "global" has those of none.     *)
SkipsAreJustified ==
  Built /\ answer # NoAnswer /\ answer.resource = 0 =>
    (answer.skip <=>
       \E r \in Resources :
         /\ claimedBy[r] # 0 /\ Dims[claimedBy[r]] # {}
         /\ Dims[claimedBy[r]] \subseteq DOMAIN answer.metric)

(* If sets are iterated in order (they are if they have one element), a    *)
(* metric that shows a resource of its most specific mapping is given one. *)
SortedAnswersAreComplete ==
  answer.resource = 0 /\ (\A p \in Patterns : sorted[p]) /\ Applicable(answer.metric) # {}
    => \A r \in Resources :
         Shows(r, answer.metric) => claimedBy[r] # First(answer.metric)
=============================================================================
