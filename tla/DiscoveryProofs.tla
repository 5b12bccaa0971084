-------------------------- MODULE DiscoveryProofs --------------------------
(***************************************************************************)
(* Proofs about Discovery and the Associator it builds, for any patterns,  *)
(* resources, jobs and metrics: whose tags a metric gets, why one is       *)
(* dropped, and which jobs can meet an unknown instance.                   *)
(***************************************************************************)
EXTENDS Discovery, FiniteSetTheorems, WellFoundedInduction, TLAPS

(* A set of naturals that is not empty has a smallest element.             *)
LEMMA MinProperties ==
  ASSUME NEW S \in SUBSET Nat, S # {}
  PROVE  Min(S) \in S /\ \A y \in S : Min(S) <= y
<1> DEFINE T == {0..x : x \in S}
<1>1. T \subseteq FiniteSubsetsOf(Nat)
  <2> SUFFICES ASSUME NEW x \in S PROVE 0..x \in FiniteSubsetsOf(Nat)
    OBVIOUS
  <2>1. x \in Nat /\ 0..x \subseteq Nat
    OBVIOUS
  <2>2. IsFiniteSet(0..x)
    BY <2>1, FS_Interval
  <2> QED
    BY <2>1, <2>2 DEF FiniteSubsetsOf
<1>2. T # {}
  OBVIOUS
<1>3. \E t \in T : \A u \in T : ~ (<<u, t>> \in StrictSubsetOrdering(Nat))
  BY <1>1, <1>2, FS_StrictSubsetOrderingWellFounded, WFMin
<1>4. PICK x \in S : \A y \in S : ~ (<<0..y, 0..x>> \in StrictSubsetOrdering(Nat))
  BY <1>3
<1>5. \A y \in S : x <= y
  <2> SUFFICES ASSUME NEW y \in S, y < x PROVE FALSE
    OBVIOUS
  <2>1. 0..y \subseteq 0..x /\ 0..x \in SUBSET Nat /\ 0..y \in SUBSET Nat
    OBVIOUS
  <2>2. x \in 0..x /\ x \notin 0..y
    OBVIOUS
  <2>3. <<0..y, 0..x>> \in StrictSubsetOrdering(Nat)
    BY <2>1, <2>2 DEF StrictSubsetOrdering
  <2> QED
    BY <1>4, <2>3
<1> QED
  BY <1>5 DEF Min

(* A bounded one has a largest element.                                    *)
LEMMA MaxProperties ==
  ASSUME NEW S \in SUBSET Nat, S # {}, NEW b \in Nat, \A x \in S : x <= b
  PROVE  Max(S) \in S /\ \A y \in S : y <= Max(S)
<1> DEFINE T == {b - x : x \in S}
<1>1. T \in SUBSET Nat /\ T # {}
  <2>1. \A x \in S : b - x \in Nat
    OBVIOUS
  <2> QED
    BY <2>1
<1> HIDE DEF T
<1>2. Min(T) \in T /\ \A y \in T : Min(T) <= y
  BY <1>1, MinProperties
<1>3. PICK x \in S : Min(T) = b - x
  BY <1>2 DEF T
<1>4. \A y \in S : y <= x
  <2> SUFFICES ASSUME NEW y \in S PROVE y <= x
    OBVIOUS
  <2>1. b - y \in T
    BY DEF T
  <2>2. b - x <= b - y
    BY <1>2, <1>3, <2>1
  <2> QED
    BY <2>2
<1>5. \E z \in S : \A y \in S : z >= y
  BY <1>4
<1> QED
  BY <1>5 DEF Max

(* What the assumptions say of patterns and resources.                     *)
LEMMA PatternFacts ==
  /\ Patterns \subseteq Nat \ {0} /\ Resources \subseteq Nat \ {0}
  /\ Cardinality(Names) \in Nat
  /\ \A p \in Patterns : /\ Dims[p] \subseteq Names
                          /\ Cardinality(Dims[p]) \in Nat
                          /\ Cardinality(Dims[p]) <= Cardinality(Names)
<1>1. Patterns = 1..Len(Dims) /\ Len(Dims) \in Nat
  BY AssociatorAssumption DEF Patterns
<1>2. \A p \in Patterns : Dims[p] \subseteq Names
  BY AssociatorAssumption, <1>1
<1>3. Cardinality(Names) \in Nat
  BY AssociatorAssumption, FS_CardinalityType
<1>4. ASSUME NEW p \in Patterns
      PROVE  Cardinality(Dims[p]) \in Nat /\ Cardinality(Dims[p]) <= Cardinality(Names)
  <2>1. IsFiniteSet(Dims[p]) /\ Cardinality(Dims[p]) <= Cardinality(Names)
    BY <1>2, AssociatorAssumption, FS_Subset
  <2> QED
    BY <2>1, FS_CardinalityType
<1> QED
  BY <1>1, <1>2, <1>3, <1>4, AssociatorAssumption DEF Resources

(* The mapping that is consulted is one with the most dimensions.          *)
LEMMA FirstApplies ==
  ASSUME NEW m, Applicable(m) # {}
  PROVE  /\ First(m) \in Applicable(m)
         /\ \A p \in Applicable(m) : Cardinality(Dims[p]) <= Cardinality(Dims[First(m)])
<1> DEFINE Sizes == {Cardinality(Dims[p]) : p \in Applicable(m)}
           Best == {p \in Applicable(m) : Cardinality(Dims[p]) = Max(Sizes)}
<1>1. Applicable(m) \subseteq Patterns
  BY DEF Applicable, Mappings
<1>2. Sizes \in SUBSET Nat /\ Sizes # {} /\ \A x \in Sizes : x <= Cardinality(Names)
  BY <1>1, PatternFacts
<1>3. Max(Sizes) \in Sizes /\ \A x \in Sizes : x <= Max(Sizes)
  <2> HIDE DEF Sizes
  <2> QED
    BY <1>2, PatternFacts, MaxProperties
<1>4. Best \in SUBSET Nat /\ Best # {}
  BY <1>1, <1>3, PatternFacts
<1>5. Min(Best) \in Best
  <2> HIDE DEF Best
  <2> QED
    BY <1>4, MinProperties
<1>6. First(m) = Min(Best)
  BY DEF First
<1> QED
  BY <1>3, <1>5, <1>6

-----------------------------------------------------------------------------
Before == {"tagging", "filter", "second"}
Steps  == Before \cup {"metrics", "done", "raised"}
Errors == {"call", "KeyError", "TypeError"}

Typed ==
  /\ next \in Nat
  /\ sorted \in [Patterns -> BOOLEAN]
  /\ claimedBy \in [Resources -> {0} \cup Patterns]
  /\ DOMAIN mapped = Patterns
  /\ job \in Jobs /\ jobDims = job.dims
  /\ tags \in [Resources -> TagValues \cup {""}]
  /\ step \in Steps /\ error \in Errors \cup {"none"}
  /\ error # "none" <=> step = "raised"
  /\ created \subseteq Resources /\ alive \subseteq Resources
  /\ listed \subseteq Early /\ found \subseteq Resources
  /\ request \in 1..(Len(job.metrics) + 1)

(* Nothing is mapped or asked before the resources are there.              *)
Begun ==
  step \in Before =>
    /\ \A p \in Patterns : /\ DOMAIN mapped[p] = {}
                            /\ \A r \in Resources : ~ search[p][r].hit
    /\ \A r \in Resources : claimedBy[r] = 0
    /\ answer = NoAnswer /\ task = NoTask

(* Patterns find only what the job has found.                              *)
Searched ==
  \A p \in Patterns, r \in Resources :
    search[p][r] \in Found(p) /\ (search[p][r].hit => r \in found)

(* A mapping leads from the signature of a resource its pattern claimed,   *)
Mapped ==
  \A p \in Patterns : \A s \in DOMAIN mapped[p] :
    /\ mapped[p][s] \in Resources
    /\ claimedBy[mapped[p][s]] = p
    /\ s = Signature(TRUE, search[p][mapped[p][s]].dims)

(* and has the signature of each; patterns claim when it is their turn.    *)
Claims ==
  \A r \in Resources : claimedBy[r] # 0 =>
    /\ claimedBy[r] < next
    /\ search[claimedBy[r]][r].hit
    /\ Signature(TRUE, search[claimedBy[r]][r].dims) \in DOMAIN mapped[claimedBy[r]]

Answered ==
  answer # NoAnswer => /\ step = "metrics" /\ Built
                       /\ answer.metric \in Metrics
                       /\ answer = Lookup(answer.metric)

Selected == job.filter # "shield" => \A r \in found : TagsMatch(r)

Tasked ==
  task # NoTask =>
    /\ step = "metrics"
    /\ task.request \in DOMAIN job.metrics /\ task.metric \in Metrics
    /\ task.kept # "unwanted" <=> Wanted(task.request, task.metric)
    /\ task.kept = "unwanted" => task.tag = NoTag
    /\ task.kept # "unwanted" => task.tag = TaskTag(task.resource)
    /\ task.kept # "unwanted" => task.resource = answer.resource

Raced ==
  /\ Supported(alive)
  /\ step = "second" /\ job.filter = "dms" => alive \cap Early \subseteq listed \cup created
  /\ error = "KeyError" => job.filter = "dms" /\ created \cap Early # {}

IInv == /\ Typed /\ Begun /\ Searched /\ Mapped /\ Claims
        /\ Answered /\ Selected /\ Tasked /\ Raced

-----------------------------------------------------------------------------
(* What the mappings apply to: metrics that have all dimensions of a       *)
(* pattern that has claimed a resource.                                    *)
LEMMA AppliesToClaimed ==
  ASSUME Typed, Mapped, Claims, NEW m
  PROVE  /\ \A p \in Applicable(m) :
              /\ p \in Patterns /\ Dims[p] # {} /\ Dims[p] \subseteq DOMAIN m
              /\ \E r \in Resources : claimedBy[r] = p
         /\ \A r \in Resources :
              claimedBy[r] # 0 /\ Dims[claimedBy[r]] # {}
                /\ Dims[claimedBy[r]] \subseteq DOMAIN m
              => claimedBy[r] \in Applicable(m)
<1>1. ASSUME NEW p \in Applicable(m)
      PROVE  /\ p \in Patterns /\ Dims[p] # {} /\ Dims[p] \subseteq DOMAIN m
             /\ \E r \in Resources : claimedBy[r] = p
  <2>1. /\ p \in Patterns /\ Dims[p] # {} /\ Dims[p] \subseteq DOMAIN m
        /\ DOMAIN mapped[p] # {}
    BY DEF Applicable, Mappings
  <2>2. PICK s \in DOMAIN mapped[p] : TRUE
    BY <2>1
  <2>3. mapped[p][s] \in Resources /\ claimedBy[mapped[p][s]] = p
    BY <2>1, <2>2 DEF Mapped
  <2> QED
    BY <2>1, <2>3
<1>2. ASSUME NEW r \in Resources, claimedBy[r] # 0, Dims[claimedBy[r]] # {},
             Dims[claimedBy[r]] \subseteq DOMAIN m
      PROVE  claimedBy[r] \in Applicable(m)
  <2>1. claimedBy[r] \in Patterns /\ DOMAIN mapped[claimedBy[r]] # {}
    BY <1>2 DEF Typed, Claims
  <2> QED
    BY <1>2, <2>1 DEF Applicable, Mappings
<1> QED
  BY <1>1, <1>2

RawOf(p, m) == [n \in Dims[p] |-> m[n]]
FixedOf(p, m) == [n \in Dims[p] |-> Fixed[n][m[n]]]

(* The values that are tried are the metric's or their fixed forms, and    *)
(* both are, or there is no difference.                                    *)
LEMMA TriesFacts ==
  ASSUME NEW p \in Patterns, NEW m \in Metrics, Dims[p] \subseteq DOMAIN m
  PROVE  /\ DOMAIN Tries(p, m) \in SUBSET Nat
         /\ \A n \in DOMAIN Tries(p, m) : Tries(p, m)[n] \in {RawOf(p, m), FixedOf(p, m)}
         /\ \A d \in {RawOf(p, m), FixedOf(p, m)} :
              \E n \in DOMAIN Tries(p, m) : Tries(p, m)[n] = d
<1>1. CASE \E n \in Dims[p] : WasFixed[n][m[n]]
  <2>1. Tries(p, m) = <<FixedOf(p, m), RawOf(p, m)>>
    BY <1>1 DEF Tries, RawOf, FixedOf
  <2> QED
    BY <2>1
<1>2. CASE ~ \E n \in Dims[p] : WasFixed[n][m[n]]
  <2>1. Tries(p, m) = <<RawOf(p, m)>>
    BY <1>2 DEF Tries, RawOf
  <2>2. \A n \in Dims[p] : n \in Names /\ m[n] \in Values
    BY PatternFacts DEF Metrics
  <2>3. \A n \in Dims[p] : Fixed[n][m[n]] = m[n]
    BY <1>2, <2>2, AssociatorAssumption
  <2>4. FixedOf(p, m) = RawOf(p, m)
    BY <2>3 DEF FixedOf, RawOf
  <2> QED
    BY <2>1, <2>4
<1> QED
  BY <1>1, <1>2

Sigs(m) == [n \in DOMAIN Tries(First(m), m) |->
              Signature(sorted[First(m)], Tries(First(m), m)[n])]
Hits(m) == {n \in DOMAIN Sigs(m) : Sigs(m)[n] \in DOMAIN mapped[First(m)]}

(* The three outcomes of a lookup.                                         *)
LEMMA LookupCases ==
  ASSUME NEW m
  PROVE  /\ Applicable(m) = {} =>
               Lookup(m) = [metric |-> m, resource |-> 0, skip |-> FALSE]
         /\ Applicable(m) # {} /\ Hits(m) = {} =>
               Lookup(m) = [metric |-> m, resource |-> 0, skip |-> TRUE]
         /\ Applicable(m) # {} /\ Hits(m) # {} =>
               Lookup(m) = [metric |-> m, skip |-> FALSE,
                            resource |-> mapped[First(m)][Sigs(m)[Min(Hits(m))]]]
BY DEF Lookup, Sigs, Hits

(* A resource that is found is one the metric shows, of the mapping that   *)
(* is consulted.                                                           *)
LEMMA HitIsShown ==
  ASSUME Typed, Searched, Mapped, Claims, NEW m \in Metrics,
         Applicable(m) # {}, Hits(m) # {}
  PROVE  LET r == Lookup(m).resource
         IN r \in Resources /\ claimedBy[r] = First(m) /\ Shows(r, m)
<1> DEFINE p == First(m)
           h == Min(Hits(m))
           r == mapped[p][Sigs(m)[h]]
<1>1. /\ p \in Patterns /\ Dims[p] # {} /\ Dims[p] \subseteq DOMAIN m
  BY FirstApplies, AppliesToClaimed
<1>2. /\ DOMAIN Tries(p, m) \in SUBSET Nat
      /\ \A n \in DOMAIN Tries(p, m) : Tries(p, m)[n] \in {RawOf(p, m), FixedOf(p, m)}
  BY <1>1, TriesFacts
<1>3. h \in Hits(m)
  <2>1. Hits(m) \in SUBSET Nat
    BY <1>2 DEF Hits, Sigs
  <2> QED
    BY <2>1, MinProperties
<1>4. /\ h \in DOMAIN Tries(p, m) /\ Sigs(m)[h] \in DOMAIN mapped[p]
      /\ Sigs(m)[h] = Signature(sorted[p], Tries(p, m)[h])
  BY <1>3 DEF Hits, Sigs
<1>5. /\ r \in Resources /\ claimedBy[r] = p
      /\ Sigs(m)[h] = Signature(TRUE, search[p][r].dims)
  BY <1>1, <1>4 DEF Mapped
<1>6. search[p][r].dims = Tries(p, m)[h]
  BY <1>4, <1>5 DEF Signature
<1>7. search[p][r].dims \in {RawOf(p, m), FixedOf(p, m)}
  BY <1>2, <1>4, <1>6
<1>8. Lookup(m).resource = r
  BY LookupCases
<1> HIDE DEF p, h, r
<1>9. \/ \A n \in Dims[p] : search[p][r].dims[n] = m[n]
      \/ \A n \in Dims[p] : search[p][r].dims[n] = Fixed[n][m[n]]
  BY <1>7 DEF RawOf, FixedOf
<1>10. p # 0
  BY <1>1, PatternFacts
<1>11. Shows(r, m)
  BY <1>1, <1>5, <1>9, <1>10 DEF Shows
<1> QED
  BY <1>5, <1>8, <1>11 DEF p

(* A hit gives a value to each dimension of the pattern.                   *)
LEMMA FoundDims ==
  ASSUME NEW p, NEW x \in Found(p), x.hit
  PROVE  x.dims \in [Dims[p] -> Values]
<1>1. x # [hit |-> FALSE, dims |-> <<>>]
  OBVIOUS
<1>2. x \in [hit : {TRUE}, dims : [Dims[p] -> Values]]
  BY <1>1 DEF Found
<1> QED
  BY <1>2

(* If sets are iterated in order, a metric that shows a resource of the    *)
(* mapping that is consulted is found in it.                               *)
LEMMA ShownIsHit ==
  ASSUME Typed, Searched, Mapped, Claims, NEW m \in Metrics,
         Applicable(m) # {}, \A p \in Patterns : sorted[p],
         NEW r \in Resources, Shows(r, m), claimedBy[r] = First(m)
  PROVE  Hits(m) # {}
<1> DEFINE p == First(m)
           d == search[p][r].dims
<1>1. p \in Patterns /\ Dims[p] \subseteq DOMAIN m /\ p # 0
  BY FirstApplies, AppliesToClaimed, PatternFacts
<1>2. /\ search[p][r].hit /\ search[p][r] \in Found(p)
      /\ Signature(TRUE, d) \in DOMAIN mapped[p]
  BY <1>1 DEF Claims, Searched
<1>3. d \in [Dims[p] -> Values]
  BY <1>2, FoundDims
<1>4. \/ \A n \in Dims[p] : d[n] = m[n]
      \/ \A n \in Dims[p] : d[n] = Fixed[n][m[n]]
  BY DEF Shows
<1>5. d \in {RawOf(p, m), FixedOf(p, m)}
  <2> HIDE DEF p, d
  <2>1. d = [n \in Dims[p] |-> d[n]]
    BY <1>3
  <2>2. CASE \A n \in Dims[p] : d[n] = m[n]
    BY <2>1, <2>2 DEF RawOf
  <2>3. CASE \A n \in Dims[p] : d[n] = Fixed[n][m[n]]
    BY <2>1, <2>3 DEF FixedOf
  <2> QED
    BY <1>4, <2>2, <2>3
<1>6. PICK n \in DOMAIN Tries(p, m) : Tries(p, m)[n] = d
  BY <1>1, <1>5, TriesFacts
<1>7. sorted[p] = TRUE
  BY <1>1 DEF Typed
<1>8. n \in DOMAIN Sigs(m) /\ Sigs(m)[n] = Signature(TRUE, d)
  BY <1>6, <1>7 DEF Sigs
<1> QED
  BY <1>2, <1>8 DEF Hits

(* The answer to a metric, as the properties see it.                       *)
LEMMA AnswerFacts ==
  ASSUME Typed, Searched, Mapped, Claims, NEW m \in Metrics
  PROVE  LET a == Lookup(m)
         IN /\ a.metric = m /\ a.skip \in BOOLEAN /\ a.resource \in {0} \cup Resources
            /\ a.resource # 0 => Shows(a.resource, m) /\ claimedBy[a.resource] = First(m)
                                  /\ Applicable(m) # {}
            /\ a.resource = 0 => (a.skip <=> Applicable(m) # {})
            /\ a.resource = 0 /\ Applicable(m) # {} => Hits(m) = {}
<1>1. CASE Applicable(m) = {}
  <2>1. /\ Lookup(m).metric = m /\ Lookup(m).skip = FALSE
        /\ Lookup(m).resource = 0
    BY <1>1, LookupCases
  <2> QED
    BY <1>1, <2>1
<1>2. CASE Applicable(m) # {} /\ Hits(m) = {}
  <2>1. /\ Lookup(m).metric = m /\ Lookup(m).skip = TRUE
        /\ Lookup(m).resource = 0
    BY <1>2, LookupCases
  <2> QED
    BY <1>2, <2>1
<1>3. CASE Applicable(m) # {} /\ Hits(m) # {}
  <2>1. Lookup(m).metric = m /\ Lookup(m).skip = FALSE
    BY <1>3, LookupCases
  <2>2. /\ Lookup(m).resource \in Resources
        /\ claimedBy[Lookup(m).resource] = First(m)
        /\ Shows(Lookup(m).resource, m)
    BY <1>3, HitIsShown
  <2>3. Lookup(m).resource # 0
    BY <2>2, PatternFacts
  <2> QED
    BY <1>3, <2>1, <2>2, <2>3
<1> QED
  BY <1>1, <1>2, <1>3

LEMMA SoundFromInv == IInv => AnswersAreSound
<1> SUFFICES ASSUME IInv, answer.resource # 0 PROVE Shows(answer.resource, answer.metric)
  BY DEF AnswersAreSound
<1>1. answer # NoAnswer
  BY DEF NoAnswer
<1>2. answer.metric \in Metrics /\ answer = Lookup(answer.metric)
  BY <1>1 DEF IInv, Answered
<1> QED
  BY <1>2, AnswerFacts DEF IInv

LEMMA SpecificFromInv == IInv => MostSpecificWins
<1> SUFFICES ASSUME IInv, answer.resource # 0, NEW r \in Resources, Shows(r, answer.metric)
             PROVE  Cardinality(Dims[claimedBy[r]])
                      <= Cardinality(Dims[claimedBy[answer.resource]])
  BY DEF MostSpecificWins
<1> DEFINE m == answer.metric
<1>1. answer # NoAnswer
  BY DEF NoAnswer
<1>2. m \in Metrics /\ answer = Lookup(m)
  BY <1>1 DEF IInv, Answered
<1>3. claimedBy[answer.resource] = First(m) /\ Applicable(m) # {}
  BY <1>2, AnswerFacts DEF IInv
<1>4. claimedBy[r] \in Applicable(m)
  BY AppliesToClaimed DEF IInv, Shows
<1> QED
  BY <1>3, <1>4, FirstApplies

LEMMA SkipsFromInv == IInv => SkipsAreJustified
<1> SUFFICES ASSUME IInv, answer # NoAnswer, answer.resource = 0
             PROVE  answer.skip <=>
                      \E r \in Resources :
                        /\ claimedBy[r] # 0 /\ Dims[claimedBy[r]] # {}
                        /\ Dims[claimedBy[r]] \subseteq DOMAIN answer.metric
  BY DEF SkipsAreJustified
<1> DEFINE m == answer.metric
<1>1. m \in Metrics /\ answer = Lookup(m)
  BY DEF IInv, Answered
<1>2. answer.skip <=> Applicable(m) # {}
  BY <1>1, AnswerFacts DEF IInv
<1>3. ASSUME Applicable(m) # {}
      PROVE  \E r \in Resources : /\ claimedBy[r] # 0 /\ Dims[claimedBy[r]] # {}
                                  /\ Dims[claimedBy[r]] \subseteq DOMAIN m
  <2>1. PICK p \in Applicable(m) : TRUE
    BY <1>3
  <2>2. /\ p \in Patterns /\ Dims[p] # {} /\ Dims[p] \subseteq DOMAIN m
        /\ \E r \in Resources : claimedBy[r] = p
    BY <2>1, AppliesToClaimed DEF IInv
  <2>3. p # 0
    BY <2>2, PatternFacts
  <2> QED
    BY <2>2, <2>3
<1>4. ASSUME NEW r \in Resources, claimedBy[r] # 0, Dims[claimedBy[r]] # {},
             Dims[claimedBy[r]] \subseteq DOMAIN m
      PROVE  Applicable(m) # {}
  BY <1>4, AppliesToClaimed DEF IInv
<1> QED
  BY <1>2, <1>3, <1>4

LEMMA CompleteFromInv == IInv => SortedAnswersAreComplete
<1> SUFFICES ASSUME IInv, answer.resource = 0, \A p \in Patterns : sorted[p],
                    Applicable(answer.metric) # {},
                    NEW r \in Resources, Shows(r, answer.metric),
                    claimedBy[r] = First(answer.metric)
             PROVE  FALSE
  BY DEF SortedAnswersAreComplete
<1> DEFINE m == answer.metric
<1>1. CASE answer # NoAnswer
  <2>1. m \in Metrics /\ answer = Lookup(m)
    BY <1>1 DEF IInv, Answered
  <2>2. Hits(m) = {}
    BY <2>1, AnswerFacts DEF IInv
  <2>3. Hits(m) # {}
    BY <2>1, ShownIsHit DEF IInv
  <2> QED
    BY <2>2, <2>3
<1>2. CASE answer = NoAnswer
  <2>1. DOMAIN m = {}
    BY <1>2 DEF NoAnswer
  <2>2. \A p \in Applicable(m) : Dims[p] # {} /\ Dims[p] \subseteq DOMAIN m
    BY AppliesToClaimed DEF IInv
  <2> QED
    BY <2>1, <2>2
<1> QED
  BY <1>1, <1>2

(* The loop's merge and filter, against the request as configured.         *)
LEMMA WantedIsFits ==
  ASSUME Typed, NEW k \in DOMAIN job.metrics, NEW m \in Metrics
  PROVE  Wanted(k, m) <=> Fits(k, m)
<1> DEFINE r == job.metrics[k]
           sd == SearchDimensions(k)
           own(n) == n \in DOMAIN r.dims
           inherited(n) == n \in DOMAIN job.dims /\ ~own(n)
                             /\ (r.merge \/ DOMAIN r.dims = {})
           exact == TRUE \in r.exact \/ (job.exact /\ r.exact = {})
<1>1. /\ r \in Requests /\ job.dims \in Conditions /\ job.exact \in BOOLEAN
      /\ jobDims = job.dims
  <2>1. /\ job.metrics \in Seq(Requests) /\ job.dims \in Conditions
        /\ job.exact \in BOOLEAN /\ jobDims = job.dims
    BY DiscoveryAssumption DEF Typed
  <2> QED
    BY <2>1
<1>2. /\ r.dims \in Conditions /\ r.merge \in BOOLEAN /\ r.exact \in SUBSET BOOLEAN
  BY <1>1 DEF Requests
<1>3. DOMAIN r.dims \subseteq Names /\ DOMAIN job.dims \subseteq Names
  BY <1>1, <1>2 DEF Conditions
<1>4. DOMAIN m \subseteq Names
  BY DEF Metrics
<1>5. Exact(k) <=> exact
  BY <1>1, <1>2 DEF Exact
<1>6. /\ DOMAIN sd = {n \in Names : own(n) \/ inherited(n)}
      /\ \A n \in Names : own(n) => sd[n] = r.dims[n]
      /\ \A n \in Names : inherited(n) => sd[n] = job.dims[n]
  <2>1. CASE DOMAIN r.dims = {}
    <3>1. sd = job.dims
      BY <1>1, <2>1 DEF SearchDimensions
    <3> QED
      BY <1>3, <2>1, <3>1
  <2>2. CASE DOMAIN r.dims # {} /\ r.merge
    <3>1. sd = [n \in DOMAIN r.dims \cup DOMAIN job.dims |->
                  IF n \in DOMAIN r.dims THEN r.dims[n] ELSE job.dims[n]]
      BY <1>1, <2>2 DEF SearchDimensions
    <3> HIDE DEF r, sd
    <3> QED
      BY <1>3, <2>2, <3>1
  <2>3. CASE DOMAIN r.dims # {} /\ ~ r.merge
    <3>1. sd = r.dims
      BY <2>3 DEF SearchDimensions
    <3> QED
      BY <1>3, <2>3, <3>1
  <2> QED
    BY <1>2, <2>1, <2>2, <2>3
<1>7. Wanted(k, m) <=> /\ exact => DOMAIN sd = DOMAIN m
                       /\ \A n \in DOMAIN sd : ValueOf(m, n) \in sd[n]
  BY <1>5 DEF Wanted
<1>8. Fits(k, m) <=> \A n \in Names :
        /\ own(n) => ValueOf(m, n) \in r.dims[n]
        /\ inherited(n) => ValueOf(m, n) \in job.dims[n]
        /\ exact => (n \in DOMAIN m <=> own(n) \/ inherited(n))
  BY DEF Fits
<1> HIDE DEF r, sd, exact
<1>9. DOMAIN sd = DOMAIN m <=> \A n \in Names : n \in DOMAIN m <=> own(n) \/ inherited(n)
  BY <1>4, <1>6
<1>10. (\A n \in DOMAIN sd : ValueOf(m, n) \in sd[n]) <=>
         \A n \in Names : /\ own(n) => ValueOf(m, n) \in r.dims[n]
                          /\ inherited(n) => ValueOf(m, n) \in job.dims[n]
  BY <1>6
<1> HIDE DEF own, inherited
<1> QED
  BY <1>7, <1>8, <1>9, <1>10

LEMMA IndependentFromInv == IInv => RequestsAreIndependent
<1> SUFFICES ASSUME IInv, task.request # 0
             PROVE  task.kept # "unwanted" <=> Fits(task.request, task.metric)
  BY DEF RequestsAreIndependent
<1>1. task # NoTask
  BY DEF NoTask
<1> QED
  BY <1>1, WantedIsFits DEF IInv, Tasked

LEMMA ReportedFromInv == IInv => ReportedResourcesMatch
<1> SUFFICES ASSUME IInv, task.kept = "reported", task.resource # 0, job.filter # "shield"
             PROVE  /\ \A accepted \in job.searchTags : tags[task.resource] \in accepted
                    /\ task.tag \in {job.custom, tags[task.resource]}
  BY DEF ReportedResourcesMatch
<1> DEFINE r == task.resource
           m == answer.metric
<1>1. task # NoTask
  BY DEF NoTask
<1>2. r = answer.resource /\ task.tag = TaskTag(r)
  BY <1>1 DEF IInv, Tasked
<1>3. answer # NoAnswer
  BY <1>2 DEF NoAnswer
<1>4. m \in Metrics /\ answer = Lookup(m)
  BY <1>3 DEF IInv, Answered
<1>5. r \in Resources /\ Shows(r, m)
  BY <1>2, <1>4, AnswerFacts DEF IInv
<1>6. r \in found
  <2>1. claimedBy[r] # 0 /\ claimedBy[r] \in Patterns
    BY <1>5 DEF Shows, IInv, Typed
  <2> QED
    BY <1>5, <2>1 DEF IInv, Claims, Searched
<1>7. TagsMatch(r)
  BY <1>6 DEF IInv, Selected
<1> QED
  BY <1>2, <1>7 DEF TagsMatch, TaskTag

LEMMA RacesFromInv == IInv => KeyErrorsAreRaces
  BY DEF IInv, Raced, KeyErrorsAreRaces

LEMMA TypedFromInv == IInv => DTypeOK
<1> SUFFICES ASSUME IInv PROVE DTypeOK
  OBVIOUS
<1>1. \A r \in Resources :
        claimedBy[r] # 0 => search[claimedBy[r]][r].dims \in [Dims[claimedBy[r]] -> Values]
  <2> SUFFICES ASSUME NEW r \in Resources, claimedBy[r] # 0
               PROVE  search[claimedBy[r]][r].dims \in [Dims[claimedBy[r]] -> Values]
    OBVIOUS
  <2>1. /\ claimedBy[r] \in Patterns /\ search[claimedBy[r]][r].hit
        /\ search[claimedBy[r]][r] \in Found(claimedBy[r])
    BY DEF IInv, Typed, Claims, Searched
  <2> QED
    BY <2>1, FoundDims
<1>2. ASSUME NEW p \in Patterns, NEW s \in DOMAIN mapped[p]
      PROVE  s.dims \in [Dims[p] -> Values] /\ claimedBy[mapped[p][s]] = p
  <2> DEFINE r == mapped[p][s]
  <2>1. r \in Resources /\ claimedBy[r] = p /\ s = Signature(TRUE, search[p][r].dims)
    BY DEF IInv, Mapped
  <2>2. claimedBy[r] # 0
    BY <2>1, PatternFacts
  <2>3. s.dims = search[p][r].dims
    BY <2>1 DEF Signature
  <2> HIDE DEF r
  <2>4. s.dims \in [Dims[p] -> Values]
    BY <1>1, <2>1, <2>2, <2>3
  <2> QED
    BY <2>1, <2>4 DEF r
<1>3. /\ answer.metric \in Metrics /\ answer.skip \in BOOLEAN
      /\ answer.resource \in {0} \cup Resources
  <2>1. CASE answer = NoAnswer
    <3>1. <<>> \in [{} -> Values]
      OBVIOUS
    <3>2. <<>> \in Metrics
      BY <3>1 DEF Metrics
    <3> QED
      BY <2>1, <3>2 DEF NoAnswer
  <2>2. CASE answer # NoAnswer
    <3>1. answer.metric \in Metrics /\ answer = Lookup(answer.metric)
      BY <2>2 DEF IInv, Answered
    <3> QED
      BY <3>1, AnswerFacts DEF IInv
  <2> QED
    BY <2>1, <2>2
<1>4. TypeOK
  BY <1>2, <1>3 DEF IInv, Typed, TypeOK
<1>5. job \in Jobs /\ jobDims \in Conditions /\ job.custom \in TagValues \cup {NoTag}
  BY DiscoveryAssumption DEF IInv, Typed
<1>6. task.tag \in TagValues \cup {"", NoTag}
  <2>1. CASE task = NoTask
    BY <2>1 DEF NoTask
  <2>2. CASE task # NoTask /\ task.kept = "unwanted"
    BY <2>2 DEF IInv, Tasked
  <2>3. CASE task # NoTask /\ task.kept # "unwanted"
    <3>1. task.tag = TaskTag(task.resource) /\ task.resource \in {0} \cup Resources
      BY <1>3, <2>3 DEF IInv, Tasked
    <3>2. \A r \in Resources : tags[r] \in TagValues \cup {""}
      BY DEF IInv, Typed
    <3> QED
      BY <1>5, <3>1, <3>2 DEF TaskTag
  <2> QED
    BY <2>1, <2>2, <2>3
<1>7. {r \in Resources : claimedBy[r] # 0} \subseteq found
  BY DEF IInv, Typed, Claims, Searched
<1> QED
  BY <1>4, <1>5, <1>6, <1>7 DEF IInv, Typed, DTypeOK, Steps, Before, Errors

-----------------------------------------------------------------------------
(* A lookup reads nothing but the mappings and the order of the sets.      *)
LEMMA LookupKept ==
  ASSUME NEW m, UNCHANGED <<sorted, mapped>>
  PROVE  Lookup(m)' = Lookup(m)
<1>1. Mappings' = Mappings
  BY DEF Mappings
<1>2. Applicable(m)' = Applicable(m)
  BY <1>1 DEF Applicable
<1>3. First(m)' = First(m)
  BY <1>2 DEF First
<1>4. Tries(First(m), m)' = Tries(First(m), m)
  BY <1>3 DEF Tries
<1> QED
  BY <1>2, <1>3, <1>4 DEF Lookup

LEMMA InitIInv == DInit => IInv
<1> SUFFICES ASSUME DInit PROVE IInv
  OBVIOUS
<1> USE DEF DInit, Unbuilt
<1>1. /\ job \in Jobs /\ job.metrics \in Seq(Requests)
  BY DiscoveryAssumption
<1>2. Typed
  <2>1. sorted \in [Patterns -> BOOLEAN] /\ DOMAIN mapped = Patterns
    OBVIOUS
  <2>2. claimedBy \in [Resources -> {0} \cup Patterns] /\ next \in Nat
    OBVIOUS
  <2>3. request \in 1..(Len(job.metrics) + 1)
    <3>1. Len(job.metrics) \in Nat
      <4> HIDE DEF DInit
      <4> QED
        BY <1>1
    <3>2. request = 1
      OBVIOUS
    <3> HIDE DEF DInit
    <3> QED
      BY <3>1, <3>2
  <2>4. alive \subseteq Resources /\ tags \in [Resources -> TagValues \cup {""}]
    OBVIOUS
  <2> QED
    BY <1>1, <2>1, <2>2, <2>3, <2>4 DEF Typed, Steps, Before, Errors
<1>3. /\ \A p \in Patterns : DOMAIN mapped[p] = {}
      /\ \A p \in Patterns, r \in Resources : search[p][r] = Miss
      /\ \A r \in Resources : claimedBy[r] = 0
  <2>1. \A p \in Patterns : mapped[p] = <<>>
    OBVIOUS
  <2>2. \A p \in Patterns, r \in Resources : search[p][r] = Miss
    OBVIOUS
  <2>3. \A r \in Resources : claimedBy[r] = 0
    OBVIOUS
  <2> HIDE DEF DInit, Unbuilt
  <2> QED
    BY <2>1, <2>2, <2>3
<1>4. Begun
  BY <1>3 DEF Begun, Miss
<1>5. Searched
  BY <1>3 DEF Searched, Found, Miss
<1>6. Mapped /\ Claims
  BY <1>3 DEF Mapped, Claims
<1>7. Answered /\ Tasked /\ Selected /\ Raced
  BY DEF Answered, Tasked, Selected, Raced
<1> QED
  BY <1>2, <1>4, <1>5, <1>6, <1>7 DEF IInv

(* Steps that leave the associator, the job and what was found alone.      *)
LEMMA AssociatorKept ==
  ASSUME IInv, UNCHANGED <<vars, job, tags, found>>
  PROVE  Searched' /\ Mapped' /\ Claims' /\ Selected'
<1>1. Searched'
  BY DEF IInv, Searched, vars
<1>2. Mapped'
  BY DEF IInv, Mapped, vars, Signature
<1>3. Claims'
  BY DEF IInv, Claims, vars, Signature
<1>4. Selected'
  BY DEF IInv, Selected, TagsMatch
<1> QED
  BY <1>1, <1>2, <1>3, <1>4

(* The account changes only between listings.                              *)
LEMMA AccountStep ==
  ASSUME IInv, AccountChanges
  PROVE  IInv'
<1> USE DEF AccountChanges
<1>1. step \in Before /\ step' = step
  BY DEF Before
<1>2. Typed'
  <2>1. Typed /\ UNCHANGED <<vars, job, jobDims, tags, step, error, listed, found, request>>
    BY DEF IInv
  <2>2. created' \subseteq Resources /\ alive' \subseteq Resources
    BY <2>1 DEF Typed
  <2> QED
    BY <2>1, <2>2 DEF Typed, vars
<1>3. Begun' /\ answer' = NoAnswer /\ task' = NoTask
  BY <1>1 DEF IInv, Begun, vars
<1>4. Searched' /\ Mapped' /\ Claims' /\ Selected'
  BY AssociatorKept
<1>5. Answered' /\ Tasked'
  BY <1>3 DEF Answered, Tasked
<1>6. Raced'
  <2>1. step' = "second" /\ job'.filter = "dms" =>
          alive' \cap Early \subseteq listed' \cup created'
    BY DEF IInv, Raced
  <2>2. error' = "KeyError" => job'.filter = "dms" /\ created' \cap Early # {}
    BY DEF IInv, Raced
  <2>3. Supported(alive)'
    BY DEF Supported
  <2> QED
    BY <2>1, <2>2, <2>3 DEF Raced
<1> QED
  BY <1>2, <1>3, <1>4, <1>5, <1>6 DEF IInv

(* An exception leaves no answer and no task.                              *)
LEMMA RaiseStep ==
  ASSUME IInv, NEW e \in Errors, Raise(e),
         e = "KeyError" => job.filter = "dms" /\ created \cap Early # {}
  PROVE  IInv'
<1> USE DEF Raise, account
<1>1. Typed'
  BY DEF IInv, Typed, Steps, Errors
<1>2. Begun' /\ Answered' /\ Tasked'
  BY DEF Begun, Answered, Tasked, Before
<1>3. Searched' /\ Mapped' /\ Claims' /\ Selected'
  <2>1. Searched'
    BY DEF IInv, Searched
  <2>2. Mapped'
    BY DEF IInv, Mapped, Signature
  <2>3. Claims'
    BY DEF IInv, Claims, Signature
  <2>4. Selected'
    BY DEF IInv, Selected, TagsMatch
  <2> QED
    BY <2>1, <2>2, <2>3, <2>4
<1>4. Raced'
  BY DEF IInv, Raced, Supported
<1> QED
  BY <1>1, <1>2, <1>3, <1>4 DEF IInv

LEMMA TaggingStep ==
  ASSUME IInv, GetAllResources
  PROVE  IInv'
<1> USE DEF GetAllResources, account
<1>1. Typed'
  BY DEF IInv, Typed, Steps, Before, vars
<1>2. Begun' /\ answer' = NoAnswer /\ task' = NoTask
  BY DEF IInv, Begun, Before, vars
<1>3. Answered' /\ Tasked'
  BY <1>2 DEF Answered, Tasked
<1>4. Searched'
  BY DEF IInv, Begun, Before, Searched, vars
<1>5. Mapped' /\ Claims'
  BY <1>2 DEF Begun, Mapped, Claims, Before
<1>6. Selected'
  BY DEF Selected, Tagged, TagsMatch
<1>7. Raced'
  BY DEF IInv, Raced, Supported
<1> QED
  BY <1>1, <1>2, <1>3, <1>4, <1>5, <1>6, <1>7 DEF IInv

(* The associator is built from resources that pass the job's filters.     *)
LEMMA AssociatedStep ==
  ASSUME IInv, step \in Before, NEW R \in SUBSET Resources, Associated(R),
         job.filter # "shield" => \A r \in R : TagsMatch(r)
  PROVE  IInv'
<1> USE DEF Associated, account, lookup
<1>1. /\ \A p \in Patterns : DOMAIN mapped[p] = {}
      /\ \A r \in Resources : claimedBy[r] = 0
      /\ answer = NoAnswer /\ task = NoTask
  BY DEF IInv, Begun
<1>2. Typed'
  BY DEF IInv, Typed, Steps, Before
<1>3. Begun' /\ Answered' /\ Tasked'
  BY <1>1 DEF Begun, Before, Answered, Tasked
<1>4. Searched'
  <2>1. PICK a \in Arns : search' = [p \in Patterns |-> [r \in Resources |->
                                      IF r \in R THEN a[p][r] ELSE Miss]]
    OBVIOUS
  <2> SUFFICES ASSUME NEW p \in Patterns, NEW r \in Resources
               PROVE  search'[p][r] \in Found(p) /\ (search'[p][r].hit => r \in R)
    BY DEF Searched
  <2>2. search'[p][r] = IF r \in R THEN a[p][r] ELSE Miss
    BY <2>1
  <2>3. a[p][r] \in Found(p)
    BY DiscoveryAssumption
  <2>4. Miss \in Found(p) /\ ~ Miss.hit
    BY DEF Found, Miss
  <2> QED
    BY <2>2, <2>3, <2>4
<1>5. Mapped' /\ Claims'
  BY <1>1 DEF Mapped, Claims
<1>6. Selected'
  BY DEF Selected, TagsMatch
<1>7. Raced'
  BY DEF IInv, Raced, Supported
<1> QED
  BY <1>2, <1>3, <1>4, <1>5, <1>6, <1>7 DEF IInv

(* A pattern's turn: what was mapped for the others stays, as a resource   *)
(* that is claimed is not claimed again.                                   *)
LEMMA MapStep ==
  ASSUME IInv, step = "metrics", NEW p \in Patterns, MapPattern(p),
         UNCHANGED <<job, jobDims, account, step, error, listed, found, request, task>>
  PROVE  IInv'
<1> DEFINE SigOf(r) == Signature(TRUE, search[p][r].dims)
           Of(s) == {r \in Claimed(p) : SigOf(r) = s}
           mapping == [s \in {SigOf(r) : r \in Claimed(p)} |-> Max(Of(s))]
<1>1. /\ next = p /\ next' = p + 1 /\ p \in Nat
      /\ claimedBy' = [r \in Resources |-> IF r \in Claimed(p) THEN p ELSE claimedBy[r]]
      /\ mapped' = [mapped EXCEPT ![p] = mapping]
  BY PatternFacts DEF MapPattern
<1>2. UNCHANGED <<search, sorted, answer, job, jobDims, tags, alive, created, step,
                  error, listed, found, request, task>>
  BY DEF MapPattern, account
<1>3. Typed
  BY DEF IInv
<1>4. \A s \in DOMAIN mapping : Max(Of(s)) \in Of(s)
  <2> SUFFICES ASSUME NEW s \in DOMAIN mapping PROVE Max(Of(s)) \in Of(s)
    OBVIOUS
  <2>1. PICK r \in Claimed(p) : s = SigOf(r)
    OBVIOUS
  <2>2. Of(s) # {}
    BY <2>1
  <2>3. Of(s) \subseteq Resources
    BY DEF Claimed
  <2>4. Of(s) \in SUBSET Nat /\ \A x \in Of(s) : x <= NumResources
    <3> HIDE DEF Of
    <3> QED
      BY <2>3, AssociatorAssumption DEF Resources
  <2> HIDE DEF Of
  <2> QED
    BY <2>2, <2>4, AssociatorAssumption, MaxProperties
<1>5. /\ DOMAIN mapped' = Patterns /\ mapped'[p] = mapping
      /\ \A q \in Patterns \ {p} : mapped'[q] = mapped[q]
  BY <1>1, <1>3 DEF Typed
<1>6. Typed'
  <2>1. claimedBy' \in [Resources -> {0} \cup Patterns]
    <3>1. \A r \in Resources :
            (IF r \in Claimed(p) THEN p ELSE claimedBy[r]) \in {0} \cup Patterns
      BY <1>3 DEF Typed
    <3> HIDE DEF mapping
    <3> QED
      BY <1>1, <3>1
  <2>2. next' \in Nat
    <3> HIDE DEF mapping
    <3> QED
      BY <1>1
  <2> HIDE DEF mapping
  <2> QED
    BY <1>2, <1>3, <1>5, <2>1, <2>2 DEF Typed
<1>7. Begun' /\ Searched' /\ Selected' /\ Raced'
  <2>1. Begun'
    BY <1>2 DEF Begun, Before
  <2>2. Searched'
    BY <1>2 DEF IInv, Searched
  <2>3. Selected'
    BY <1>2 DEF IInv, Selected, TagsMatch
  <2>4. Raced'
    BY <1>2 DEF IInv, Raced, Supported
  <2> QED
    BY <2>1, <2>2, <2>3, <2>4
<1>8. answer = NoAnswer
  BY <1>1 DEF IInv, Answered, Built
<1>9. Answered' /\ Tasked'
  <2>1. Answered'
    BY <1>2, <1>8 DEF Answered
  <2>2. \A k, m : Wanted(k, m)' = Wanted(k, m)
    BY <1>2 DEF Wanted, SearchDimensions, Exact
  <2>3. \A r : TaskTag(r)' = TaskTag(r)
    BY <1>2 DEF TaskTag
  <2>4. Tasked'
    BY <1>2, <2>2, <2>3 DEF IInv, Tasked
  <2> QED
    BY <2>1, <2>4
<1>10. \A r \in Resources : claimedBy[r] # 0 => claimedBy'[r] = claimedBy[r]
  BY <1>1 DEF Claimed
<1>11. Mapped'
  <2> SUFFICES ASSUME NEW q \in Patterns, NEW s \in DOMAIN mapped'[q]
               PROVE  /\ mapped'[q][s] \in Resources
                      /\ claimedBy'[mapped'[q][s]] = q
                      /\ s = Signature(TRUE, search[q][mapped'[q][s]].dims)
    BY <1>2 DEF Mapped, Signature
  <2>1. CASE q # p
    <3>1. mapped'[q] = mapped[q]
      BY <1>5, <2>1
    <3>2. /\ mapped[q][s] \in Resources /\ claimedBy[mapped[q][s]] = q
          /\ s = Signature(TRUE, search[q][mapped[q][s]].dims)
      BY <3>1 DEF IInv, Mapped
    <3>3. q # 0
      BY PatternFacts
    <3> QED
      BY <1>10, <3>1, <3>2, <3>3
  <2>2. CASE q = p
    <3>1. s \in DOMAIN mapping /\ mapped'[p][s] = Max(Of(s))
      BY <1>5, <2>2
    <3>2. Max(Of(s)) \in Claimed(p) /\ SigOf(Max(Of(s))) = s
      BY <1>4, <3>1
    <3>3. mapped'[p][s] \in Claimed(p) /\ s = SigOf(mapped'[p][s])
      BY <3>1, <3>2
    <3>4. mapped'[p][s] \in Resources
      BY <3>3 DEF Claimed
    <3>5. claimedBy'[mapped'[p][s]] = p
      BY <1>1, <3>3, <3>4
    <3> QED
      BY <2>2, <3>3, <3>4, <3>5
  <2> QED
    BY <2>1, <2>2
<1>12. Claims'
  <2> SUFFICES ASSUME NEW r \in Resources, claimedBy'[r] # 0
               PROVE  /\ claimedBy'[r] < next'
                      /\ search[claimedBy'[r]][r].hit
                      /\ Signature(TRUE, search[claimedBy'[r]][r].dims)
                           \in DOMAIN mapped'[claimedBy'[r]]
    BY <1>2 DEF Claims, Signature
  <2>1. CASE r \in Claimed(p)
    <3>1. claimedBy'[r] = p /\ search[p][r].hit
      BY <1>1, <2>1 DEF Claimed
    <3>2. SigOf(r) \in DOMAIN mapping
      BY <2>1
    <3>3. SigOf(r) \in DOMAIN mapped'[p]
      BY <1>5, <3>2
    <3>4. p < next'
      BY <1>1
    <3> HIDE DEF mapping
    <3> QED
      BY <3>1, <3>3, <3>4
  <2>2. CASE r \notin Claimed(p)
    <3>1. claimedBy'[r] = claimedBy[r]
      BY <1>1, <2>2
    <3>2. /\ claimedBy[r] \in Patterns /\ claimedBy[r] < next
          /\ search[claimedBy[r]][r].hit
          /\ Signature(TRUE, search[claimedBy[r]][r].dims) \in DOMAIN mapped[claimedBy[r]]
      BY <1>3, <3>1 DEF IInv, Claims, Typed
    <3>3. claimedBy[r] # p /\ claimedBy[r] < p + 1
      BY <1>1, <3>2, PatternFacts
    <3> QED
      BY <1>1, <1>5, <3>1, <3>2, <3>3
  <2> QED
    BY <2>1, <2>2
<1> QED
  BY <1>6, <1>7, <1>9, <1>11, <1>12 DEF IInv

(* A metric is looked up in what the step leaves alone.                    *)
LEMMA ListStep ==
  ASSUME IInv, step = "metrics", NEW m \in Metrics, ListMetric(m)
  PROVE  IInv'
<1>1. /\ request \in DOMAIN job.metrics /\ Built
      /\ UNCHANGED <<search, sorted, next, claimedBy, mapped, job, jobDims,
                     tags, alive, created, step, error, listed, found, request>>
  BY DEF ListMetric, JobDims, Associate, account
<1>2. Typed'
  BY <1>1 DEF IInv, Typed
<1>3. Begun' /\ Raced'
  <2>1. Begun'
    BY <1>1 DEF Begun, Before
  <2>2. Raced'
    BY <1>1 DEF IInv, Raced, Supported
  <2> QED
    BY <2>1, <2>2
<1>4. Searched' /\ Mapped' /\ Claims' /\ Selected'
  <2>1. Searched'
    BY <1>1 DEF IInv, Searched
  <2>2. Mapped'
    BY <1>1 DEF IInv, Mapped, Signature
  <2>3. Claims'
    BY <1>1 DEF IInv, Claims, Signature
  <2>4. Selected'
    BY <1>1 DEF IInv, Selected, TagsMatch
  <2> QED
    BY <2>1, <2>2, <2>3, <2>4
<1>5. Built'
  BY <1>1 DEF Built
<1>6. Lookup(m)' = Lookup(m)
  BY <1>1, LookupKept
<1>7. /\ Wanted(request, m)' = Wanted(request, m)
      /\ \A r : TaskTag(r)' = TaskTag(r)
  <2>1. Wanted(request, m)' = Wanted(request, m)
    BY <1>1 DEF Wanted, SearchDimensions, Exact
  <2>2. \A r : TaskTag(r)' = TaskTag(r)
    BY <1>1 DEF TaskTag
  <2> QED
    BY <2>1, <2>2
<1>8. CASE Wanted(request, m)
  <2>1. /\ answer' = Lookup(m)
        /\ task' = [request |-> request, metric |-> m,
                    kept |-> IF answer'.skip THEN "skipped" ELSE "reported",
                    resource |-> answer'.resource, tag |-> TaskTag(answer'.resource)]
    BY <1>8 DEF ListMetric, Associate
  <2>2. answer'.metric = m
    BY <2>1, AnswerFacts DEF IInv
  <2>3. Answered'
    BY <1>1, <1>5, <1>6, <2>1, <2>2 DEF Answered
  <2>4. /\ task'.request = request /\ task'.metric = m
        /\ task'.kept # "unwanted" /\ task'.resource = answer'.resource
        /\ task'.tag = TaskTag(task'.resource)
    BY <2>1
  <2>5. Wanted(task.request, task.metric)'
    BY <1>1, <1>7, <1>8, <2>4
  <2>6. Tasked'
    BY <1>1, <1>7, <2>4, <2>5 DEF Tasked
  <2> QED
    BY <1>2, <1>3, <1>4, <2>3, <2>6 DEF IInv
<1>9. CASE ~ Wanted(request, m)
  <2>1. /\ answer' = NoAnswer
        /\ task' = [NoTask EXCEPT !.request = request, !.metric = m, !.kept = "unwanted"]
    BY <1>9 DEF ListMetric
  <2>2. Answered'
    BY <2>1 DEF Answered
  <2>3. /\ task'.request = request /\ task'.metric = m
        /\ task'.kept = "unwanted" /\ task'.tag = NoTag
    BY <2>1 DEF NoTask
  <2>4. ~ Wanted(task.request, task.metric)'
    BY <1>1, <1>7, <1>9, <2>3
  <2>5. Tasked'
    BY <1>1, <2>3, <2>4 DEF Tasked
  <2> QED
    BY <1>2, <1>3, <1>4, <2>2, <2>5 DEF IInv
<1> QED
  BY <1>8, <1>9

LEMMA NextRequestStep ==
  ASSUME IInv, NextRequest
  PROVE  IInv'
<1> USE DEF NextRequest, account
<1>1. Typed'
  <2>1. job.metrics \in Seq(Requests) /\ request \in 1..(Len(job.metrics) + 1)
    BY DiscoveryAssumption DEF IInv, Typed
  <2>2. request' \in 1..(Len(job.metrics) + 1)
    BY <2>1
  <2>3. step' \in Steps /\ error = "none" /\ step' # "raised"
    BY DEF IInv, Typed, Steps
  <2> QED
    BY <2>2, <2>3 DEF IInv, Typed
<1>2. Begun' /\ Answered' /\ Tasked'
  BY DEF Begun, Answered, Tasked, Before
<1>3. Searched' /\ Mapped' /\ Claims' /\ Selected'
  <2>1. Searched'
    BY DEF IInv, Searched
  <2>2. Mapped'
    BY DEF IInv, Mapped, Signature
  <2>3. Claims'
    BY DEF IInv, Claims, Signature
  <2>4. Selected'
    BY DEF IInv, Selected, TagsMatch
  <2> QED
    BY <2>1, <2>2, <2>3, <2>4
<1>4. Raced'
  BY DEF IInv, Raced, Supported
<1> QED
  BY <1>1, <1>2, <1>3, <1>4 DEF IInv

(* The filters that list their namespace's resources themselves.           *)
LEMMA ListingStep ==
  ASSUME IInv,
         NoResourceFilter \/ AutoScalingClient \/ EC2Client \/ PrometheusClient
           \/ ShieldClient \/ StorageGatewayClient
  PROVE  IInv'
<1>1. /\ found \subseteq Resources /\ alive \subseteq Resources
      /\ job.filter # "shield" => \A r \in found : TagsMatch(r)
  BY DEF IInv, Typed, Selected
<1>2. /\ Listing \subseteq Resources /\ \A r \in Listing : TagsMatch(r)
  BY <1>1 DEF Listing
<1>3. step = "filter" /\ step \in Before
  BY DEF NoResourceFilter, AutoScalingClient, EC2Client, PrometheusClient, ShieldClient,
         StorageGatewayClient, Filtering, Before
<1>4. CASE NoResourceFilter
  BY <1>1, <1>3, <1>4, AssociatedStep DEF NoResourceFilter
<1>5. CASE AutoScalingClient
  BY <1>2, <1>3, <1>5, AssociatedStep DEF AutoScalingClient
<1>6. CASE EC2Client
  BY <1>2, <1>3, <1>6, AssociatedStep DEF EC2Client
<1>7. CASE PrometheusClient
  BY <1>2, <1>3, <1>7, AssociatedStep DEF PrometheusClient
<1>8. CASE ShieldClient
  <2>1. job.filter = "shield" /\ Associated(alive)
    BY <1>8 DEF ShieldClient, Filtering
  <2> QED
    BY <1>1, <1>3, <2>1, AssociatedStep
<1>9. CASE StorageGatewayClient
  <2>1. CASE alive = {}
    <3>1. Associated({})
      BY <1>9, <2>1 DEF StorageGatewayClient
    <3> QED
      BY <1>3, <3>1, AssociatedStep
  <2>2. CASE alive # {}
    <3>1. Raise("TypeError") /\ "TypeError" \in Errors
      BY <1>9, <2>2 DEF StorageGatewayClient, Errors
    <3> QED
      BY <3>1, RaiseStep
  <2> QED
    BY <2>1, <2>2
<1> QED
  BY <1>4, <1>5, <1>6, <1>7, <1>8, <1>9

(* The first of two listings, and those that come second.  An instance     *)
(* that the first did not show but a task names was created in between.    *)
LEMMA TwoListingsStep ==
  ASSUME IInv, FirstListing \/ APIGatewayFilter \/ DMSClient
  PROVE  IInv'
<1>1. /\ found \subseteq Resources /\ alive \subseteq Resources
      /\ job.filter # "shield" => \A r \in found : TagsMatch(r)
  BY DEF IInv, Typed, Selected
<1>2. CASE FirstListing
  <2>1. step \in Before
    BY <1>2 DEF FirstListing, Before
  <2>2. CASE found = {}
    <3>1. Associated({})
      BY <1>2, <2>2 DEF FirstListing
    <3> QED
      BY <2>1, <3>1, AssociatedStep
  <2>3. CASE found # {}
    <3>1. /\ job.filter = "dms" => listed' = alive \cap Early
          /\ listed' \subseteq Early /\ step' = "second"
          /\ UNCHANGED <<vars, job, jobDims, account, error, found, request, task>>
      BY <1>2, <2>3 DEF FirstListing, FirstPages
    <3>2. error = "none"
      BY <2>1 DEF IInv, Typed, Before
    <3>3. Typed'
      BY <3>1, <3>2 DEF IInv, Typed, Steps, Before, vars, account
    <3>4. Begun' /\ answer' = NoAnswer /\ task' = NoTask
      BY <2>1, <3>1 DEF IInv, Begun, vars
    <3>5. Answered' /\ Tasked'
      BY <3>4 DEF Answered, Tasked
    <3>6. Searched' /\ Mapped' /\ Claims' /\ Selected'
      BY <3>1, AssociatorKept DEF account
    <3>7. Raced'
      BY <3>1, <3>2 DEF IInv, Raced, Supported, account
    <3> QED
      BY <3>3, <3>4, <3>5, <3>6, <3>7 DEF IInv
  <2> QED
    BY <2>2, <2>3
<1>3. CASE APIGatewayFilter
  <2>1. PICK apis \in SUBSET found : Associated(apis \cap (listed \cup (alive \cap Late)))
    BY <1>3 DEF APIGatewayFilter
  <2>2. step \in Before
    BY <1>3 DEF APIGatewayFilter, Before
  <2> QED
    BY <1>1, <2>1, <2>2, AssociatedStep
<1>4. CASE DMSClient
  <2>1. step = "second" /\ step \in Before /\ job.filter = "dms"
    BY <1>4 DEF DMSClient, Before
  <2>2. PICK page \in SUBSET (alive \cap Late) :
          IF \A t \in page : Instance[t] \in listed
          THEN Associated(found \cap (listed \cup page))
          ELSE Raise("KeyError")
    BY <1>4 DEF DMSClient
  <2>3. CASE \A t \in page : Instance[t] \in listed
    BY <1>1, <2>1, <2>2, <2>3, AssociatedStep
  <2>4. ASSUME NEW t \in page, Instance[t] \notin listed
        PROVE  IInv'
    <3>1. Instance[t] \in alive \cap Early
      BY <2>1, DiscoveryAssumption DEF IInv, Raced, Supported
    <3>2. created \cap Early # {}
      BY <2>1, <2>4, <3>1 DEF IInv, Raced
    <3>3. Raise("KeyError") /\ "KeyError" \in Errors
      BY <2>2, <2>4 DEF Errors
    <3> QED
      BY <2>1, <3>2, <3>3, RaiseStep
  <2> QED
    BY <2>3, <2>4
<1> QED
  BY <1>2, <1>3, <1>4

(* Every step keeps the invariant.                                         *)
LEMMA StepIInv == IInv /\ [DNext]_dvars => IInv'
<1> SUFFICES ASSUME IInv, [DNext]_dvars PROVE IInv'
  OBVIOUS
<1>1. CASE AccountChanges
  BY <1>1, AccountStep
<1>2. CASE GetAllResources
  BY <1>2, TaggingStep
<1>3. CASE \/ NoResourceFilter \/ AutoScalingClient \/ EC2Client \/ PrometheusClient
           \/ ShieldClient \/ StorageGatewayClient
  BY <1>3, ListingStep
<1>4. CASE FirstListing \/ APIGatewayFilter \/ DMSClient
  BY <1>4, TwoListingsStep
<1>5. CASE CallFails
  BY <1>5, RaiseStep DEF CallFails, Errors
<1>6. CASE /\ step = "metrics" /\ \E p \in Patterns : MapPattern(p)
           /\ UNCHANGED <<job, jobDims, account, step, error, listed, found, request, task>>
  BY <1>6, MapStep
<1>7. CASE step = "metrics" /\ \E m \in Metrics : ListMetric(m)
  BY <1>7, ListStep
<1>8. CASE NextRequest
  BY <1>8, NextRequestStep
<1>9. CASE UNCHANGED dvars
  <2>1. UNCHANGED <<vars, job, jobDims, tags, alive, created, step, error, listed, found,
                    request, task>>
    BY <1>9 DEF dvars, account
  <2>2. Searched' /\ Mapped' /\ Claims' /\ Selected'
    BY <2>1, AssociatorKept
  <2>3. Typed' /\ Begun' /\ Raced'
    <3>1. Typed'
      BY <2>1 DEF IInv, Typed, vars
    <3>2. Begun'
      BY <2>1 DEF IInv, Begun, vars
    <3>3. Raced'
      BY <2>1 DEF IInv, Raced, Supported
    <3> QED
      BY <3>1, <3>2, <3>3
  <2>4. Answered'
    <3>1. \A m : Lookup(m)' = Lookup(m)
      BY <2>1, LookupKept DEF vars
    <3>2. Built' = Built
      BY <2>1 DEF vars, Built
    <3> QED
      BY <2>1, <3>1, <3>2 DEF IInv, Answered, vars
  <2>5. Tasked'
    <3>1. /\ \A k, m : Wanted(k, m)' = Wanted(k, m)
          /\ \A r : TaskTag(r)' = TaskTag(r)
      BY <2>1 DEF Wanted, SearchDimensions, Exact, TaskTag
    <3> QED
      BY <2>1, <3>1 DEF IInv, Tasked, vars
  <2> QED
    BY <2>2, <2>3, <2>4, <2>5 DEF IInv
<1> QED
  BY <1>1, <1>2, <1>3, <1>4, <1>5, <1>6, <1>7, <1>8, <1>9 DEF DNext, Ended

-----------------------------------------------------------------------------
(* The inductive invariant of discovery.                                   *)
THEOREM Discovering == DSpec => []IInv
<1>1. DInit => IInv
  BY InitIInv
<1>2. IInv /\ [DNext]_dvars => IInv'
  BY StepIInv
<1> QED
  BY <1>1, <1>2, PTL DEF DSpec

(* Every variable has its type, and only what was found is mapped.         *)
THEOREM TypesHold == DSpec => []DTypeOK
BY Discovering, TypedFromInv, PTL

(* A metric is never given the tags of a resource it does not show,        *)
(* whatever the patterns and in whichever order sets are iterated.         *)
THEOREM Sound == DSpec => []AnswersAreSound
BY Discovering, SoundFromInv, PTL

(* Of the resources a metric shows it is given one of which it shows the   *)
(* most dimensions.                                                        *)
THEOREM MostSpecific == DSpec => []MostSpecificWins
BY Discovering, SpecificFromInv, PTL

(* A metric is skipped if and only if it has the dimensions of a resource  *)
(* that was found, and that is not the one it names.                       *)
THEOREM JustSkips == DSpec => []SkipsAreJustified
BY Discovering, SkipsFromInv, PTL

(* Where sets are iterated in order no metric is kept from a resource of   *)
(* the mapping it is looked up in.                                         *)
THEOREM Complete == DSpec => []SortedAnswersAreComplete
BY Discovering, CompleteFromInv, PTL

(* A request filters by its own dimensions and those it inherits, whatever *)
(* the requests before it were.                                            *)
THEOREM Independent == DSpec => []RequestsAreIndependent
BY Discovering, IndependentFromInv, PTL

(* What is reported is a resource whose tags the job searches for, under   *)
(* its own tag or the job's.                                               *)
THEOREM OwnTags == DSpec => []ReportedResourcesMatch
BY Discovering, ReportedFromInv, PTL

(* A DMS job meets an unknown instance only if one was created meanwhile.  *)
THEOREM RacesOnly == DSpec => []KeyErrorsAreRaces
BY Discovering, RacesFromInv, PTL

=============================================================================
