-------------------------- MODULE MetricDataProofs --------------------------
(***************************************************************************)
(* Proofs about MetricData, for any batch of tasks, any datapoints, any    *)
(* limit and any way the answers are cut into pages: results reach their   *)
(* tasks, and messages hold exactly what there is.                         *)
(***************************************************************************)
EXTENDS MetricData, MessagesProofs, SequenceTheorems

(* The arithmetic of QueryBatches, for any number of tasks and any limit.  *)

(* Division rounded up: b parts of the result cover a, and one less of     *)
(* each would not.                                                         *)
LEMMA CeilBounds ==
  ASSUME NEW a \in Nat \ {0}, NEW b \in Nat \ {0}
  PROVE  /\ Ceil(a, b) \in Nat \ {0}
         /\ b * Ceil(a, b) >= a
         /\ b * (Ceil(a, b) - 1) < a
<1> DEFINE q == (a + b - 1) \div b
           r == (a + b - 1) % b
<1>1. q \in Nat /\ r \in 0..(b - 1) /\ a + b - 1 = b * q + r
  OBVIOUS
<1>2. q # 0
  BY <1>1
<1>3. b * q >= a
  BY <1>1
<1>4. b * (q - 1) = b * q - b
  BY <1>1
<1>5. b * (q - 1) < a
  BY <1>1, <1>4
<1> QED
  BY <1>1, <1>2, <1>3, <1>5 DEF Ceil

LEMMA ProductMonotone ==
  ASSUME NEW n \in Nat, NEW x \in Nat, NEW y \in Nat, x <= y
  PROVE  n * x <= n * y
<1>1. PICK d \in Nat : y = x + d
  <2>1. y - x \in Nat /\ y = x + (y - x)
    OBVIOUS
  <2> QED
    BY <2>1
<1>2. n * y = n * x + n * d /\ n * d >= 0
  BY <1>1
<1>3. n * x \in Nat /\ n * d \in Nat
  OBVIOUS
<1> QED
  BY <1>2, <1>3

(* No call of get_metric_data ever has more than Limit queries, and none   *)
(* is empty.                                                               *)
THEOREM BatchSizeCorrect == \A total \in Nat : BatchSize(total) \in 1..Limit
<1> SUFFICES ASSUME NEW total \in Nat PROVE BatchSize(total) \in 1..Limit
  OBVIOUS
<1> DEFINE n == NumBatches(total)
           size == Ceil(total, n)
<1>1. CASE total > Limit
  <2>1. total \in Nat \ {0}
    BY <1>1, LimitAssumption
  <2>2. n \in Nat \ {0} /\ Limit * n >= total
    BY <2>1, LimitAssumption, CeilBounds DEF NumBatches
  <2>3. size \in Nat \ {0} /\ n * (size - 1) < total
    BY <2>1, <2>2, CeilBounds
  <2>4. size - 1 < Limit
    <3>1. SUFFICES ASSUME Limit <= size - 1 PROVE FALSE
      BY <2>3, LimitAssumption
    <3>2. n * Limit <= n * (size - 1)
      BY <2>2, <2>3, <3>1, LimitAssumption, ProductMonotone
    <3>3. n * Limit = Limit * n /\ n * Limit \in Nat
      BY <2>2, LimitAssumption
    <3>4. n * (size - 1) \in Nat
      BY <2>2, <2>3
    <3> HIDE DEF n, size
    <3> QED
      BY <2>2, <2>3, <3>2, <3>3, <3>4
  <2>5. BatchSize(total) = size
    BY <1>1 DEF BatchSize
  <2> HIDE DEF n, size
  <2> QED
    BY <2>3, <2>4, <2>5, LimitAssumption
<1>2. CASE ~(total > Limit)
  BY <1>2, LimitAssumption DEF BatchSize
<1> QED
  BY <1>1, <1>2

(* The calls are as few as the limit allows: NumBatches calls of that size *)
(* take all the tasks, and one call fewer could not, whatever its size.    *)
THEOREM CallsAreFewest ==
  \A total \in Nat : total > Limit =>
    /\ NumBatches(total) * BatchSize(total) >= total
    /\ (NumBatches(total) - 1) * Limit < total
<1> SUFFICES ASSUME NEW total \in Nat, total > Limit
             PROVE  /\ NumBatches(total) * BatchSize(total) >= total
                    /\ (NumBatches(total) - 1) * Limit < total
  OBVIOUS
<1>1. total \in Nat \ {0} /\ BatchSize(total) = Ceil(total, NumBatches(total))
  BY LimitAssumption DEF BatchSize
<1>2. NumBatches(total) \in Nat \ {0} /\ Limit * (NumBatches(total) - 1) < total
  BY <1>1, LimitAssumption, CeilBounds DEF NumBatches
<1>3. NumBatches(total) * BatchSize(total) >= total
  BY <1>1, <1>2, CeilBounds
<1>4. Limit * (NumBatches(total) - 1) = (NumBatches(total) - 1) * Limit
  BY <1>2, LimitAssumption
<1> QED
  BY <1>2, <1>3, <1>4

-----------------------------------------------------------------------------
(* The datapoints in the order of the service: all of them, and the newest *)
(* first.                                                                  *)
LEMMA NewestFacts ==
  ASSUME NEW S \in SUBSET Times
  PROVE  /\ Newest(S) \in Seq(S) /\ Newest(S) \in Seq(Times)
         /\ ToSet(Newest(S)) = S
         /\ Newest(S) = <<>> <=> S = {}
         /\ S # {} => Newest(S)[1] \in S /\ \A t \in S : t <= Newest(S)[1]
<1> DEFINE nth(n) == CHOOSE t \in S : Cardinality({u \in S : u >= t}) = n
<1>1. S \in SUBSET Nat /\ IsFiniteSet(S)
  BY TimesAssumption, FS_Subset
<1>2. Cardinality(S) \in Nat /\ (Cardinality(S) = 0 <=> S = {})
  BY <1>1, FS_CardinalityType, FS_EmptySet
<1>3. ASSUME NEW n \in 1..Cardinality(S)
      PROVE  nth(n) \in S /\ Cardinality(AsNew(S, nth(n))) = n
  BY <1>1, RankFacts DEF AsNew
<1>4. Newest(S) = [n \in 1..Cardinality(S) |-> nth(n)]
  BY DEF Newest
<1> HIDE DEF nth
<1>5. Newest(S) \in Seq(S) /\ Len(Newest(S)) = Cardinality(S)
  BY <1>2, <1>3, <1>4
<1>6. Newest(S) \in Seq(Times)
  BY <1>5, SeqMonotonic
<1>7. ASSUME NEW t \in S
      PROVE  t = Newest(S)[Cardinality(AsNew(S, t))]
  <2> DEFINE n == Cardinality(AsNew(S, t))
  <2>1. n \in 1..Cardinality(S)
    BY <1>1, RankFacts
  <2> HIDE DEF n
  <2>2. nth(n) \in S /\ Cardinality(AsNew(S, nth(n))) = n
    BY <1>3, <2>1
  <2>3. /\ t < nth(n) => Cardinality(AsNew(S, nth(n))) < Cardinality(AsNew(S, t))
        /\ nth(n) < t => Cardinality(AsNew(S, t)) < Cardinality(AsNew(S, nth(n)))
    BY <1>1, <2>2, RankFacts
  <2>4. n \in Nat /\ t \in Nat /\ nth(n) \in Nat
    <3>1. n \in Nat
      BY <1>2, <2>1
    <3>2. t \in Nat /\ nth(n) \in Nat
      BY <1>1, <2>2
    <3> QED
      BY <3>1, <3>2
  <2>5. ~ (t < nth(n)) /\ ~ (nth(n) < t)
    BY <2>2, <2>3, <2>4 DEF n
  <2>6. t = nth(n)
    BY <2>4, <2>5
  <2> QED
    BY <1>4, <2>1, <2>6 DEF n
<1>8. ToSet(Newest(S)) = S
  <2>1. DOMAIN Newest(S) = 1..Cardinality(S)
    BY <1>4
  <2>2. \A t \in S : \E n \in DOMAIN Newest(S) : Newest(S)[n] = t
    <3> TAKE t \in S
    <3>1. Cardinality(AsNew(S, t)) \in 1..Cardinality(S)
      BY <1>1, RankFacts
    <3> QED
      BY <1>7, <2>1, <3>1
  <2>3. \A n \in DOMAIN Newest(S) : Newest(S)[n] \in S
    BY <1>3, <1>4
  <2> QED
    BY <2>2, <2>3 DEF ToSet
<1>9. ASSUME S # {}
      PROVE  Newest(S)[1] \in S /\ \A t \in S : t <= Newest(S)[1]
  <2>1. 1 \in 1..Cardinality(S)
    BY <1>2, <1>9
  <2>2. nth(1) \in S /\ Cardinality(AsNew(S, nth(1))) = 1 /\ Newest(S)[1] = nth(1)
    BY <1>3, <1>4, <2>1
  <2>3. ASSUME NEW t \in S, nth(1) < t PROVE FALSE
    <3>1. Cardinality(AsNew(S, t)) < 1
      BY <1>1, <2>2, <2>3, RankFacts
    <3>2. Cardinality(AsNew(S, t)) \in 1..Cardinality(S)
      BY <1>1, RankFacts
    <3> QED
      BY <1>2, <3>1, <3>2
  <2>4. nth(1) \in Nat /\ \A t \in S : t \in Nat
    BY <1>1, <2>2
  <2> QED
    BY <2>2, <2>3, <2>4
<1>10. Newest(S) = <<>> <=> S = {}
  BY <1>2, <1>5
<1> QED
  BY <1>5, <1>6, <1>8, <1>9, <1>10

(* A sequence of which a part is moved from one side to the other.         *)
LEMMA Moved ==
  ASSUME NEW r \in Seq(Times), NEW o \in Seq(Times), NEW n \in 0..Len(o)
  PROVE  /\ r \o SubSeq(o, 1, n) \in Seq(Times)
         /\ SubSeq(o, n + 1, Len(o)) \in Seq(Times)
         /\ (r \o SubSeq(o, 1, n)) \o SubSeq(o, n + 1, Len(o)) = r \o o
<1> DEFINE news == SubSeq(o, 1, n)
           rest == SubSeq(o, n + 1, Len(o))
<1>1. Len(o) \in Nat /\ \A i \in 1..Len(o) : o[i] \in Times
  BY LenProperties, ElementOfSeq
<1>2. n \in Nat /\ n <= Len(o)
  BY <1>1
<1>3. news \in Seq(Times)
  <2>1. \A i \in 1..n : o[i] \in Times
    BY <1>1, <1>2
  <2> QED
    BY <1>2, <2>1, SubSeqProperties
<1>4. rest \in Seq(Times)
  <2>1. \A i \in (n + 1)..Len(o) : o[i] \in Times
    BY <1>1, <1>2
  <2> QED
    BY <1>1, <1>2, <2>1, SubSeqProperties
<1>5. news \o rest = o
  <2>1. 1 \in 1..(Len(o) + 1) /\ n \in (1 - 1)..Len(o) /\ Len(o) \in n..Len(o)
    BY <1>1, <1>2
  <2>2. news \o rest = SubSeq(o, 1, Len(o))
    BY <2>1, ConcatAdjacentSubSeq
  <2> QED
    BY <2>2, SubSeqFull
<1> HIDE DEF news, rest
<1>6. (r \o news) \o rest = r \o o
  <2>1. (r \o news) \o rest = r \o (news \o rest)
    BY <1>3, <1>4, ConcatAssociative
  <2> QED
    BY <1>5, <2>1
<1>7. r \o news \in Seq(Times)
  BY <1>3, ConcatProperties
<1> QED
  BY <1>4, <1>6, <1>7 DEF news, rest

LEMMA FirstPart ==
  ASSUME NEW r \in Seq(Times), NEW o \in Seq(Times)
  PROVE  IsPrefix(r, r \o o)
<1>1. Len(r) \in Nat /\ Len(o) \in Nat /\ Len(r \o o) = Len(r) + Len(o)
  BY LenProperties, ConcatProperties
<1>2. SubSeq(r, 1, Len(r)) = SubSeq(r \o o, 1, Len(r))
  <2>1. CASE Len(r) = 0
    <3>1. SubSeq(r, 1, Len(r)) = <<>> /\ SubSeq(r \o o, 1, Len(r)) = <<>>
      BY <2>1, SubSeqEmpty
    <3> QED
      BY <3>1
  <2>2. CASE Len(r) # 0
    <3>1. 1 \in 1..Len(r) /\ Len(r) \in 1..Len(r)
      BY <1>1, <2>2
    <3> QED
      BY <3>1, SubSeqOfConcat1
  <2> QED
    BY <2>1, <2>2
<1> QED
  BY <1>1, <1>2 DEF IsPrefix

LEMMA EmptyPart ==
  ASSUME NEW o \in Seq(Times)
  PROVE  IsPrefix(<<>>, o)
<1>1. <<>> \in Seq(Times) /\ <<>> \o o = o
  BY EmptySeq, ConcatEmptySeq
<1>2. IsPrefix(<<>>, <<>> \o o)
  BY <1>1, FirstPart
<1> QED
  BY <1>1, <1>2

-----------------------------------------------------------------------------
Open == phase \in {"paging", "yielding"}

(* The tasks of the current call.                                          *)
Current == IF Open THEN {taskById[id] : id \in DOMAIN owed} ELSE {}

Typed ==
  /\ tasks \in TaskLists
  /\ data \in [Tasks -> SUBSET Times]
  /\ cut \in 0..Total
  /\ taskById \in [Ids -> 0..Total]
  /\ DOMAIN owed \subseteq Ids
  /\ result \in [Tasks -> Seq(Times)]
  /\ batch \subseteq answered
  /\ phase \in {"batching", "paging", "yielding", "raised", "emitted"}
  /\ unread \in BOOLEAN
  /\ Ended => cut = Total

(* Ids lead to different tasks, and what a task has and what it is owed    *)
(* are together what there is.                                             *)
Calling ==
  Open =>
    /\ DOMAIN owed # {}
    /\ \A id \in DOMAIN owed :
         /\ taskById[id] \in 1..cut
         /\ owed[id] \in Seq(Times)
         /\ result[taskById[id]] \o owed[id] = Newest(data[taskById[id]])
    /\ \A i, j \in DOMAIN owed : taskById[i] = taskById[j] => i = j
    /\ batch = answered \cap Current
    /\ phase = "yielding" /\ ~ unread => \A id \in DOMAIN owed : owed[id] = <<>>

(* Tasks of earlier calls have all there is, later ones nothing.           *)
Reading ==
  /\ answered \subseteq 1..cut
  /\ ResultsAreTheirTasks
  /\ \A t \in Tasks \ answered : result[t] = <<>>
  /\ ~ unread => \A t \in (1..cut) \ Current : result[t] = Newest(data[t])
  /\ reported = {t \in Tasks \ Current : result[t] # <<>>}

Written ==
  /\ phase = "emitted" =>
       /\ messages = {[sig |-> s, message |-> Message(Group(s))] : s \in Signatures}
       /\ \A s \in Signatures : ~ DuplicateStat(Group(s))
  /\ phase = "raised" => \E s \in Signatures : DuplicateStat(Group(s))

IInv == Typed /\ Calling /\ Reading /\ Written

LEMMA TotalType == Typed => Total \in Nat /\ Tasks = 1..Total /\ cut \in Nat /\ cut <= Total
<1> SUFFICES ASSUME Typed PROVE Total \in Nat /\ Tasks = 1..Total /\ cut \in Nat /\ cut <= Total
  OBVIOUS
<1>1. Total \in Nat
  BY TaskListsAssumption DEF Typed, Total
<1> QED
  BY <1>1 DEF Typed, Tasks

-----------------------------------------------------------------------------
LEMMA InitIInv == Init => IInv
<1> SUFFICES ASSUME Init PROVE IInv
  OBVIOUS
<1>1. /\ phase = "batching" /\ cut = 0 /\ answered = {} /\ batch = {} /\ reported = {}
      /\ unread = FALSE /\ tasks \in TaskLists /\ data \in [Tasks -> SUBSET Times]
      /\ taskById = [id \in Ids |-> 0] /\ result = [t \in Tasks |-> <<>>]
  BY DEF Init
<1>2. Total \in Nat
  BY <1>1, TaskListsAssumption DEF Total
<1>3. Typed
  <2>1. <<>> \in Seq(Times)
    BY EmptySeq
  <2>2. result \in [Tasks -> Seq(Times)] /\ taskById \in [Ids -> 0..Total]
    BY <1>1, <1>2, <2>1
  <2>3. cut \in 0..Total
    BY <1>1, <1>2
  <2>4. ~ Ended
    BY <1>1 DEF Ended
  <2>5. DOMAIN owed = {}
    BY DEF Init
  <2> QED
    BY <1>1, <2>2, <2>3, <2>4, <2>5 DEF Typed
<1>4. Calling /\ Written
  BY <1>1 DEF Calling, Written, Open
<1>5. Reading
  <2>1. \A t \in Tasks : result[t] = <<>>
    BY <1>1
  <2>2. ResultsAreTheirTasks
    <3> SUFFICES ASSUME NEW t \in Tasks PROVE IsPrefix(result[t], Newest(data[t]))
      BY DEF ResultsAreTheirTasks
    <3>1. data[t] \in SUBSET Times
      BY <1>1
    <3>2. Newest(data[t]) \in Seq(Times)
      BY <3>1, NewestFacts
    <3> QED
      BY <2>1, <3>2, EmptyPart
  <2>3. (1..cut) = {}
    BY <1>1
  <2> QED
    BY <1>1, <2>1, <2>2, <2>3 DEF Reading
<1> QED
  BY <1>3, <1>4, <1>5 DEF IInv

(* A call takes tasks that no earlier one had.                             *)
LEMMA NextCallStep ==
  ASSUME IInv, NextCall
  PROVE  IInv'
<1> DEFINE size == NextSize(Total, cut)
<1>1. /\ phase = "batching" /\ cut < Total /\ cut' = cut + size
      /\ taskById' = Numbered(size) /\ batch' = {} /\ phase' = "paging"
      /\ owed' = [id \in 0..(size - 1) |-> Newest(data[cut + id + 1])]
      /\ UNCHANGED <<tasks, data, answered, result, reported, messages, unread>>
  BY DEF NextCall
<1>2. Typed /\ Total \in Nat /\ Tasks = 1..Total /\ cut \in Nat
  BY TotalType DEF IInv
<1>3. size \in 1..Limit /\ size <= Total - cut
  <2>1. BatchSize(Total) \in 1..Limit /\ Limit \in Nat
    BY <1>2, BatchSizeCorrect, LimitAssumption
  <2>2. size = IF Total - cut < BatchSize(Total) THEN Total - cut ELSE BatchSize(Total)
    BY DEF NextSize
  <2> HIDE DEF size
  <2> QED
    BY <1>1, <1>2, <2>1, <2>2
<1>4. Limit \in Nat /\ Ids = 0..(Limit - 1)
  BY LimitAssumption DEF Ids
<1> HIDE DEF size
<1>5. Total' = Total /\ Tasks' = Tasks
  BY <1>1 DEF Total, Tasks
<1>6. \A id \in 0..(size - 1) : /\ id \in Ids /\ id < size
                                 /\ cut + id + 1 \in 1..cut'
                                 /\ cut + id + 1 \in Tasks
                                 /\ cut + id + 1 > cut
  BY <1>1, <1>2, <1>3, <1>4
<1>7. \A id \in 0..(size - 1) : taskById'[id] = cut + id + 1
  BY <1>1, <1>6 DEF Numbered
<1>8. DOMAIN owed' = 0..(size - 1)
  BY <1>1
<1>9. Current = {} /\ Current' = {cut + id + 1 : id \in 0..(size - 1)}
  <2>1. Current' = {taskById'[id] : id \in DOMAIN owed'}
    BY <1>1 DEF Current, Open
  <2> QED
    BY <1>1, <1>7, <1>8, <2>1 DEF Current, Open
<1>10. answered \subseteq 1..cut
  BY DEF IInv, Reading
<1>11. \A t \in Current' : t \in Tasks /\ t > cut /\ t \notin answered /\ result[t] = <<>>
  <2>1. \A t \in Current' : t \in Tasks /\ t > cut
    BY <1>6, <1>9
  <2>2. \A t \in Current' : t \notin answered
    <3>1. \A t \in 1..cut : ~ (t > cut)
      BY <1>2
    <3> QED
      BY <1>10, <2>1, <3>1
  <2>3. \A t \in Tasks \ answered : result[t] = <<>>
    BY DEF IInv, Reading
  <2> QED
    BY <2>1, <2>2, <2>3
<1>12. Typed'
  <2>1. taskById' \in [Ids -> 0..Total]
    <3>1. \A id \in Ids :
            (IF id < size THEN cut + id + 1 ELSE taskById[id]) \in 0..Total
      <4> TAKE id \in Ids
      <4>1. id \in Nat /\ taskById[id] \in 0..Total
        BY <1>2, <1>4 DEF Typed
      <4> QED
        BY <1>2, <1>3, <1>4, <4>1
    <3> QED
      BY <1>1, <3>1 DEF Numbered
  <2>2. cut' \in 0..Total
    BY <1>1, <1>2, <1>3, <1>4
  <2>3. DOMAIN owed' \subseteq Ids
    BY <1>6, <1>8
  <2> QED
    BY <1>1, <1>2, <1>5, <2>1, <2>2, <2>3 DEF Typed, Ended
<1>13. Calling'
  <2>1. DOMAIN owed' # {}
    <3>1. 0 \in 0..(size - 1)
      BY <1>3, <1>4
    <3> QED
      BY <1>8, <3>1
  <2>2. ASSUME NEW id \in DOMAIN owed'
        PROVE  /\ taskById'[id] \in 1..cut'
               /\ owed'[id] \in Seq(Times)
               /\ result'[taskById'[id]] \o owed'[id] = Newest(data'[taskById'[id]])
    <3>1. taskById'[id] = cut + id + 1 /\ taskById'[id] \in Current'
      BY <1>7, <1>8, <1>9
    <3>2. owed'[id] = Newest(data[cut + id + 1])
      BY <1>1, <1>8
    <3>3. data[cut + id + 1] \in SUBSET Times
      BY <1>2, <1>6, <1>8 DEF Typed
    <3>4. owed'[id] \in Seq(Times)
      BY <3>2, <3>3, NewestFacts
    <3>5. result'[taskById'[id]] = <<>>
      BY <1>1, <1>11, <3>1
    <3>6. <<>> \o owed'[id] = owed'[id]
      BY <3>4, ConcatEmptySeq
    <3> QED
      BY <1>1, <1>6, <1>8, <3>1, <3>2, <3>4, <3>5, <3>6
  <2>3. \A i, j \in DOMAIN owed' : taskById'[i] = taskById'[j] => i = j
    <3>1. \A i, j \in 0..(size - 1) : cut + i + 1 = cut + j + 1 => i = j
      BY <1>2, <1>3
    <3> QED
      BY <1>7, <1>8, <3>1
  <2>4. batch' = answered' \cap Current'
    BY <1>1, <1>11
  <2> QED
    BY <1>1, <2>1, <2>2, <2>3, <2>4 DEF Calling
<1>14. Reading'
  <2>1. answered' \subseteq 1..cut'
    <3>1. cut' \in Nat /\ cut <= cut'
      BY <1>1, <1>2, <1>3
    <3>2. 1..cut \subseteq 1..cut'
      BY <1>2, <3>1
    <3> QED
      BY <1>1, <1>10, <3>2
  <2>2. ResultsAreTheirTasks' /\ \A t \in Tasks \ answered : result[t] = <<>>
    BY <1>1, <1>5 DEF IInv, Reading, ResultsAreTheirTasks
  <2>3. (1..cut') \ Current' \subseteq 1..cut
    <3> SUFFICES ASSUME NEW t \in 1..cut', t \notin Current' PROVE t \in 1..cut
      OBVIOUS
    <3>1. t \in Nat /\ t >= 1 /\ t <= cut + size
      BY <1>1, <1>2, <1>3
    <3>2. CASE t > cut
      <4>1. t - cut - 1 \in 0..(size - 1) /\ t = cut + (t - cut - 1) + 1
        BY <1>2, <1>3, <3>1, <3>2
      <4> QED
        BY <1>9, <4>1
    <3>3. CASE ~ (t > cut)
      BY <1>2, <3>1, <3>3
    <3> QED
      BY <3>2, <3>3
  <2>4. ~ unread => \A t \in (1..cut') \ Current' : result[t] = Newest(data[t])
    BY <1>9, <2>3 DEF IInv, Reading
  <2>5. reported = {t \in Tasks \ Current' : result[t] # <<>>}
    BY <1>9, <1>11 DEF IInv, Reading
  <2> QED
    BY <1>1, <1>5, <2>1, <2>2, <2>4, <2>5 DEF Reading
<1>15. Written'
  BY <1>1 DEF Written
<1> QED
  BY <1>12, <1>13, <1>14, <1>15 DEF IInv

(* What a task has and what it is owed, as the call stands.                *)
LEMMA CallFacts ==
  ASSUME IInv, Open
  PROVE  /\ Current = {taskById[id] : id \in DOMAIN owed}
         /\ \A id \in DOMAIN owed :
              /\ taskById[id] \in Tasks /\ taskById[id] \in 1..cut
              /\ result[taskById[id]] \in Seq(Times) /\ owed[id] \in Seq(Times)
              /\ result[taskById[id]] \o owed[id] = Newest(data[taskById[id]])
<1>1. Total \in Nat /\ Tasks = 1..Total /\ cut \in Nat /\ cut <= Total
  BY TotalType DEF IInv
<1>2. 1..cut \subseteq Tasks
  BY <1>1
<1>3. \A id \in DOMAIN owed :
        /\ taskById[id] \in 1..cut /\ owed[id] \in Seq(Times)
        /\ result[taskById[id]] \o owed[id] = Newest(data[taskById[id]])
  BY DEF IInv, Calling
<1>4. \A t \in Tasks : result[t] \in Seq(Times)
  BY DEF IInv, Typed
<1> QED
  BY <1>2, <1>3, <1>4 DEF Current

(* A page moves datapoints from what is owed to the results of its tasks.  *)
LEMMA PageStep ==
  ASSUME IInv, NEW named \in SUBSET DOMAIN owed,
         NEW page \in [named -> 0..Cardinality(Times)],
         NEW last \in BOOLEAN, NEW found \in BOOLEAN, Page(page, last, found)
  PROVE  IInv'
<1> DEFINE tb(id) == taskById[id]
           news(id) == SubSeq(owed[id], 1, page[id])
           rest(id) == SubSeq(owed[id], page[id] + 1, Len(owed[id]))
           Named == {taskById[id] : id \in named}
<1>1. DOMAIN page = named /\ Cardinality(Times) \in Nat
  BY TimesAssumption, FS_CardinalityType
<1>2. /\ phase = "paging" /\ Open /\ phase' \in {"paging", "yielding"} /\ Open'
      /\ phase' = IF ~ last /\ found THEN "paging" ELSE "yielding"
      /\ unread' = (unread \/ (~ last /\ ~ found))
  BY DEF Page, Open
<1>3. UNCHANGED <<tasks, data, cut, taskById, reported, messages>>
  BY DEF Page
<1>4. /\ answered' = answered \cup Named
      /\ batch' = batch \cup (Named \ answered)
  BY <1>1 DEF Page
<1>5. \A id \in named : page[id] \in 0..Len(owed[id])
  <2> SUFFICES ASSUME NEW id \in named PROVE page[id] \in 0..Len(owed[id])
    OBVIOUS
  <2>1. owed[id] \in Seq(Times) /\ page[id] \in 0..Cardinality(Times)
    BY <1>2, CallFacts
  <2>2. page[id] <= Len(owed[id])
    BY <1>1 DEF Page
  <2>3. Len(owed[id]) \in Nat
    BY <2>1, LenProperties
  <2> QED
    BY <1>1, <2>1, <2>2, <2>3
<1>6. /\ DOMAIN owed' = DOMAIN owed
      /\ \A id \in DOMAIN owed : owed'[id] = IF id \in named THEN rest(id) ELSE owed[id]
      /\ last => \A id \in DOMAIN owed : owed'[id] = <<>>
  <2>1. owed' = [id \in DOMAIN owed |-> IF id \in DOMAIN page THEN rest(id) ELSE owed[id]]
    BY DEF Page
  <2>2. last => \A id \in DOMAIN owed : owed'[id] = <<>>
    BY DEF Page
  <2> HIDE DEF rest
  <2> QED
    BY <1>1, <2>1, <2>2
<1>7. Current' = Current
  BY <1>2, <1>3, <1>6 DEF Current
<1>8. Total' = Total /\ Tasks' = Tasks
  BY <1>3 DEF Total, Tasks
<1>9. /\ \A t \in Tasks \ Named : result'[t] = result[t]
      /\ \A id \in named : result'[tb(id)] = result[tb(id)] \o news(id)
      /\ DOMAIN result' = Tasks
  <2>1. result' = [t \in Tasks |-> Extended(page, t)]
    BY DEF Page
  <2>2. ASSUME NEW t \in Tasks, t \notin Named
        PROVE  result'[t] = result[t]
    <3>1. {id \in DOMAIN page : taskById[id] = t} = {}
      BY <1>1, <2>2
    <3> QED
      BY <2>1, <3>1 DEF Extended
  <2>3. ASSUME NEW id \in named
        PROVE  result'[tb(id)] = result[tb(id)] \o news(id)
    <3> DEFINE ids == {i \in DOMAIN page : taskById[i] = tb(id)}
    <3>1. ids = {id}
      <4>1. \A i, j \in DOMAIN owed : taskById[i] = taskById[j] => i = j
        BY <1>2 DEF IInv, Calling
      <4> QED
        BY <1>1, <4>1
    <3>2. tb(id) \in Tasks
      BY <1>2, CallFacts
    <3>3. Extended(page, tb(id)) =
            IF ids = {} THEN result[tb(id)]
            ELSE result[tb(id)] \o News(page, CHOOSE i \in ids : TRUE)
      BY DEF Extended
    <3> HIDE DEF ids
    <3>4. (CHOOSE i \in ids : TRUE) = id
      BY <3>1
    <3>5. Extended(page, tb(id)) = result[tb(id)] \o News(page, id)
      BY <3>1, <3>3, <3>4
    <3> QED
      BY <2>1, <3>2, <3>5 DEF News
  <2> QED
    BY <2>1, <2>2, <2>3
<1> HIDE DEF news, rest
<1>10. ASSUME NEW id \in named
       PROVE  /\ result'[tb(id)] \in Seq(Times) /\ owed'[id] \in Seq(Times)
              /\ result'[tb(id)] \o owed'[id] = Newest(data[tb(id)])
  <2>1. /\ tb(id) \in Tasks /\ result[tb(id)] \in Seq(Times) /\ owed[id] \in Seq(Times)
        /\ result[tb(id)] \o owed[id] = Newest(data[tb(id)])
    BY <1>2, CallFacts
  <2>2. /\ result[tb(id)] \o news(id) \in Seq(Times) /\ rest(id) \in Seq(Times)
        /\ (result[tb(id)] \o news(id)) \o rest(id) = result[tb(id)] \o owed[id]
    BY <1>5, <2>1, Moved DEF news, rest
  <2>3. result'[tb(id)] = result[tb(id)] \o news(id) /\ owed'[id] = rest(id)
    BY <1>6, <1>9
  <2> QED
    BY <2>1, <2>2, <2>3
<1>11. ASSUME NEW id \in DOMAIN owed, id \notin named
       PROVE  result'[tb(id)] = result[tb(id)] /\ owed'[id] = owed[id]
  <2>1. tb(id) \in Tasks
    BY <1>2, CallFacts
  <2>2. tb(id) \notin Named
    <3>1. \A i, j \in DOMAIN owed : taskById[i] = taskById[j] => i = j
      BY <1>2 DEF IInv, Calling
    <3> QED
      BY <1>11, <3>1
  <2> QED
    BY <1>6, <1>9, <1>11, <2>1, <2>2
<1>12. \A id \in DOMAIN owed :
         /\ result'[tb(id)] \in Seq(Times) /\ owed'[id] \in Seq(Times)
         /\ result'[tb(id)] \o owed'[id] = Newest(data[tb(id)])
  <2> SUFFICES ASSUME NEW id \in DOMAIN owed
               PROVE  /\ result'[tb(id)] \in Seq(Times) /\ owed'[id] \in Seq(Times)
                      /\ result'[tb(id)] \o owed'[id] = Newest(data[tb(id)])
    OBVIOUS
  <2>1. CASE id \in named
    BY <1>10, <2>1
  <2>2. CASE id \notin named
    <3>1. result'[tb(id)] = result[tb(id)] /\ owed'[id] = owed[id]
      BY <1>11, <2>2
    <3>2. /\ result[tb(id)] \in Seq(Times) /\ owed[id] \in Seq(Times)
          /\ result[tb(id)] \o owed[id] = Newest(data[tb(id)])
      BY <1>2, CallFacts
    <3> QED
      BY <3>1, <3>2
  <2> QED
    BY <2>1, <2>2
<1>13. /\ Current = {taskById[id] : id \in DOMAIN owed} /\ Current \subseteq 1..cut
       /\ Current \subseteq Tasks /\ Named \subseteq Current
  BY <1>2, CallFacts
<1>14. \A t \in Tasks \ Current : result'[t] = result[t]
  BY <1>9, <1>13
<1>15. Typed'
  <2>1. result' \in [Tasks -> Seq(Times)]
    <3>1. ASSUME NEW t \in Tasks PROVE result'[t] \in Seq(Times)
      <4>1. CASE t \in Current
        BY <1>12, <1>13, <4>1
      <4>2. CASE t \notin Current
        BY <1>14, <4>2 DEF IInv, Typed
      <4> QED
        BY <4>1, <4>2
    <3>2. result' = [t \in Tasks |-> Extended(page, t)]
      BY DEF Page
    <3>3. result' = [t \in Tasks |-> result'[t]]
      BY <3>2
    <3> QED
      BY <3>1, <3>3
  <2>2. batch' \subseteq answered'
    BY <1>4 DEF IInv, Typed
  <2>3. ~ Ended'
    BY <1>2 DEF Ended
  <2>4. unread' \in BOOLEAN
    BY <1>2
  <2>5. /\ tasks' \in TaskLists /\ data' \in [Tasks' -> SUBSET Times]
        /\ cut' \in 0..Total' /\ taskById' \in [Ids -> 0..Total']
        /\ DOMAIN owed' \subseteq Ids
    BY <1>3, <1>6, <1>8 DEF IInv, Typed
  <2> QED
    BY <1>2, <1>8, <2>1, <2>2, <2>3, <2>4, <2>5 DEF Typed
<1>16. Calling'
  <2>1. /\ DOMAIN owed # {} /\ batch = answered \cap Current
        /\ \A i, j \in DOMAIN owed : taskById[i] = taskById[j] => i = j
    BY <1>2 DEF IInv, Calling
  <2>2. batch' = answered' \cap Current'
    BY <1>4, <1>7, <1>13, <2>1
  <2>3. phase' = "yielding" /\ ~ unread' => \A id \in DOMAIN owed' : owed'[id] = <<>>
    BY <1>2, <1>6
  <2>4. \A id \in DOMAIN owed : taskById[id] \in 1..cut
    BY <1>2, CallFacts
  <2>5. \A id \in DOMAIN owed' :
          /\ taskById'[id] \in 1..cut'
          /\ owed'[id] \in Seq(Times)
          /\ result'[taskById'[id]] \o owed'[id] = Newest(data'[taskById'[id]])
    BY <1>3, <1>6, <1>12, <2>4
  <2> QED
    BY <1>3, <1>6, <2>1, <2>2, <2>3, <2>5 DEF Calling
<1>17. Reading'
  <2>1. answered' \subseteq 1..cut'
    BY <1>3, <1>4, <1>13 DEF IInv, Reading
  <2>2. ResultsAreTheirTasks'
    <3> SUFFICES ASSUME NEW t \in Tasks PROVE IsPrefix(result'[t], Newest(data[t]))
      BY <1>3, <1>8 DEF ResultsAreTheirTasks
    <3>1. CASE t \in Current
      <4>1. PICK id \in DOMAIN owed : t = taskById[id]
        BY <1>13, <3>1
      <4>2. /\ result'[t] \in Seq(Times) /\ owed'[id] \in Seq(Times)
            /\ result'[t] \o owed'[id] = Newest(data[t])
        BY <1>12, <4>1
      <4>3. IsPrefix(result'[t], result'[t] \o owed'[id])
        BY <4>2, FirstPart
      <4> QED
        BY <4>2, <4>3
    <3>2. CASE t \notin Current
      <4>1. IsPrefix(result[t], Newest(data[t]))
        BY DEF IInv, Reading, ResultsAreTheirTasks
      <4> QED
        BY <1>14, <3>2, <4>1
    <3> QED
      BY <3>1, <3>2
  <2>3. \A t \in Tasks \ answered' : result'[t] = <<>>
    BY <1>4, <1>9 DEF IInv, Reading
  <2>4. ~ unread' => \A t \in (1..cut) \ Current : result'[t] = Newest(data[t])
    <3>1. 1..cut \subseteq Tasks
      <4>1. Total \in Nat /\ Tasks = 1..Total /\ cut \in Nat /\ cut <= Total
        BY TotalType DEF IInv
      <4> QED
        BY <4>1
    <3>2. ~ unread => \A t \in (1..cut) \ Current : result[t] = Newest(data[t])
      BY DEF IInv, Reading
    <3> QED
      BY <1>2, <1>14, <3>1, <3>2
  <2>5. reported = {t \in Tasks \ Current : result'[t] # <<>>}
    BY <1>14 DEF IInv, Reading
  <2> QED
    BY <1>3, <1>7, <1>8, <2>1, <2>2, <2>3, <2>4, <2>5 DEF Reading
<1>18. Written'
  BY <1>2 DEF Written
<1> QED
  BY <1>15, <1>16, <1>17, <1>18 DEF IInv

(* A call that is over has delivered all, unless a page was left unread.   *)
LEMMA YieldStep ==
  ASSUME IInv, Yield
  PROVE  IInv'
<1>1. /\ phase = "yielding" /\ Open /\ phase' = "batching" /\ ~ Open'
      /\ reported' = reported \cup {t \in batch : result[t] # <<>>}
      /\ UNCHANGED <<tasks, data, cut, taskById, owed, answered, batch, result,
                     messages, unread>>
  BY DEF Yield, Open
<1>2. Current' = {}
  BY <1>1 DEF Current
<1>3. Total' = Total /\ Tasks' = Tasks
  BY <1>1 DEF Total, Tasks
<1>4. /\ Current = {taskById[id] : id \in DOMAIN owed} /\ Current \subseteq Tasks
  BY <1>1, CallFacts
<1>5. Typed'
  BY <1>1, <1>3 DEF IInv, Typed, Ended
<1>6. Calling' /\ Written'
  BY <1>1 DEF Calling, Written
<1>7. Reading'
  <2>1. answered' \subseteq 1..cut' /\ ResultsAreTheirTasks'
        /\ \A t \in Tasks \ answered : result[t] = <<>>
    BY <1>1, <1>3 DEF IInv, Reading, ResultsAreTheirTasks
  <2>2. ASSUME ~ unread, NEW t \in 1..cut
        PROVE  result[t] = Newest(data[t])
    <3>1. CASE t \in Current
      <4>1. PICK id \in DOMAIN owed : t = taskById[id]
        BY <1>4, <3>1
      <4>2. owed[id] = <<>>
        BY <1>1, <2>2 DEF IInv, Calling
      <4>3. result[t] \in Seq(Times) /\ result[t] \o owed[id] = Newest(data[t])
        BY <1>1, <4>1, CallFacts
      <4>4. result[t] \o <<>> = result[t]
        BY <4>3, ConcatEmptySeq
      <4> QED
        BY <4>2, <4>3, <4>4
    <3>2. CASE t \notin Current
      BY <2>2, <3>2 DEF IInv, Reading
    <3> QED
      BY <3>1, <3>2
  <2>3. reported' = {t \in Tasks : result[t] # <<>>}
    <3>1. reported = {t \in Tasks \ Current : result[t] # <<>>}
      BY DEF IInv, Reading
    <3>2. batch = answered \cap Current
      BY <1>1 DEF IInv, Calling
    <3>3. {t \in batch : result[t] # <<>>} = {t \in Current : result[t] # <<>>}
      BY <1>4, <2>1, <3>2
    <3> QED
      BY <1>1, <1>4, <3>1, <3>3
  <2> QED
    BY <1>1, <1>2, <1>3, <2>1, <2>2, <2>3 DEF Reading
<1> QED
  BY <1>5, <1>6, <1>7 DEF IInv

(* Emitting changes nothing that was read.                                 *)
LEMMA ReadKept ==
  ASSUME IInv, Open' = Open, phase' = "yielding" => phase = "yielding",
         UNCHANGED <<tasks, data, cut, taskById, owed, answered, batch, result, reported, unread>>
  PROVE  Calling' /\ Reading' /\ Total' = Total /\ Tasks' = Tasks
<1>1. Current' = Current
  BY DEF Current
<1>2. Total' = Total /\ Tasks' = Tasks
  BY DEF Total, Tasks
<1>3. Calling'
  BY <1>1 DEF IInv, Calling
<1>4. Reading'
  BY <1>1, <1>2 DEF IInv, Reading, ResultsAreTheirTasks
<1> QED
  BY <1>2, <1>3, <1>4

LEMMA GroupsKept ==
  ASSUME UNCHANGED <<tasks, result, reported>>
  PROVE  Signatures' = Signatures /\ \A s : Group(s)' = Group(s)
BY DEF Signatures, Group, Task

LEMMA EmitStep ==
  ASSUME IInv, Emit
  PROVE  IInv'
<1>1. /\ phase = "batching" /\ cut = Total /\ ~ Open /\ ~ Open'
      /\ phase' \in {"raised", "emitted"}
      /\ UNCHANGED <<tasks, data, cut, taskById, owed, answered, batch, result,
                     reported, unread>>
  BY DEF Emit, Open
<1>2. Calling' /\ Reading' /\ Total' = Total /\ Tasks' = Tasks
  <2>1. Open' = Open /\ phase' # "yielding"
    BY <1>1 DEF Open
  <2> QED
    BY <1>1, <2>1, ReadKept
<1>3. Typed'
  BY <1>1, <1>2 DEF IInv, Typed
<1>4. Signatures' = Signatures /\ \A s : Group(s)' = Group(s)
  BY <1>1, GroupsKept
<1>5. Written'
  <2>1. CASE \E s \in Signatures : DuplicateStat(Group(s))
    <3>1. phase' = "raised"
      BY <2>1 DEF Emit
    <3>2. PICK s \in Signatures : DuplicateStat(Group(s))
      BY <2>1
    <3>3. DuplicateStat(Group(s))'
      BY <1>4, <3>2 DEF DuplicateStat
    <3> QED
      BY <1>4, <3>1, <3>3 DEF Written
  <2>2. CASE ~ \E s \in Signatures : DuplicateStat(Group(s))
    <3>1. /\ phase' = "emitted"
          /\ messages' = {[sig |-> s, message |-> Message(Group(s))] : s \in Signatures}
      BY <2>2 DEF Emit
    <3>2. \A s : Message(Group(s))' = Message(Group(s))
      BY <1>4
    <3>3. \A s \in Signatures : ~ DuplicateStat(Group(s))'
      BY <1>4, <2>2 DEF DuplicateStat
    <3> QED
      BY <1>4, <3>1, <3>2, <3>3 DEF Written
  <2> QED
    BY <2>1, <2>2
<1> QED
  BY <1>2, <1>3, <1>5 DEF IInv

(* Every step keeps the invariant.                                         *)
LEMMA StepIInv == IInv /\ [Next]_vars => IInv'
<1> SUFFICES ASSUME IInv, [Next]_vars PROVE IInv'
  OBVIOUS
<1>1. CASE NextCall
  BY <1>1, NextCallStep
<1>2. CASE AnyPage
  <2>1. PICK named \in SUBSET DOMAIN owed, last \in BOOLEAN, found \in BOOLEAN :
          \E page \in [named -> 0..Cardinality(Times)] : Page(page, last, found)
    BY <1>2 DEF AnyPage
  <2>2. PICK page \in [named -> 0..Cardinality(Times)] : Page(page, last, found)
    BY <2>1
  <2> QED
    BY <2>2, PageStep
<1>3. CASE Yield
  BY <1>3, YieldStep
<1>4. CASE Emit
  BY <1>4, EmitStep
<1>5. CASE UNCHANGED vars
  <2>1. UNCHANGED <<tasks, data, cut, taskById, owed, answered, batch, result, reported,
                    phase, messages, unread>>
    BY <1>5 DEF vars
  <2>2. Calling' /\ Reading' /\ Total' = Total /\ Tasks' = Tasks
    BY <2>1, ReadKept DEF Open
  <2>3. Typed'
    BY <2>1, <2>2 DEF IInv, Typed, Ended
  <2>4. Written'
    <3>1. Signatures' = Signatures /\ \A s : Group(s)' = Group(s)
      BY <2>1, GroupsKept
    <3>2. \A s : /\ Message(Group(s))' = Message(Group(s))
                 /\ DuplicateStat(Group(s))' = DuplicateStat(Group(s))
      BY <3>1
    <3> QED
      BY <2>1, <3>1, <3>2 DEF IInv, Written
  <2> QED
    BY <2>2, <2>3, <2>4 DEF IInv
<1> QED
  BY <1>1, <1>2, <1>3, <1>4, <1>5 DEF Next

-----------------------------------------------------------------------------
LEMMA TypedFromInv == IInv => TypeOK
<1> SUFFICES ASSUME IInv PROVE TypeOK
  OBVIOUS
<1>1. Total \in Nat /\ Tasks = 1..Total /\ cut \in Nat /\ cut <= Total
  BY TotalType DEF IInv
<1>2. answered \subseteq Tasks
  <2>1. 1..cut \subseteq Tasks
    BY <1>1
  <2> QED
    BY <2>1 DEF IInv, Reading
<1>3. reported \subseteq answered
  BY DEF IInv, Reading
<1>4. \A t \in Tasks : ToSet(result[t]) \subseteq Times
  <2> SUFFICES ASSUME NEW t \in Tasks PROVE ToSet(result[t]) \subseteq Times
    OBVIOUS
  <2>1. result[t] \in Seq(Times)
    BY DEF IInv, Typed
  <2>2. DOMAIN result[t] = 1..Len(result[t]) /\ \A n \in 1..Len(result[t]) : result[t][n] \in Times
    BY <2>1, LenProperties, ElementOfSeq
  <2> QED
    BY <2>2 DEF ToSet
<1>5. phase = "paging" => DOMAIN owed # {}
  BY DEF IInv, Calling, Open
<1> QED
  BY <1>2, <1>3, <1>4, <1>5 DEF IInv, Typed, TypeOK

(* What was read when a batch is over and no page was left unread.         *)
LEMMA AllRead ==
  ASSUME IInv, Ended, ~ unread
  PROVE  /\ \A t \in Tasks : data[t] \in SUBSET Times /\ result[t] = Newest(data[t])
         /\ reported = {t \in Tasks : data[t] # {}}
         /\ Signatures = {tasks[t].sig : t \in {u \in Tasks : data[u] # {}}}
         /\ \A s : DOMAIN Group(s) = {t \in Tasks : tasks[t].sig = s /\ data[t] # {}}
         /\ \A s : \A t \in DOMAIN Group(s) :
              /\ Group(s)[t].statistic = tasks[t].statistic /\ Group(s)[t].stamped = tasks[t].stamped
              /\ Group(s)[t].times = Newest(data[t])
<1>1. cut = Total /\ Current = {} /\ Tasks = 1..Total
  BY DEF IInv, Typed, Ended, Current, Open, Tasks
<1>2. \A t \in Tasks : data[t] \in SUBSET Times /\ result[t] = Newest(data[t])
  BY <1>1 DEF IInv, Reading, Typed
<1>3. \A t \in Tasks : result[t] # <<>> <=> data[t] # {}
  BY <1>2, NewestFacts
<1>4. reported = {t \in Tasks : data[t] # {}}
  BY <1>1, <1>3 DEF IInv, Reading
<1>5. Signatures = {tasks[t].sig : t \in {u \in Tasks : data[u] # {}}}
  BY <1>4 DEF Signatures
<1>6. \A s : DOMAIN Group(s) = {t \in Tasks : tasks[t].sig = s /\ data[t] # {}}
  BY <1>4 DEF Group
<1>7. \A s : \A t \in DOMAIN Group(s) :
        /\ Group(s)[t].statistic = tasks[t].statistic /\ Group(s)[t].stamped = tasks[t].stamped
        /\ Group(s)[t].times = Newest(data[t])
  <2> SUFFICES ASSUME NEW s, NEW t \in DOMAIN Group(s)
               PROVE  /\ Group(s)[t].statistic = tasks[t].statistic
                      /\ Group(s)[t].stamped = tasks[t].stamped
                      /\ Group(s)[t].times = Newest(data[t])
    OBVIOUS
  <2>1. Group(s)[t] = Task(t) /\ t \in Tasks
    BY <1>6 DEF Group
  <2>2. /\ Task(t).statistic = tasks[t].statistic /\ Task(t).stamped = tasks[t].stamped
        /\ Task(t).times = result[t]
    BY DEF Task
  <2> QED
    BY <1>2, <2>1, <2>2
<1> QED
  BY <1>2, <1>4, <1>5, <1>6, <1>7

(* The same of one task of a group.                                        *)
LEMMA GroupRead ==
  ASSUME IInv, Ended, ~ unread, NEW s, NEW t \in DOMAIN Group(s)
  PROVE  /\ t \in Tasks /\ tasks[t].sig = s
         /\ data[t] # {} /\ data[t] \in SUBSET Times
         /\ Group(s)[t].statistic = tasks[t].statistic /\ Group(s)[t].stamped = tasks[t].stamped
         /\ Group(s)[t].times = Newest(data[t])
<1>1. DOMAIN Group(s) = {u \in Tasks : tasks[u].sig = s /\ data[u] # {}}
  BY AllRead
<1>2. t \in Tasks /\ tasks[t].sig = s /\ data[t] # {}
  BY <1>1
<1>3. data[t] \in SUBSET Times
  BY <1>2, AllRead
<1>4. \A u \in DOMAIN Group(s) :
        /\ Group(s)[u].statistic = tasks[u].statistic /\ Group(s)[u].stamped = tasks[u].stamped
        /\ Group(s)[u].times = Newest(data[u])
  BY AllRead
<1> QED
  BY <1>2, <1>3, <1>4

LEMMA RaisesFromInv == IInv => RaisesOnDuplicates
<1> SUFFICES ASSUME IInv, Ended, ~ unread
             PROVE  phase = "raised" <=>
                      \E t, u \in Tasks : /\ t # u /\ tasks[t].sig = tasks[u].sig
                                          /\ NameOf(t) = NameOf(u)
                                          /\ data[t] # {} /\ data[u] # {}
  BY DEF RaisesOnDuplicates
<1>1. phase = "raised" <=> \E s \in Signatures : DuplicateStat(Group(s))
  BY DEF IInv, Written, Ended
<1>2. ASSUME NEW s \in Signatures, DuplicateStat(Group(s))
      PROVE  \E t, u \in Tasks : /\ t # u /\ tasks[t].sig = tasks[u].sig
                                 /\ NameOf(t) = NameOf(u)
                                 /\ data[t] # {} /\ data[u] # {}
  <2>1. PICK t, u \in DOMAIN Group(s) : t # u /\ Name(Group(s), t) = Name(Group(s), u)
    BY <1>2 DEF DuplicateStat
  <2>2. /\ t \in Tasks /\ u \in Tasks /\ data[t] # {} /\ data[u] # {}
        /\ tasks[t].sig = s /\ tasks[u].sig = s
        /\ NameOf(t) = NameOf(u)
    <3>1. /\ t \in Tasks /\ tasks[t].sig = s /\ data[t] # {}
          /\ Group(s)[t].statistic = tasks[t].statistic
      BY GroupRead
    <3>2. /\ u \in Tasks /\ tasks[u].sig = s /\ data[u] # {}
          /\ Group(s)[u].statistic = tasks[u].statistic
      BY GroupRead
    <3> QED
      BY <2>1, <3>1, <3>2 DEF Name, NameOf
  <2> QED
    BY <2>1, <2>2
<1>3. ASSUME NEW t \in Tasks, NEW u \in Tasks, t # u, tasks[t].sig = tasks[u].sig,
             NameOf(t) = NameOf(u), data[t] # {}, data[u] # {}
      PROVE  \E s \in Signatures : DuplicateStat(Group(s))
  <2> DEFINE s == tasks[t].sig
  <2>1. s \in Signatures /\ t \in DOMAIN Group(s) /\ u \in DOMAIN Group(s)
    BY <1>3, AllRead
  <2>2. Group(s)[t].statistic = tasks[t].statistic /\ Group(s)[u].statistic = tasks[u].statistic
    BY <2>1, AllRead
  <2>3. DuplicateStat(Group(s))
    BY <1>3, <2>1, <2>2 DEF DuplicateStat, Name, NameOf
  <2> QED
    BY <2>1, <2>3
<1> QED
  BY <1>1, <1>2, <1>3

(* The time of a message is the newest of its stamped tasks' datapoints.   *)
LEMMA NewestTime ==
  ASSUME IInv, Ended, ~ unread, NEW s
  PROVE  Message(Group(s)).timestamp =
           Max({0} \cup UNION {data[t] : t \in {u \in Tasks : /\ tasks[u].sig = s
                                                            /\ data[u] # {}
                                                            /\ tasks[u].stamped}})
<1> DEFINE Has    == {u \in Tasks : tasks[u].sig = s /\ data[u] # {} /\ tasks[u].stamped}
           Latest == UNION {data[t] : t \in Has}
           B == {0} \cup Latest
<1>2. \A t \in Has : data[t] \in SUBSET Times
  BY AllRead
<1>3. B \in SUBSET Nat /\ IsFiniteSet(B) /\ B # {}
  <2>1. Latest \in SUBSET Times
    BY <1>2
  <2>2. IsFiniteSet(Latest)
    <3> HIDE DEF Latest
    <3> QED
      BY <2>1, TimesAssumption, FS_Subset
  <2>3. IsFiniteSet({0} \cup Latest)
    <3> HIDE DEF Latest
    <3> QED
      BY <2>2, FS_AddElement
  <2>4. B \in SUBSET Nat
    <3> HIDE DEF Latest
    <3> QED
      BY <2>1, TimesAssumption
  <2> QED
    BY <2>3, <2>4
<1>4. ASSUME NEW t \in DOMAIN Group(s)
      PROVE  /\ t \in Tasks /\ tasks[t].sig = s /\ data[t] # {}
             /\ tasks[t].stamped => /\ GetTimestamp(Group(s)[t]) \in data[t]
                                   /\ \A x \in data[t] : x <= GetTimestamp(Group(s)[t])
             /\ ~ tasks[t].stamped => GetTimestamp(Group(s)[t]) = 0
  <2>1. /\ t \in Tasks /\ tasks[t].sig = s /\ data[t] # {} /\ data[t] \in SUBSET Times
        /\ Group(s)[t].stamped = tasks[t].stamped /\ Group(s)[t].times = Newest(data[t])
    BY GroupRead
  <2>2. Newest(data[t]) # <<>>
    BY <2>1, NewestFacts
  <2>3. Newest(data[t])[1] \in data[t] /\ \A x \in data[t] : x <= Newest(data[t])[1]
    BY <2>1, NewestFacts
  <2>4. GetTimestamp(Group(s)[t]) = IF tasks[t].stamped THEN Newest(data[t])[1] ELSE 0
    BY <2>1, <2>2 DEF GetTimestamp
  <2> QED
    BY <2>1, <2>3, <2>4
<1>5. ASSUME NEW t \in DOMAIN Group(s) PROVE GetTimestamp(Group(s)[t]) \in B
  <2>1. CASE tasks[t].stamped
    <3>1. t \in Has /\ GetTimestamp(Group(s)[t]) \in data[t]
      BY <1>4, <2>1
    <3> QED
      BY <3>1
  <2>2. CASE ~ tasks[t].stamped
    BY <1>4, <2>2
  <2> QED
    BY <2>1, <2>2
<1>6. ASSUME NEW b \in B \ {0}
      PROVE  \E t \in DOMAIN Group(s) : b <= GetTimestamp(Group(s)[t])
  <2>1. PICK t \in Has : b \in data[t]
    OBVIOUS
  <2>2. t \in DOMAIN Group(s)
    BY AllRead
  <2> QED
    BY <1>4, <2>1, <2>2
<1> HIDE DEF Has, Latest
<1>7. 0 \in B
  OBVIOUS
<1>8. Message(Group(s)).timestamp = Max(B)
  <2> HIDE DEF B
  <2> QED
    BY <1>3, <1>5, <1>6, <1>7, MessageTime
<1> QED
  BY <1>8 DEF Has, Latest

(* The datapoints a statistic is computed from: of one that does not add   *)
(* up, the newest.                                                         *)
UsedBy(t) == IF tasks[t].statistic \in Aggregated THEN data[t] ELSE {Max(data[t])}

(* The value of a name is that of its only task.                           *)
LEMMA OwnValues ==
  ASSUME IInv, Ended, ~ unread, NEW s, ~ DuplicateStat(Group(s))
  PROVE  /\ DOMAIN Message(Group(s)).values = {NameOf(t) : t \in DOMAIN Group(s)}
         /\ \A t \in DOMAIN Group(s) :
              Message(Group(s)).values[NameOf(t)].points = UsedBy(t)
<1>1. ASSUME NEW t \in DOMAIN Group(s)
      PROVE  /\ Group(s)[t].statistic = tasks[t].statistic
             /\ Group(s)[t].times = Newest(data[t])
             /\ data[t] \in SUBSET Times /\ data[t] # {}
             /\ Name(Group(s), t) = NameOf(t)
  BY GroupRead DEF Name, NameOf
<1>2. ASSUME NEW t \in DOMAIN Group(s)
      PROVE  Message(Group(s)).values[NameOf(t)].points = UsedBy(t)
  <2>1. Message(Group(s)).values[NameOf(t)] = GetValue(Group(s)[t])
    BY <1>1, OwnValue
  <2>2. GetValue(Group(s)[t]).points =
          IF tasks[t].statistic \in Aggregated
          THEN ToSet(Newest(data[t])) ELSE {Newest(data[t])[1]}
    <3>1. Newest(data[t]) # <<>>
      BY <1>1, NewestFacts
    <3> QED
      BY <1>1, <3>1 DEF GetValue
  <2>3. ToSet(Newest(data[t])) = data[t]
    BY <1>1, NewestFacts
  <2>4. Newest(data[t])[1] = Max(data[t])
    <3>1. Newest(data[t])[1] \in data[t] /\ \A x \in data[t] : x <= Newest(data[t])[1]
      BY <1>1, NewestFacts
    <3>2. data[t] \in SUBSET Nat
      BY <1>1, TimesAssumption
    <3> QED
      BY <3>1, <3>2, LargestIsMax
  <2> QED
    BY <2>1, <2>2, <2>3, <2>4 DEF UsedBy
<1>3. DOMAIN Message(Group(s)).values = {NameOf(t) : t \in DOMAIN Group(s)}
  BY <1>1, OwnValue
<1> QED
  BY <1>2, <1>3

LEMMA ExactFromInv == IInv => MessagesAreExact
<1> SUFFICES ASSUME IInv, phase = "emitted", ~ unread PROVE MessagesAreExact
  BY DEF MessagesAreExact
<1> DEFINE Has(s) == {t \in Tasks : tasks[t].sig = s /\ data[t] # {}}
           Sigs == {tasks[t].sig : t \in {u \in Tasks : data[u] # {}}}
           Latest(s) == UNION {data[t] : t \in {u \in Has(s) : tasks[u].stamped}}
<1>1. Ended
  BY DEF Ended
<1>2. /\ messages = {[sig |-> s, message |-> Message(Group(s))] : s \in Signatures}
      /\ \A s \in Signatures : ~ DuplicateStat(Group(s))
  BY DEF IInv, Written
<1>3. Signatures = Sigs /\ \A s : DOMAIN Group(s) = Has(s)
  BY <1>1, AllRead
<1>4. ASSUME NEW s \in Signatures
      PROVE  /\ DOMAIN Message(Group(s)).values = {NameOf(t) : t \in Has(s)}
             /\ \A t \in Has(s) :
                  Message(Group(s)).values[NameOf(t)].points = UsedBy(t)
             /\ Message(Group(s)).timestamp = Max({0} \cup Latest(s))
  <2>1. Latest(s) = UNION {data[t] : t \in {u \in Tasks : /\ tasks[u].sig = s
                                                         /\ data[u] # {}
                                                         /\ tasks[u].stamped}}
    OBVIOUS
  <2>2. Message(Group(s)).timestamp = Max({0} \cup Latest(s))
    BY <1>1, <2>1, NewestTime
  <2>3. ~ DuplicateStat(Group(s))
    BY <1>2
  <2>4. DOMAIN Group(s) = Has(s)
    <3> HIDE DEF Has
    <3> QED
      BY <1>3
  <2> HIDE DEF Has, Latest
  <2>5. DOMAIN Message(Group(s)).values = {NameOf(t) : t \in DOMAIN Group(s)}
    BY <1>1, <2>3, OwnValues
  <2>6. \A t \in DOMAIN Group(s) :
          Message(Group(s)).values[NameOf(t)].points = UsedBy(t)
    BY <1>1, <2>3, OwnValues
  <2> QED
    BY <2>2, <2>4, <2>5, <2>6
<1> HIDE DEF Has, Sigs, Latest
<1>5. {m.sig : m \in messages} = Sigs
  <2> DEFINE M(s) == [sig |-> s, message |-> Message(Group(s))]
  <2>1. messages = {M(s) : s \in Signatures}
    BY <1>2
  <2>2. \A s : M(s).sig = s
    OBVIOUS
  <2> HIDE DEF M
  <2>3. {m.sig : m \in messages} = Signatures
    BY <2>1, <2>2
  <2> QED
    BY <1>3, <2>3
<1>6. \A m, n \in messages : m.sig = n.sig => m = n
  BY <1>2
<1>7. ASSUME NEW m \in messages
      PROVE  /\ DOMAIN m.message.values = {NameOf(t) : t \in Has(m.sig)}
             /\ \A t \in Has(m.sig) :
                  m.message.values[NameOf(t)].points = UsedBy(t)
             /\ m.message.timestamp = Max({0} \cup Latest(m.sig))
  <2>1. PICK s \in Signatures : m = [sig |-> s, message |-> Message(Group(s))]
    BY <1>2
  <2>2. m.sig = s /\ m.message = Message(Group(s))
    BY <2>1
  <2> QED
    BY <1>4, <2>2
<1> QED
  BY <1>5, <1>6, <1>7, Zenon DEF MessagesAreExact, Has, Sigs, Latest, UsedBy

-----------------------------------------------------------------------------
(* The inductive invariant of a batch.                                     *)
THEOREM Batching == Spec => []IInv
<1>1. Init => IInv
  BY InitIInv
<1>2. IInv /\ [Next]_vars => IInv'
  BY StepIInv
<1> QED
  BY <1>1, <1>2, PTL DEF Spec

(* Every variable has its type; no id is out of range.                     *)
THEOREM TypeCorrect == Spec => []TypeOK
BY Batching, TypedFromInv, PTL

(* A task's result is made of its own datapoints, the newest first, none   *)
(* skipped or twice, whatever calls reuse its id (get_metric_data).        *)
THEOREM ResultsCorrect == Spec => []ResultsAreTheirTasks
<1>1. IInv => ResultsAreTheirTasks
  BY DEF IInv, Reading
<1> QED
  BY <1>1, Batching, PTL

(* Messages hold what CloudWatch has (get_value, get_timestamp): of each   *)
(* statistic with datapoints that adds up, the value of all of them, of    *)
(* any other, such as an average, that of the newest; and the newest time. *)
THEOREM MessagesCorrect == Spec => []MessagesAreExact
BY Batching, ExactFromInv, PTL

(* A batch raises for a statistic that is there twice, and only for that.  *)
THEOREM RaisesCorrect == Spec => []RaisesOnDuplicates
BY Batching, RaisesFromInv, PTL

=============================================================================
