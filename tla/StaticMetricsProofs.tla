------------------------ MODULE StaticMetricsProofs -------------------------
(***************************************************************************)
(* Proofs about StaticMetrics, for any requests, times and answers: every  *)
(* statistic is computed from its own values, and an ordered answer gives  *)
(* the message the newest time.                                            *)
(***************************************************************************)
EXTENDS StaticMetrics, MessagesProofs, SequenceTheorems

(* The datapoints with a value for a statistic, among the first so many.   *)
With(s, S) == {n \in S : answer[n].value[s] = "some"}
Passed     == 1..(next - 1)

Typed ==
  /\ request \in Requests
  /\ answer \in Seq(Datapoints(request))
  /\ \A m, n \in DOMAIN answer : m # n => answer[m].time # answer[n].time
  /\ next \in 1..(Len(answer) + 1)
  /\ DOMAIN times = Stats(request)
  /\ phase \in {"asking", "splitting", "emitted", "raised"}

(* A task has the times of the datapoints that were split and have a value *)
(* for it, in their order, one for each mention of its statistic.          *)
Splitting ==
  \A s \in Stats(request) :
    /\ times[s] \in Seq(Times)
    /\ ToSet(times[s]) = {answer[n].time : n \in With(s, Passed)}
    /\ Len(times[s]) <= (next - 1) * Cardinality(Mentions(s))
    /\ Cardinality(Mentions(s)) = 1 => IsInjective(times[s])
    /\ times[s] # <<>> =>
         \E n \in With(s, Passed) : /\ times[s][1] = answer[n].time
                                    /\ \A m \in With(s, Passed) : n <= m

Written ==
  /\ phase = "asking" => answer = <<>> /\ next = 1
  /\ IF phase = "emitted" THEN message = {Message(Group)} ELSE message = {}
  /\ Ended => /\ next = Len(answer) + 1
              /\ phase = "raised" <=> DuplicateStat(Group)

IInv == Typed /\ Splitting /\ Written

-----------------------------------------------------------------------------
(* How often a statistic is named.                                         *)
LEMMA MentionsFacts ==
  ASSUME request \in Requests
  PROVE  \A s \in Stats(request) :
           /\ Cardinality(Mentions(s)) \in Nat \ {0}
           /\ IsInjective(request.stats) => Cardinality(Mentions(s)) = 1
<1> SUFFICES ASSUME NEW s \in Stats(request)
             PROVE  /\ Cardinality(Mentions(s)) \in Nat \ {0}
                    /\ IsInjective(request.stats) => Cardinality(Mentions(s)) = 1
  OBVIOUS
<1>1. request.stats \in Seq(STRING)
  BY StaticAssumption
<1>2. DOMAIN request.stats = 1..Len(request.stats) /\ Len(request.stats) \in Nat
  BY <1>1, LenProperties
<1>3. PICK n \in DOMAIN request.stats : request.stats[n] = s
  BY DEF Stats, ToSet
<1>4. Mentions(s) \in SUBSET (1..Len(request.stats)) /\ n \in Mentions(s)
  BY <1>2, <1>3 DEF Mentions
<1>5. IsFiniteSet(Mentions(s))
  <2>1. IsFiniteSet(1..Len(request.stats))
    BY <1>2, FS_Interval
  <2> QED
    BY <1>4, <2>1, FS_Subset
<1>6. Cardinality(Mentions(s)) \in Nat \ {0}
  BY <1>4, <1>5, FS_CardinalityType, FS_EmptySet
<1>7. ASSUME IsInjective(request.stats) PROVE Cardinality(Mentions(s)) = 1
  <2>1. Mentions(s) = {n}
    BY <1>3, <1>7 DEF Mentions, IsInjective
  <2> QED
    BY <2>1, FS_Singleton
<1> QED
  BY <1>6, <1>7

LEMMA InitIInv == Init => IInv
<1> SUFFICES ASSUME Init PROVE IInv
  OBVIOUS
<1>1. answer = <<>> /\ next = 1 /\ Passed = {} /\ Len(answer) = 0 /\ DOMAIN answer = {}
  BY DEF Init, Passed
<1>2. Typed
  <2>1. answer \in Seq(Datapoints(request))
    BY <1>1, EmptySeq
  <2> QED
    BY <1>1, <2>1 DEF Init, Typed
<1>3. Splitting
  <2> SUFFICES ASSUME NEW s \in Stats(request)
               PROVE  /\ times[s] = <<>>
                      /\ times[s] \in Seq(Times)
                      /\ ToSet(times[s]) = {answer[n].time : n \in With(s, Passed)}
                      /\ Len(times[s]) <= (next - 1) * Cardinality(Mentions(s))
                      /\ IsInjective(times[s])
    BY DEF Splitting
  <2>1. times[s] = <<>> /\ DOMAIN times[s] = {} /\ Len(times[s]) = 0
    BY DEF Init
  <2>2. With(s, Passed) = {} /\ ToSet(times[s]) = {}
    BY <1>1, <2>1 DEF With, ToSet
  <2>3. Cardinality(Mentions(s)) \in Nat /\ next - 1 = 0
    BY <1>1, MentionsFacts DEF Init
  <2>4. times[s] \in Seq(Times)
    BY <2>1, EmptySeq
  <2>5. IsInjective(times[s])
    BY <2>1 DEF IsInjective
  <2> QED
    BY <2>1, <2>2, <2>3, <2>4, <2>5
<1>4. Written
  BY <1>1 DEF Init, Written, Ended
<1> QED
  BY <1>2, <1>3, <1>4 DEF IInv

(* The answer that is split never changes, nor do its datapoints.          *)
LEMMA AnswerStep == IInv /\ Answer => IInv'
<1> SUFFICES ASSUME IInv, Answer PROVE IInv'
  OBVIOUS
<1>1. /\ phase = "asking" /\ answer = <<>> /\ next = 1 /\ phase' = "splitting"
      /\ answer' \in Answers(request)
      /\ UNCHANGED <<request, next, times, message>>
  BY DEF IInv, Written, Answer
<1>2. answer' \in Seq(Datapoints(request)) /\ Len(answer') \in Nat
  <2>1. answer' \in UNION {[1..n -> Datapoints(request)] : n \in 0..Cardinality(Times)}
    BY <1>1 DEF Answers, BoundedSeq, SeqOf
  <2>2. Cardinality(Times) \in Nat
    BY StaticAssumption, FS_CardinalityType
  <2>3. PICK n \in Nat : answer' \in [1..n -> Datapoints(request)]
    BY <2>1, <2>2
  <2>4. answer' \in Seq(Datapoints(request))
    BY <2>3
  <2> QED
    BY <2>4, LenProperties
<1>3. Typed'
  <2>1. \A m, n \in DOMAIN answer' : m # n => answer'[m].time # answer'[n].time
    BY <1>1 DEF Answers
  <2>2. Stats(request)' = Stats(request)
    BY <1>1 DEF Stats
  <2> QED
    BY <1>1, <1>2, <2>1, <2>2 DEF IInv, Typed
<1>4. Splitting'
  <2>1. Stats(request)' = Stats(request) /\ \A s : Mentions(s)' = Mentions(s)
    BY <1>1 DEF Stats, Mentions
  <2>2. Passed = {} /\ Passed' = {}
    BY <1>1 DEF Passed
  <2>3. \A s : With(s, Passed) = {} /\ With(s, Passed)' = {}
    BY <2>2 DEF With
  <2>4. {answer[n].time : n \in {}} = {} /\ {answer'[n].time : n \in {}} = {}
    OBVIOUS
  <2> SUFFICES ASSUME NEW s \in Stats(request)
               PROVE  /\ times[s] \in Seq(Times)
                      /\ ToSet(times[s]) = {}
                      /\ Len(times[s]) <= (next - 1) * Cardinality(Mentions(s))
                      /\ Cardinality(Mentions(s)) = 1 => IsInjective(times[s])
                      /\ times[s] = <<>>
    BY <1>1, <2>1, <2>3, <2>4 DEF Splitting
  <2> QED
    BY <2>3, <2>4 DEF IInv, Splitting
<1>5. Written'
  BY <1>1 DEF IInv, Written, Ended
<1> QED
  BY <1>3, <1>4, <1>5 DEF IInv

(* What one datapoint adds to a task.                                      *)
LEMMA GivenFacts ==
  ASSUME IInv, next \in DOMAIN answer, NEW s \in Stats(request)
  PROVE  /\ answer[next].value[s] = "some" =>
              /\ Given(answer[next], s) \in Seq(Times)
              /\ Len(Given(answer[next], s)) = Cardinality(Mentions(s))
              /\ \A n \in 1..Cardinality(Mentions(s)) :
                   Given(answer[next], s)[n] = answer[next].time
         /\ answer[next].value[s] # "some" => Given(answer[next], s) = <<>>
<1>1. answer[next].time \in Times
  <2>1. answer \in Seq(Datapoints(request))
    BY DEF IInv, Typed
  <2>2. DOMAIN answer = 1..Len(answer)
    BY <2>1, LenProperties
  <2>3. answer[next] \in Datapoints(request)
    BY <2>1, <2>2, ElementOfSeq
  <2> QED
    BY <2>3 DEF Datapoints
<1>2. Cardinality(Mentions(s)) \in Nat
  BY MentionsFacts DEF IInv, Typed
<1> QED
  BY <1>1, <1>2 DEF Given, HasValue

LEMMA ToSetConcat ==
  ASSUME NEW S, NEW a \in Seq(S), NEW b \in Seq(S)
  PROVE  ToSet(a \o b) = ToSet(a) \cup ToSet(b)
<1>1. /\ Len(a) \in Nat /\ DOMAIN a = 1..Len(a) /\ Len(b) \in Nat /\ DOMAIN b = 1..Len(b)
      /\ DOMAIN (a \o b) = 1..(Len(a) + Len(b))
  BY LenProperties, ConcatProperties
<1>2. \A i \in DOMAIN (a \o b) :
        (a \o b)[i] = IF i <= Len(a) THEN a[i] ELSE b[i - Len(a)]
  BY <1>1, ConcatProperties
<1>3. ASSUME NEW i \in DOMAIN (a \o b) PROVE (a \o b)[i] \in ToSet(a) \cup ToSet(b)
  <2>1. CASE i <= Len(a)
    BY <1>1, <1>2, <2>1 DEF ToSet
  <2>2. CASE ~ (i <= Len(a))
    <3>1. i - Len(a) \in DOMAIN b
      BY <1>1, <2>2
    <3> QED
      BY <1>2, <2>2, <3>1 DEF ToSet
  <2> QED
    BY <2>1, <2>2
<1>4. ASSUME NEW i \in DOMAIN a PROVE a[i] \in ToSet(a \o b)
  <2>1. i \in DOMAIN (a \o b) /\ (a \o b)[i] = a[i]
    BY <1>1, <1>2
  <2> QED
    BY <2>1 DEF ToSet
<1>5. ASSUME NEW i \in DOMAIN b PROVE b[i] \in ToSet(a \o b)
  <2>1. i + Len(a) \in DOMAIN (a \o b) /\ ~ (i + Len(a) <= Len(a)) /\ (i + Len(a)) - Len(a) = i
    BY <1>1
  <2>2. (a \o b)[i + Len(a)] = b[i]
    BY <1>2, <2>1
  <2> QED
    BY <2>1, <2>2 DEF ToSet
<1>6. ToSet(a \o b) \subseteq ToSet(a) \cup ToSet(b)
  BY <1>3 DEF ToSet
<1>7. ToSet(a) \subseteq ToSet(a \o b) /\ ToSet(b) \subseteq ToSet(a \o b)
  <2>1. \A x \in ToSet(a) : \E i \in DOMAIN a : x = a[i]
    BY DEF ToSet
  <2>2. \A x \in ToSet(b) : \E i \in DOMAIN b : x = b[i]
    BY DEF ToSet
  <2> QED
    BY <1>4, <1>5, <2>1, <2>2
<1> QED
  BY <1>6, <1>7

(* A datapoint goes to the tasks of the statistics it has a value for.     *)
LEMMA SplitTask ==
  ASSUME IInv, Split, NEW s \in Stats(request)
  PROVE  /\ times'[s] \in Seq(Times)
         /\ ToSet(times'[s]) = {answer[n].time : n \in With(s, 1..next)}
         /\ Len(times'[s]) <= next * Cardinality(Mentions(s))
         /\ Cardinality(Mentions(s)) = 1 => IsInjective(times'[s])
         /\ times'[s] # <<>> =>
              \E n \in With(s, 1..next) : /\ times'[s][1] = answer[n].time
                                          /\ \A m \in With(s, 1..next) : n <= m
<1> DEFINE p == answer[next]
           k == Cardinality(Mentions(s))
           old == times[s]
           g == Given(p, s)
<1>1. /\ next \in Nat \ {0} /\ next \in DOMAIN answer /\ DOMAIN answer = 1..Len(answer)
      /\ times'[s] = old \o g /\ Len(answer) \in Nat
  <2>1. Len(answer) \in Nat /\ DOMAIN answer = 1..Len(answer)
    BY LenProperties DEF IInv, Typed
  <2> QED
    BY <2>1 DEF IInv, Typed, Split
<1>2. k \in Nat \ {0}
  BY MentionsFacts DEF IInv, Typed
<1>3. /\ old \in Seq(Times) /\ Len(old) \in Nat /\ DOMAIN old = 1..Len(old)
      /\ ToSet(old) = {answer[n].time : n \in With(s, 1..(next - 1))}
      /\ Len(old) <= (next - 1) * k
      /\ k = 1 => IsInjective(old)
      /\ old # <<>> =>
           \E n \in With(s, 1..(next - 1)) :
             /\ old[1] = answer[n].time
             /\ \A m \in With(s, 1..(next - 1)) : n <= m
  <2>1. old \in Seq(Times)
    BY DEF IInv, Splitting
  <2>2. Len(old) \in Nat /\ DOMAIN old = 1..Len(old)
    BY <2>1, LenProperties
  <2> QED
    BY <2>1, <2>2 DEF IInv, Splitting, Passed
<1>4. next * k = (next - 1) * k + k /\ (next - 1) * k \in Nat
  <2> HIDE DEF k
  <2>1. \A n \in Nat : (n + 1) * k = n * k + k /\ n * k \in Nat
    BY <1>2
  <2>2. next - 1 \in Nat /\ (next - 1) + 1 = next
    BY <1>1
  <2> QED
    BY <2>1, <2>2
<1>5. 1..next = (1..(next - 1)) \cup {next}
  BY <1>1
<1>6. CASE p.value[s] = "some"
  <2>1. With(s, 1..next) = With(s, 1..(next - 1)) \cup {next}
    BY <1>5, <1>6 DEF With
  <2>2. g \in Seq(Times) /\ Len(g) = k /\ \A n \in 1..k : g[n] = p.time
    BY <1>1, <1>6, GivenFacts
  <2>3. DOMAIN g = 1..k
    BY <2>2, LenProperties
  <2> HIDE DEF g, old, k
  <2>4. /\ old \o g \in Seq(Times) /\ Len(old \o g) = Len(old) + k
        /\ DOMAIN (old \o g) = 1..(Len(old) + k)
        /\ \A i \in 1..(Len(old) + k) :
             (old \o g)[i] = IF i <= Len(old) THEN old[i] ELSE g[i - Len(old)]
    <3>1. old \o g \in Seq(Times) /\ Len(old \o g) = Len(old) + k
      BY <1>3, <2>2, ConcatProperties
    <3>2. DOMAIN (old \o g) = 1..(Len(old) + k)
      BY <3>1, LenProperties
    <3> QED
      BY <1>3, <2>2, <3>1, <3>2, ConcatProperties
  <2>5. ToSet(g) = {p.time}
    <3>1. 1 \in 1..k
      BY <1>2
    <3> QED
      BY <2>2, <2>3, <3>1 DEF ToSet
  <2>6. ToSet(old \o g) = {answer[n].time : n \in With(s, 1..next)}
    <3>1. ToSet(old \o g) = ToSet(old) \cup {p.time}
      BY <1>3, <2>2, <2>5, ToSetConcat
    <3> QED
      BY <1>3, <2>1, <3>1
  <2>7. Len(old \o g) <= next * k
    <3> DEFINE before == (next - 1) * k
    <3>1. next * k = before + k /\ before \in Nat /\ Len(old) <= before
      BY <1>3, <1>4
    <3> HIDE DEF before
    <3> QED
      BY <1>2, <1>3, <2>4, <3>1
  <2>8. ASSUME k = 1 PROVE IsInjective(old \o g)
    <3>1. \A i \in 1..Len(old) : old[i] # p.time
      <4> SUFFICES ASSUME NEW i \in 1..Len(old) PROVE old[i] # p.time
        OBVIOUS
      <4>1. old[i] \in ToSet(old)
        BY <1>3 DEF ToSet
      <4>2. PICK n \in With(s, 1..(next - 1)) : old[i] = answer[n].time
        BY <1>3, <4>1
      <4>3. n \in 1..(next - 1)
        BY <4>2 DEF With
      <4>4. n \in DOMAIN answer /\ n # next
        BY <1>1, <4>3
      <4> QED
        BY <1>1, <4>2, <4>4 DEF IInv, Typed
    <3>2. \A i \in 1..(Len(old) + 1) :
            /\ i \in 1..Len(old) => (old \o g)[i] = old[i]
            /\ i \notin 1..Len(old) => (old \o g)[i] = p.time /\ i = Len(old) + 1
      BY <1>3, <2>2, <2>4, <2>8
    <3>3. \A i, j \in 1..Len(old) : old[i] = old[j] => i = j
      BY <1>3, <2>8 DEF IsInjective
    <3>4. \A i, j \in 1..(Len(old) + 1) : (old \o g)[i] = (old \o g)[j] => i = j
      BY <3>1, <3>2, <3>3
    <3> QED
      BY <2>4, <2>8, <3>4 DEF IsInjective
  <2>9. \E n \in With(s, 1..next) : /\ (old \o g)[1] = answer[n].time
                                    /\ \A m \in With(s, 1..next) : n <= m
    <3>1. CASE old = <<>>
      <4>1. Len(old) = 0 /\ ToSet(old) = {}
        BY <3>1 DEF ToSet
      <4>2. With(s, 1..(next - 1)) = {}
        BY <1>3, <4>1
      <4>3. (old \o g)[1] = p.time
        BY <1>2, <2>2, <2>4, <4>1
      <4>4. With(s, 1..next) = {next} /\ next <= next
        BY <1>1, <2>1, <4>2
      <4> QED
        BY <4>3, <4>4
    <3>2. CASE old # <<>>
      <4>1. PICK n \in With(s, 1..(next - 1)) :
              /\ old[1] = answer[n].time
              /\ \A m \in With(s, 1..(next - 1)) : n <= m
        BY <1>3, <3>2
      <4>2. n \in 1..(next - 1)
        BY <4>1 DEF With
      <4>3. n <= next
        BY <1>1, <4>2
      <4>4. Len(old) # 0
        BY <1>3, <3>2, EmptySeq
      <4>5. (old \o g)[1] = old[1]
        BY <1>2, <1>3, <2>4, <4>4
      <4> QED
        BY <2>1, <4>1, <4>3, <4>5
    <3> QED
      BY <3>1, <3>2
  <2> QED
    BY <1>1, <2>4, <2>6, <2>7, <2>8, <2>9 DEF g, old, k
<1>7. CASE p.value[s] # "some"
  <2>1. With(s, 1..next) = With(s, 1..(next - 1))
    BY <1>5, <1>7 DEF With
  <2>2. g = <<>>
    BY <1>1, <1>7, GivenFacts
  <2> HIDE DEF g, k
  <2>3. old \o g = old
    BY <1>3, <2>2, ConcatEmptySeq
  <2>4. Len(old) <= next * k
    <3> HIDE DEF old
    <3> DEFINE before == (next - 1) * k
    <3>1. next * k = before + k /\ before \in Nat /\ Len(old) <= before
      BY <1>3, <1>4
    <3> HIDE DEF before
    <3> QED
      BY <1>2, <1>3, <3>1
  <2> QED
    BY <1>1, <1>3, <2>1, <2>3, <2>4 DEF k
<1> QED
  BY <1>6, <1>7

LEMMA SplitStep == IInv /\ Split => IInv'
<1> SUFFICES ASSUME IInv, Split PROVE IInv'
  OBVIOUS
<1>1. /\ phase = "splitting" /\ next <= Len(answer) /\ next' = next + 1
      /\ UNCHANGED <<request, answer, phase, message>>
      /\ DOMAIN times' = Stats(request)
  BY DEF Split
<1>2. Len(answer) \in Nat
  BY LenProperties DEF IInv, Typed
<1>3. Stats(request)' = Stats(request) /\ \A s : Mentions(s)' = Mentions(s)
  BY <1>1 DEF Stats, Mentions
<1>4. Typed'
  BY <1>1, <1>2, <1>3 DEF IInv, Typed
<1>5. Splitting'
  <2>1. Passed' = 1..next /\ (next - 1)' = next
    BY <1>1, <1>2 DEF Passed, IInv, Typed
  <2>2. \A s : With(s, Passed)' = With(s, 1..next)
    BY <1>1, <2>1 DEF With
  <2> SUFFICES ASSUME NEW s \in Stats(request)
               PROVE  /\ times'[s] \in Seq(Times)
                      /\ ToSet(times'[s]) = {answer[n].time : n \in With(s, 1..next)}
                      /\ Len(times'[s]) <= next * Cardinality(Mentions(s))
                      /\ Cardinality(Mentions(s)) = 1 => IsInjective(times'[s])
                      /\ times'[s] # <<>> =>
                           \E n \in With(s, 1..next) :
                             /\ times'[s][1] = answer[n].time
                             /\ \A m \in With(s, 1..next) : n <= m
    BY <1>1, <1>3, <2>1, <2>2 DEF Splitting
  <2> QED
    BY SplitTask
<1>6. Written'
  BY <1>1 DEF IInv, Written, Ended
<1> QED
  BY <1>4, <1>5, <1>6 DEF IInv

(* Nothing else touches what the tasks were given.                         *)
LEMMA SameSplitting ==
  ASSUME IInv, UNCHANGED <<request, answer, next, times>>
  PROVE  Splitting'
<1>1. request' = request /\ answer' = answer /\ next' = next /\ times' = times
  OBVIOUS
<1>2. Stats(request)' = Stats(request) /\ \A s : Mentions(s)' = Mentions(s)
  BY <1>1 DEF Stats, Mentions
<1>3. Passed' = Passed /\ (next - 1)' = next - 1
  BY <1>1 DEF Passed
<1>4. \A s : With(s, Passed)' = With(s, Passed)
  BY <1>1, <1>3 DEF With
<1>5. next \in Nat
  <2>1. Len(answer) \in Nat
    BY LenProperties DEF IInv, Typed
  <2> QED
    BY <2>1 DEF IInv, Typed
<1>6. ASSUME NEW s \in Stats(request)
      PROVE  (/\ times[s] \in Seq(Times)
              /\ ToSet(times[s]) = {answer[n].time : n \in With(s, Passed)}
              /\ Len(times[s]) <= (next - 1) * Cardinality(Mentions(s))
              /\ Cardinality(Mentions(s)) = 1 => IsInjective(times[s])
              /\ times[s] # <<>> =>
                   \E n \in With(s, Passed) : /\ times[s][1] = answer[n].time
                                              /\ \A m \in With(s, Passed) : n <= m)'
  <2>1. (times[s] \in Seq(Times))'
    BY <1>1 DEF IInv, Splitting
  <2>2. (ToSet(times[s]) = {answer[n].time : n \in With(s, Passed)})'
    <3>1. {answer[n].time : n \in With(s, Passed)}' = {answer[n].time : n \in With(s, Passed)}
      BY <1>1, <1>4
    <3>2. ToSet(times[s]) = {answer[n].time : n \in With(s, Passed)}
      BY DEF IInv, Splitting
    <3>3. ToSet(times[s])' = ToSet(times[s])
      BY <1>1
    <3> QED
      BY <3>1, <3>2, <3>3
  <2>3. (Len(times[s]) <= (next - 1) * Cardinality(Mentions(s)))'
    BY <1>1, <1>2, <1>3 DEF IInv, Splitting
  <2>4. (Cardinality(Mentions(s)) = 1 => IsInjective(times[s]))'
    BY <1>1, <1>2 DEF IInv, Splitting
  <2>5. (times[s] # <<>> =>
           \E n \in With(s, Passed) : /\ times[s][1] = answer[n].time
                                      /\ \A m \in With(s, Passed) : n <= m)'
    BY <1>1, <1>4 DEF IInv, Splitting
  <2> QED
    BY <2>1, <2>2, <2>3, <2>4, <2>5
<1> QED
  BY <1>2, <1>6 DEF Splitting

LEMMA EmitStep == IInv /\ Emit => IInv'
<1> SUFFICES ASSUME IInv, Emit PROVE IInv'
  OBVIOUS
<1>1. /\ phase = "splitting" /\ next > Len(answer)
      /\ IF DuplicateStat(Group)
         THEN phase' = "raised" /\ UNCHANGED message
         ELSE phase' = "emitted" /\ message' = {Message(Group)}
      /\ UNCHANGED <<request, answer, next, times>>
  BY DEF Emit
<1>2. Len(answer) \in Nat
  BY LenProperties DEF IInv, Typed
<1>3. /\ Stats(request)' = Stats(request) /\ Passed' = Passed
      /\ \A s : Mentions(s)' = Mentions(s) /\ With(s, Passed)' = With(s, Passed)
  BY <1>1 DEF Stats, Mentions, Passed, With
<1>4. Typed'
  BY <1>1, <1>3 DEF IInv, Typed
<1>5. Splitting'
  BY <1>1, SameSplitting
<1>6. Written'
  <2>1. next = Len(answer) + 1
    BY <1>1, <1>2 DEF IInv, Typed
  <2>2. Group' = Group
    BY <1>1, <1>3 DEF Group, Task
  <2>3. message = {}
    BY <1>1 DEF IInv, Written
  <2>4. DuplicateStat(Group)' <=> DuplicateStat(Group)
    BY <2>2
  <2>5. CASE DuplicateStat(Group)
    BY <1>1, <2>1, <2>3, <2>4, <2>5 DEF Written, Ended
  <2>6. CASE ~ DuplicateStat(Group)
    BY <1>1, <2>1, <2>2, <2>4, <2>6 DEF Written, Ended
  <2> QED
    BY <2>5, <2>6
<1> QED
  BY <1>4, <1>5, <1>6 DEF IInv

LEMMA StepIInv == IInv /\ [Next]_vars => IInv'
<1> SUFFICES ASSUME IInv, [Next]_vars PROVE IInv'
  OBVIOUS
<1>1. ASSUME UNCHANGED vars PROVE IInv'
  <2>1. UNCHANGED <<request, answer, next, times, phase, message>>
    BY <1>1 DEF vars
  <2>2. /\ Stats(request)' = Stats(request) /\ Passed' = Passed /\ Group' = Group
        /\ \A s : Mentions(s)' = Mentions(s) /\ With(s, Passed)' = With(s, Passed)
    BY <2>1 DEF Stats, Mentions, Passed, With, Group, Task
  <2>3. Typed'
    BY <2>1, <2>2 DEF IInv, Typed
  <2>4. Splitting'
    BY <2>1, SameSplitting
  <2>5. Written'
    BY <2>1, <2>2 DEF IInv, Written, Ended
  <2> QED
    BY <2>3, <2>4, <2>5 DEF IInv
<1> QED
  BY <1>1, AnswerStep, SplitStep, EmitStep DEF Next

-----------------------------------------------------------------------------
(* At the end every datapoint was split.                                   *)
LEMMA AllSplit ==
  ASSUME IInv, Ended
  PROVE  /\ Passed = DOMAIN answer
         /\ \A s \in Stats(request) : ToSet(times[s]) = NonZero(s)
         /\ phase = "raised" <=> DuplicateStat(Group)
         /\ message = IF phase = "emitted" THEN {Message(Group)} ELSE {}
<1>1. next = Len(answer) + 1 /\ (phase = "raised" <=> DuplicateStat(Group))
  BY DEF IInv, Written
<1>2. Len(answer) \in Nat /\ DOMAIN answer = 1..Len(answer)
  BY LenProperties DEF IInv, Typed
<1>3. Passed = DOMAIN answer
  BY <1>1, <1>2 DEF Passed
<1>4. \A s \in Stats(request) : ToSet(times[s]) = NonZero(s)
  BY <1>3 DEF IInv, Splitting, With, NonZero
<1>5. message = IF phase = "emitted" THEN {Message(Group)} ELSE {}
  BY DEF IInv, Written
<1> QED
  BY <1>1, <1>3, <1>4, <1>5

LEMMA GroupFacts ==
  /\ DOMAIN Group = Stats(request)
  /\ \A s \in Stats(request) : Group[s] = Task(s) /\ Name(Group, s) = ShortName(s)
<1>1. DOMAIN Group = Stats(request) /\ \A s \in Stats(request) : Group[s] = Task(s)
  BY DEF Group
<1>2. \A s : Task(s).statistic = s
  BY DEF Task
<1> QED
  BY <1>1, <1>2 DEF Name

LEMMA RaisedOnSpellings ==
  DuplicateStat(Group) <=>
    \E s, u \in Stats(request) : s # u /\ ShortName(s) = ShortName(u)
BY GroupFacts DEF DuplicateStat

(* The first value of a task is that of the first datapoint that has one.  *)
LEMMA FirstValue ==
  ASSUME IInv, Ended, NEW s \in Stats(request), NonZero(s) # {}
  PROVE  times[s] # <<>> /\ times[s][1] = answer[First(s)].time
<1> DEFINE S == With(s, DOMAIN answer)
<1>1. times[s] # <<>>
  <2>1. ToSet(times[s]) # {}
    BY AllSplit
  <2> QED
    BY <2>1 DEF ToSet
<1>2. PICK n \in S : times[s][1] = answer[n].time /\ \A m \in S : n <= m
  BY <1>1, AllSplit DEF IInv, Splitting
<1>3. S \in SUBSET Nat
  <2>1. DOMAIN answer = 1..Len(answer) /\ Len(answer) \in Nat
    BY LenProperties DEF IInv, Typed
  <2> QED
    BY <2>1 DEF With
<1>4. First(s) = Min(S)
  BY DEF First, With
<1> HIDE DEF S
<1>5. Min(S) = n
  <2>1. ASSUME NEW z \in S, \A m \in S : z <= m PROVE z = n
    <3>1. z <= n /\ n <= z /\ z \in Nat /\ n \in Nat
      BY <1>2, <1>3, <2>1
    <3> QED
      BY <3>1
  <2> QED
    BY <1>2, <2>1 DEF Min
<1> QED
  BY <1>1, <1>2, <1>4, <1>5

LEMMA ValuesFromInv == IInv => ValuesAreExact
<1> SUFFICES ASSUME IInv, Ended, IsInjective(request.stats)
             PROVE  ValuesAreExact
  BY DEF ValuesAreExact
<1>1. phase = "raised" <=>
        \E s, u \in Stats(request) : s # u /\ ShortName(s) = ShortName(u)
  BY AllSplit, RaisedOnSpellings
<1>2. ASSUME NEW m \in message
      PROVE  ~ DuplicateStat(Group) /\ m = Message(Group)
  BY <1>2, AllSplit
<1>3. ASSUME NEW m \in message
      PROVE  DOMAIN m.values = {ShortName(s) : s \in Stats(request)}
  <2>1. DOMAIN m.values = {Name(Group, n) : n \in DOMAIN Group}
    BY <1>2, OwnValue
  <2> QED
    BY <2>1, GroupFacts
<1>4. ASSUME NEW m \in message, NEW s \in Stats(request)
      PROVE  /\ IsInjective(times[s])
             /\ m.values[ShortName(s)].zero <=> (NonZero(s) = {} /\ request.nilToZero)
             /\ m.values[ShortName(s)].points =
                  IF s \in Aggregated \/ NonZero(s) = {}
                  THEN NonZero(s) ELSE {answer[First(s)].time}
  <2>1. IsInjective(times[s])
    BY MentionsFacts DEF IInv, Typed, Splitting
  <2>2. m.values[ShortName(s)] = GetValue(Task(s))
    <3>1. \A n \in DOMAIN Group : m.values[Name(Group, n)] = GetValue(Group[n])
      BY <1>2, OwnValue
    <3> QED
      BY <3>1, GroupFacts
  <2>3. /\ Task(s).statistic = s /\ Task(s).times = times[s]
        /\ Task(s).nilToZero = request.nilToZero
    BY DEF Task
  <2>4. ToSet(times[s]) = NonZero(s)
    BY AllSplit
  <2>5. times[s] = <<>> <=> NonZero(s) = {}
    <3>1. times[s] = <<>> => NonZero(s) = {}
      BY <2>4 DEF ToSet
    <3>2. times[s] # <<>> => times[s][1] \in ToSet(times[s])
      <4>1. times[s] \in Seq(Times)
        BY DEF IInv, Splitting
      <4>2. DOMAIN times[s] = 1..Len(times[s]) /\ Len(times[s]) \in Nat
        BY <4>1, LenProperties
      <4> QED
        BY <4>1, <4>2, EmptySeq DEF ToSet
    <3> QED
      BY <2>4, <3>1, <3>2
  <2>6. m.values[ShortName(s)].zero <=> (NonZero(s) = {} /\ request.nilToZero)
    <3>1. GetValue(Task(s)).zero = (times[s] = <<>> /\ request.nilToZero)
      BY <2>3 DEF GetValue
    <3> QED
      BY <2>2, <2>5, <3>1
  <2>7. m.values[ShortName(s)].points =
          IF s \in Aggregated \/ times[s] = <<>> THEN ToSet(times[s]) ELSE {times[s][1]}
    BY <2>2, <2>3 DEF GetValue
  <2>8. m.values[ShortName(s)].points =
          IF s \in Aggregated \/ NonZero(s) = {}
          THEN NonZero(s) ELSE {answer[First(s)].time}
    <3>1. CASE s \in Aggregated \/ NonZero(s) = {}
      BY <2>4, <2>5, <2>7, <3>1
    <3>2. CASE ~ (s \in Aggregated \/ NonZero(s) = {})
      <4>1. times[s] # <<>> /\ times[s][1] = answer[First(s)].time
        BY <3>2, FirstValue
      <4> QED
        BY <2>7, <3>2, <4>1
    <3> QED
      BY <3>1, <3>2
  <2> QED
    BY <2>1, <2>6, <2>8
<1> QED
  BY <1>1, <1>3, <1>4 DEF ValuesAreExact

LEMMA TypedFromInv == IInv => TypeOK
<1> SUFFICES ASSUME IInv PROVE TypeOK
  OBVIOUS
<1>1. \A s \in Stats(request) :
        /\ ToSet(times[s]) \subseteq {answer[n].time : n \in 1..(next - 1)}
        /\ Len(times[s]) <= (next - 1) * Cardinality(Mentions(s))
  <2> SUFFICES ASSUME NEW s \in Stats(request)
               PROVE  /\ ToSet(times[s]) \subseteq {answer[n].time : n \in 1..(next - 1)}
                      /\ Len(times[s]) <= (next - 1) * Cardinality(Mentions(s))
    OBVIOUS
  <2>1. /\ ToSet(times[s]) = {answer[n].time : n \in With(s, Passed)}
        /\ Len(times[s]) <= (next - 1) * Cardinality(Mentions(s))
    BY DEF IInv, Splitting
  <2>2. With(s, Passed) \subseteq 1..(next - 1)
    BY DEF With, Passed
  <2> QED
    BY <2>1, <2>2
<1>2. phase = "emitted" <=> message # {}
  BY DEF IInv, Written, Ended
<1> QED
  BY <1>1, <1>2 DEF IInv, Typed, TypeOK

(* In an ordered answer the first value of a task is its newest.           *)
LEMMA FirstIsNewest ==
  ASSUME IInv, phase = "emitted",
         \A m, n \in DOMAIN answer : m < n => answer[m].time > answer[n].time,
         NEW s \in Stats(request), times[s] # <<>>
  PROVE  /\ times[s][1] \in NonZero(s)
         /\ \A t \in NonZero(s) : t <= times[s][1]
<1>1. PICK n \in With(s, DOMAIN answer) :
        /\ times[s][1] = answer[n].time
        /\ \A m \in With(s, DOMAIN answer) : n <= m
  BY AllSplit DEF IInv, Splitting, Ended
<1>2. NonZero(s) = {answer[m].time : m \in With(s, DOMAIN answer)}
  BY DEF NonZero, With
<1>3. DOMAIN answer \in SUBSET Nat /\ \A m \in DOMAIN answer : answer[m].time \in Nat
  <2>1. answer \in Seq(Datapoints(request))
    BY DEF IInv, Typed
  <2>2. DOMAIN answer = 1..Len(answer) /\ Len(answer) \in Nat
    BY <2>1, LenProperties
  <2>3. \A m \in DOMAIN answer : answer[m] \in Datapoints(request)
    BY <2>1, <2>2, ElementOfSeq
  <2>4. \A m \in DOMAIN answer : answer[m].time \in Times
    BY <2>3 DEF Datapoints
  <2>5. \A t \in Times : t \in Nat
    BY StaticAssumption
  <2> QED
    BY <2>2, <2>4, <2>5
<1>4. ASSUME NEW m \in With(s, DOMAIN answer) PROVE answer[m].time <= answer[n].time
  <2>1. m \in DOMAIN answer /\ n \in DOMAIN answer /\ n <= m
    BY <1>1 DEF With
  <2>2. CASE n = m
    BY <1>3, <2>1, <2>2
  <2>3. CASE n < m
    BY <1>3, <2>1, <2>3
  <2> QED
    BY <1>3, <2>1, <2>2, <2>3
<1> QED
  BY <1>1, <1>2, <1>4

LEMMA StampedFromInv == IInv => OrderedAnswersAreStamped
<1> SUFFICES ASSUME IInv, phase = "emitted",
                    \A m, n \in DOMAIN answer : m < n => answer[m].time > answer[n].time
             PROVE  Message(Group).timestamp = Newest
  BY AllSplit DEF OrderedAnswersAreStamped, Ended
<1>1. \A s \in Stats(request) :
        /\ Group[s].stamped = request.stamped /\ Group[s].times = times[s]
  BY GroupFacts DEF Task
<1>2. request.stamped \in BOOLEAN
  BY StaticAssumption DEF IInv, Typed
<1>3. CASE ~ request.stamped
  <2>1. \A s \in DOMAIN Group : GetTimestamp(Group[s]) = 0
    <3> TAKE s \in DOMAIN Group
    <3>1. Group[s].stamped = request.stamped
      BY <1>1, GroupFacts
    <3>2. ~ Group[s].stamped
      BY <1>3, <3>1, Zenon
    <3> QED
      BY <3>2, Zenon DEF GetTimestamp
  <2>2. IsFiniteSet({0}) /\ {0} \in SUBSET Nat
    <3>1. IsFiniteSet({0})
      BY FS_Singleton, Zenon
    <3> QED
      BY <3>1
  <2>3. Message(Group).timestamp = Max({0})
    BY <2>1, <2>2, MessageTime
  <2>4. Max({0}) = 0
    BY DEF Max
  <2> QED
    BY <1>3, <2>3, <2>4 DEF Newest
<1>4. CASE request.stamped
  <2> DEFINE B == {0} \cup AllNonZero
  <2>1. \A s \in Stats(request) :
          GetTimestamp(Group[s]) = IF times[s] # <<>> THEN times[s][1] ELSE 0
    BY <1>1, <1>4 DEF GetTimestamp
  <2>2. \A s \in Stats(request) : NonZero(s) \in SUBSET Times
    <3> SUFFICES ASSUME NEW s \in Stats(request) PROVE NonZero(s) \in SUBSET Times
      OBVIOUS
    <3>1. times[s] \in Seq(Times) /\ ToSet(times[s]) = NonZero(s)
      BY AllSplit DEF IInv, Splitting, Ended
    <3>2. DOMAIN times[s] = 1..Len(times[s])
      BY <3>1, LenProperties
    <3>3. \A n \in DOMAIN times[s] : times[s][n] \in Times
      BY <3>1, <3>2, ElementOfSeq
    <3> QED
      BY <3>1, <3>3 DEF ToSet
  <2>3. AllNonZero \in SUBSET Times
    BY <2>2 DEF AllNonZero
  <2>4. B \in SUBSET Nat /\ IsFiniteSet(B) /\ 0 \in B
    <3>1. IsFiniteSet(AllNonZero)
      BY <2>3, StaticAssumption, FS_Subset
    <3>2. IsFiniteSet({0} \cup AllNonZero)
      BY <3>1, FS_AddElement
    <3> QED
      BY <2>3, <3>2, StaticAssumption
  <2>5. \A s \in DOMAIN Group : GetTimestamp(Group[s]) \in B
    BY <2>1, FirstIsNewest, GroupFacts DEF AllNonZero
  <2>6. ASSUME NEW b \in B \ {0}
        PROVE  \E s \in DOMAIN Group : b <= GetTimestamp(Group[s])
    <3>1. PICK s \in Stats(request) : b \in NonZero(s)
      BY DEF AllNonZero
    <3>2. times[s] # <<>>
      <4>1. b \in ToSet(times[s])
        BY <3>1, AllSplit DEF Ended
      <4> QED
        BY <4>1 DEF ToSet
    <3>3. b <= GetTimestamp(Group[s])
      BY <2>1, <3>1, <3>2, FirstIsNewest
    <3> QED
      BY <3>3, GroupFacts
  <2> HIDE DEF B
  <2>7. Message(Group).timestamp = Max(B)
    BY <2>4, <2>5, <2>6, MessageTime
  <2> QED
    BY <1>4, <2>7 DEF Newest, B
<1> QED
  BY <1>2, <1>3, <1>4

-----------------------------------------------------------------------------
(* The inductive invariant of a static metric.                             *)
THEOREM SplittingInv == Spec => []IInv
BY InitIInv, StepIInv, PTL DEF Spec

(* Every variable has its type; no task has more values than it was given. *)
THEOREM TypeCorrect == Spec => []TypeOK
BY SplittingInv, TypedFromInv, PTL

(* Every statistic is in the message and computed from its own values,     *)
(* whatever the other statistics of a datapoint have (get_metric_statistics*)
(* splits each datapoint).                                                 *)
THEOREM ValuesCorrect == Spec => []ValuesAreExact
BY SplittingInv, ValuesFromInv, PTL

(* Datapoints in order give the message the newest time.                   *)
THEOREM StampedCorrect == Spec => []OrderedAnswersAreStamped
BY SplittingInv, StampedFromInv, PTL
=============================================================================
