--------------------------- MODULE MessagesProofs ---------------------------
(***************************************************************************)
(* Facts about Messages, for any group of tasks: the value of a statistic  *)
(* that only one task has, and the time of a message; and the facts about  *)
(* the order of finite sets of times that they and their users need.       *)
(***************************************************************************)
EXTENDS Messages, FiniteSetTheorems, TLAPS

(* How many of a set are as new as t; every rank from 1 on is that of one. *)
AsNew(S, t) == {u \in S : u >= t}

LEMMA RankFacts ==
  ASSUME NEW S \in SUBSET Nat, IsFiniteSet(S)
  PROVE  /\ Cardinality(S) \in Nat
         /\ \A t \in S : Cardinality(AsNew(S, t)) \in 1..Cardinality(S)
         /\ \A n \in 1..Cardinality(S) : \E t \in S : Cardinality(AsNew(S, t)) = n
         /\ \A t, u \in S : t < u => Cardinality(AsNew(S, u)) < Cardinality(AsNew(S, t))
<1> DEFINE rank == [t \in S |-> Cardinality(AsNew(S, t))]
           ranks == 1..Cardinality(S)
<1>1. Cardinality(S) \in Nat
  BY FS_CardinalityType
<1>2. ASSUME NEW t \in S
      PROVE  IsFiniteSet(AsNew(S, t)) /\ Cardinality(AsNew(S, t)) \in 1..Cardinality(S)
  <2>1. AsNew(S, t) \in SUBSET S /\ t \in AsNew(S, t)
    BY DEF AsNew
  <2>2. IsFiniteSet(AsNew(S, t)) /\ Cardinality(AsNew(S, t)) <= Cardinality(S)
    BY <2>1, FS_Subset
  <2>3. Cardinality(AsNew(S, t)) \in Nat /\ Cardinality(AsNew(S, t)) # 0
    BY <2>1, <2>2, FS_CardinalityType, FS_EmptySet
  <2> QED
    BY <1>1, <2>2, <2>3
<1>3. ASSUME NEW t \in S, NEW u \in S, t < u
      PROVE  Cardinality(AsNew(S, u)) < Cardinality(AsNew(S, t))
  <2>1. AsNew(S, u) \in SUBSET AsNew(S, t) /\ t \in AsNew(S, t) /\ t \notin AsNew(S, u)
    <3>1. t \in Nat /\ u \in Nat /\ \A v \in S : v \in Nat
      OBVIOUS
    <3>2. \A v \in S : v >= u => v >= t
      BY <1>3, <3>1
    <3>3. AsNew(S, u) \subseteq AsNew(S, t)
      BY <3>2 DEF AsNew
    <3>4. t >= t /\ ~ (t >= u)
      BY <1>3, <3>1
    <3>5. t \in AsNew(S, t) /\ t \notin AsNew(S, u)
      BY <3>4 DEF AsNew
    <3> QED
      BY <3>3, <3>5
  <2>2. IsFiniteSet(AsNew(S, t)) /\ AsNew(S, t) # AsNew(S, u)
    BY <1>2, <2>1
  <2>3. /\ Cardinality(AsNew(S, u)) <= Cardinality(AsNew(S, t))
        /\ Cardinality(AsNew(S, t)) # Cardinality(AsNew(S, u))
    BY <2>1, <2>2, FS_Subset
  <2>4. Cardinality(AsNew(S, t)) \in Nat /\ Cardinality(AsNew(S, u)) \in Nat
    BY <1>1, <1>2
  <2> QED
    BY <2>3, <2>4
<1>4. rank \in Injection(S, ranks)
  <2>1. rank \in [S -> ranks]
    BY <1>2
  <2>2. ASSUME NEW t \in S, NEW u \in S, rank[t] = rank[u]
        PROVE  t = u
    <3>1. Cardinality(AsNew(S, t)) = Cardinality(AsNew(S, u))
      BY <2>2
    <3>2. Cardinality(AsNew(S, t)) \in Nat
      BY <1>1, <1>2
    <3>3. ~ (t < u) /\ ~ (u < t)
      BY <1>3, <3>1, <3>2
    <3> QED
      BY <3>3
  <2> HIDE DEF rank
  <2> QED
    BY <2>1, <2>2 DEF Injection, IsInjective
<1>5. IsFiniteSet(ranks) /\ Cardinality(ranks) = Cardinality(S)
  BY <1>1, FS_Interval
<1>6. rank \in Surjection(S, ranks)
  <2> HIDE DEF rank, ranks
  <2> QED
    BY <1>4, <1>5, FS_Injection
<1>7. ASSUME NEW n \in ranks
      PROVE  \E t \in S : Cardinality(AsNew(S, t)) = n
  <2>1. \E t \in S : rank[t] = n
    BY <1>6 DEF Surjection
  <2> QED
    BY <2>1
<1> QED
  BY <1>1, <1>2, <1>3, <1>7

(* An element as large as every other is the largest.                      *)
LEMMA LargestIsMax ==
  ASSUME NEW S \in SUBSET Nat, NEW x \in S, \A y \in S : y <= x
  PROVE  Max(S) = x
<1>1. \A y \in S : x >= y
  OBVIOUS
<1>2. ASSUME NEW z \in S, \A y \in S : z >= y PROVE z = x
  <2>1. z >= x /\ x >= z /\ z \in Nat /\ x \in Nat
    BY <1>1, <1>2
  <2> QED
    BY <2>1
<1> QED
  BY <1>1, <1>2 DEF Max

(* A finite set of naturals has a largest element, and it is that of any   *)
(* subset that has as large ones.                                          *)
LEMMA SameMax ==
  ASSUME NEW B \in SUBSET Nat, IsFiniteSet(B), NEW A \in SUBSET B, B # {},
         \A b \in B : \E a \in A : b <= a
  PROVE  Max(A) = Max(B)
<1>1. Cardinality(B) \in Nat /\ Cardinality(B) # 0
  BY FS_CardinalityType, FS_EmptySet
<1>2. PICK x \in B : Cardinality(AsNew(B, x)) = 1
  <2>1. 1 \in 1..Cardinality(B)
    BY <1>1
  <2> QED
    BY <2>1, RankFacts
<1>3. ASSUME NEW y \in B, x < y PROVE FALSE
  <2>1. Cardinality(AsNew(B, y)) < 1
    BY <1>2, <1>3, RankFacts
  <2>2. Cardinality(AsNew(B, y)) \in 1..Cardinality(B)
    BY RankFacts
  <2> QED
    BY <1>1, <2>1, <2>2
<1>4. \A y \in B : y \in Nat /\ x >= y
  BY <1>3
<1>5. x \in A
  <2>1. PICK a \in A : x <= a
    OBVIOUS
  <2>2. x = a
    BY <1>4, <2>1
  <2> QED
    BY <2>2
<1>6. Max(B) = x
  BY <1>4, LargestIsMax
<1>7. Max(A) = x
  <2>1. A \in SUBSET Nat /\ \A y \in A : y <= x
    BY <1>4
  <2> QED
    BY <1>5, <2>1, LargestIsMax
<1> QED
  BY <1>6, <1>7

-----------------------------------------------------------------------------
(* The name that only one task of a group has gets that task's value.      *)
LEMMA OwnValue ==
  ASSUME NEW group, ~ DuplicateStat(group)
  PROVE  /\ DOMAIN Message(group).values = {Name(group, n) : n \in DOMAIN group}
         /\ \A n \in DOMAIN group :
              Message(group).values[Name(group, n)] = GetValue(group[n])
<1> DEFINE of(x) == CHOOSE n \in DOMAIN group : Name(group, n) = x
<1>1. Message(group).values =
        [x \in {Name(group, n) : n \in DOMAIN group} |-> GetValue(group[of(x)])]
  BY DEF Message
<1>2. ASSUME NEW n \in DOMAIN group PROVE of(Name(group, n)) = n
  <2>1. of(Name(group, n)) \in DOMAIN group /\ Name(group, of(Name(group, n))) = Name(group, n)
    OBVIOUS
  <2> QED
    BY <2>1 DEF DuplicateStat
<1> HIDE DEF of
<1> QED
  BY <1>1, <1>2

(* The time of a message is the largest of B if no task's time is outside  *)
(* of B and every element of B is at most that of some task.               *)
LEMMA MessageTime ==
  ASSUME NEW group, NEW B \in SUBSET Nat, IsFiniteSet(B), 0 \in B,
         \A n \in DOMAIN group : GetTimestamp(group[n]) \in B,
         \A b \in B \ {0} : \E n \in DOMAIN group : b <= GetTimestamp(group[n])
  PROVE  Message(group).timestamp = Max(B)
<1> DEFINE A == {0} \cup {GetTimestamp(group[n]) : n \in DOMAIN group}
<1>1. Message(group).timestamp = Max(A)
  BY DEF Message, MessageTimestamp
<1>2. A \in SUBSET B
  OBVIOUS
<1>3. \A b \in B : \E a \in A : b <= a
  <2> SUFFICES ASSUME NEW b \in B PROVE \E a \in A : b <= a
    OBVIOUS
  <2>1. CASE b = 0
    BY <2>1
  <2>2. CASE b # 0
    <3>1. PICK n \in DOMAIN group : b <= GetTimestamp(group[n])
      BY <2>2
    <3> QED
      BY <3>1
  <2> QED
    BY <2>1, <2>2
<1>4. Max(A) = Max(B)
  <2> HIDE DEF A
  <2> QED
    BY <1>2, <1>3, SameMax
<1> QED
  BY <1>1, <1>4
=============================================================================
