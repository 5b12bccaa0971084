--------------------------- MODULE ApiCallsProofs ---------------------------
(***************************************************************************)
(* Proofs about ApiCalls: for any number of clients, callers, permits,     *)
(* threads and pages, no permit is lost or invented, a client's pages stay *)
(* within its limit, and listings are complete.                            *)
(***************************************************************************)
EXTENDS ApiCalls, FiniteSetTheorems, TLAPS

(* The holders of a client's permits are finitely many.                    *)
LEMMA HoldersFinite ==
  ASSUME NEW k
  PROVE  IsFiniteSet(Holders(k)) /\ Cardinality(Holders(k)) \in Nat
<1>1. Holders(k) \subseteq Callers
  BY ApiAssumption DEF Holders
<1>2. IsFiniteSet(Holders(k))
  BY <1>1, ApiAssumption, FS_Subset
<1>3. QED
  BY <1>2, FS_CardinalityType

LEMMA HoldersFinitePrime ==
  ASSUME NEW k
  PROVE  IsFiniteSet(Holders(k)') /\ Cardinality(Holders(k)') \in Nat
<1>1. Holders(k)' \subseteq Callers
  BY ApiAssumption DEF Holders
<1>2. IsFiniteSet(Holders(k)')
  BY <1>1, ApiAssumption, FS_Subset
<1>3. QED
  BY <1>2, FS_CardinalityType

(* A step that moves one caller between states of one kind -- in a call or *)
(* not -- leaves the holders as they are.                                  *)
LEMMA HoldersKept ==
  ASSUME TypeOK, NEW c \in Callers, NEW s \in States,
         pc' = [pc EXCEPT ![c] = s],
         c \in Paged => (s \in InCall <=> pc[c] \in InCall),
         NEW k
  PROVE  Holders(k)' = Holders(k)
<1>1. \A d \in Paged : pc'[d] \in InCall <=> pc[d] \in InCall
  BY ApiAssumption DEF TypeOK
<1>2. QED
  BY <1>1 DEF Holders

(* Entering a call adds a holder to one client.                            *)
LEMMA HolderAdded ==
  ASSUME TypeOK, NEW c \in Paged, NEW s \in InCall,
         pc[c] \notin InCall, pc' = [pc EXCEPT ![c] = s], NEW k
  PROVE  Cardinality(Holders(k)') =
           Cardinality(Holders(k)) + (IF k = ClientOf[c] THEN 1 ELSE 0)
<1>1. c \in Callers
  BY ApiAssumption
<1>2. CASE k = ClientOf[c]
  <2>1. Holders(k)' = Holders(k) \cup {c}
    BY <1>1, <1>2, ApiAssumption DEF Holders, TypeOK
  <2>2. c \notin Holders(k)
    BY DEF Holders
  <2>3. Cardinality(Holders(k) \cup {c}) = Cardinality(Holders(k)) + 1
    BY <2>2, HoldersFinite, FS_AddElement
  <2>4. QED
    BY <1>2, <2>1, <2>3
<1>3. CASE k # ClientOf[c]
  <2>1. Holders(k)' = Holders(k)
    BY <1>1, <1>3, ApiAssumption DEF Holders, TypeOK
  <2>2. QED
    BY <1>3, <2>1, HoldersFinite
<1>4. QED
  BY <1>2, <1>3

(* Leaving it takes the holder away again.                                 *)
LEMMA HolderRemoved ==
  ASSUME TypeOK, NEW c \in Paged, NEW s \in States \ InCall,
         pc[c] \in InCall, pc' = [pc EXCEPT ![c] = s], NEW k
  PROVE  Cardinality(Holders(k)) =
           Cardinality(Holders(k)') + (IF k = ClientOf[c] THEN 1 ELSE 0)
<1>1. c \in Callers
  BY ApiAssumption
<1>2. CASE k = ClientOf[c]
  <2>1. Holders(k) = Holders(k)' \cup {c}
    BY <1>1, <1>2, ApiAssumption DEF Holders, TypeOK
  <2>2. c \notin Holders(k)'
    BY <1>1 DEF Holders, TypeOK
  <2>3. Cardinality(Holders(k)' \cup {c}) = Cardinality(Holders(k)') + 1
    BY <2>2, HoldersFinitePrime, FS_AddElement
  <2>4. QED
    BY <1>2, <2>1, <2>3
<1>3. CASE k # ClientOf[c]
  <2>1. Holders(k)' = Holders(k)
    BY <1>1, <1>3, ApiAssumption DEF Holders, TypeOK
  <2>2. QED
    BY <1>3, <2>1, HoldersFinite
<1>4. QED
  BY <1>2, <1>3

-----------------------------------------------------------------------------
LEMMA InitOk == Init => IInv
<1>1. SUFFICES ASSUME Init PROVE IInv
  OBVIOUS
<1>2. TypeOK
  BY <1>1, ApiAssumption DEF Init, TypeOK, States, InCall
<1>3. PermitsConserved
  <2>1. SUFFICES ASSUME NEW k \in Clients
                 PROVE  free[k] + Cardinality(Holders(k)) = Concurrency[k]
    BY DEF PermitsConserved
  <2>2. Holders(k) = {}
    BY <1>1, ApiAssumption DEF Init, Holders, InCall
  <2>3. Cardinality(Holders(k)) = 0
    BY <2>2, FS_EmptySet
  <2>4. QED
    BY <1>1, <2>3, ApiAssumption DEF Init
<1>4. OnlyPagedWait /\ Unread /\ FirstPageOnly /\ ListingsAreComplete
  BY <1>1, ApiAssumption
  DEF Init, OnlyPagedWait, Unread, FirstPageOnly, ListingsAreComplete, InCall
<1>5. QED
  BY <1>2, <1>3, <1>4 DEF IInv

(* Submit takes a permit and becomes a holder.                             *)
LEMMA SubmitOk ==
  ASSUME IInv, NEW c \in Callers, Submit(c) PROVE IInv'
<1> USE DEF IInv
<1>1. c \in Paged /\ ClientOf[c] \in Clients
  BY ApiAssumption DEF Submit, OnlyPagedWait
<1>2. TypeOK'
  BY <1>1, ApiAssumption DEF TypeOK, Submit, Take, States, InCall
<1>3. PermitsConserved'
  <2>1. SUFFICES ASSUME NEW k \in Clients
                 PROVE  free'[k] + Cardinality(Holders(k)') = Concurrency[k]
    BY DEF PermitsConserved
  <2>2. Cardinality(Holders(k)') =
          Cardinality(Holders(k)) + (IF k = ClientOf[c] THEN 1 ELSE 0)
    BY <1>1, HolderAdded DEF Submit, InCall
  <2>3. free'[k] = free[k] - (IF k = ClientOf[c] THEN 1 ELSE 0)
    BY <1>1 DEF TypeOK, Submit, Take
  <2>4. free[k] + Cardinality(Holders(k)) = Concurrency[k]
    BY DEF PermitsConserved
  <2>5. QED
    BY <2>2, <2>3, <2>4, HoldersFinite DEF TypeOK
<1>4. OnlyPagedWait' /\ Unread' /\ FirstPageOnly' /\ ListingsAreComplete'
  BY ApiAssumption
  DEF TypeOK, Submit, OnlyPagedWait, Unread, FirstPageOnly, ListingsAreComplete,
      InCall
<1>5. QED
  BY <1>2, <1>3, <1>4

(* A call changes hands between pool, thread and loop: the holders stay.   *)
LEMMA CallOk ==
  ASSUME IInv, NEW c \in Callers, Start(c) \/ End(c) PROVE IInv'
<1> USE DEF IInv
<1>1. PICK s \in {"calling", "answered", "broken"} : pc' = [pc EXCEPT ![c] = s]
  BY DEF Start, End
<1>2. pc[c] \in InCall /\ s \in InCall /\ s \in States
  BY <1>1 DEF Start, End, InCall, States
<1>3. UNCHANGED <<numPages, named, read, free>>
  BY DEF Start, End
<1>4. TypeOK'
  BY <1>1, <1>2, <1>3 DEF TypeOK
<1>5. PermitsConserved'
  <2>1. \A k \in Clients : Holders(k)' = Holders(k)
    BY <1>1, <1>2, HoldersKept
  <2>2. QED
    BY <2>1, <1>3 DEF PermitsConserved
<1>6. OnlyPagedWait' /\ Unread' /\ FirstPageOnly' /\ ListingsAreComplete'
  BY <1>1, <1>2, <1>3, ApiAssumption
  DEF TypeOK, OnlyPagedWait, Unread, FirstPageOnly, ListingsAreComplete, InCall
<1>7. QED
  BY <1>4, <1>5, <1>6

(* The permit of a paged caller comes back when the holder leaves.         *)
LEMMA PermitReturned ==
  ASSUME TypeOK, PermitsConserved, NEW c \in Callers, NEW s \in States \ InCall,
         pc[c] \in InCall, pc' = [pc EXCEPT ![c] = s], GiveBack(c)
  PROVE  PermitsConserved' /\ free' \in [Clients -> Nat]
<1>1. CASE c \in Paged
  <2>1. ClientOf[c] \in Clients
    BY ApiAssumption
  <2>2. free' \in [Clients -> Nat]
    BY <1>1, <2>1 DEF GiveBack, TypeOK
  <2>3. ASSUME NEW k \in Clients
        PROVE  free'[k] + Cardinality(Holders(k)') = Concurrency[k]
    <3>1. Cardinality(Holders(k)) =
            Cardinality(Holders(k)') + (IF k = ClientOf[c] THEN 1 ELSE 0)
      BY <1>1, HolderRemoved
    <3>2. free'[k] = free[k] + (IF k = ClientOf[c] THEN 1 ELSE 0)
      BY <1>1, <2>1 DEF GiveBack, TypeOK
    <3>3. free[k] + Cardinality(Holders(k)) = Concurrency[k]
      BY DEF PermitsConserved
    <3>4. QED
      BY <3>1, <3>2, <3>3, HoldersFinite, HoldersFinitePrime DEF TypeOK
  <2>4. QED
    BY <2>2, <2>3 DEF PermitsConserved
<1>2. CASE c \notin Paged
  <2>1. \A k \in Clients : Holders(k)' = Holders(k)
    BY <1>2, HoldersKept
  <2>2. free' = free
    BY <1>2 DEF GiveBack
  <2>3. QED
    BY <2>1, <2>2 DEF PermitsConserved, TypeOK
<1>3. QED
  BY <1>1, <1>2

LEMMA ReceiveOk ==
  ASSUME IInv, NEW c \in Callers, Receive(c) PROVE IInv'
<1> USE DEF IInv
<1>1. PermitsConserved' /\ free' \in [Clients -> Nat]
  BY PermitReturned DEF Receive, InCall, States
<1>2. TypeOK'
  BY <1>1, ApiAssumption DEF TypeOK, Receive, Unread, States, InCall
<1>3. OnlyPagedWait' /\ Unread' /\ FirstPageOnly' /\ ListingsAreComplete'
  BY ApiAssumption
  DEF TypeOK, Receive, OnlyPagedWait, Unread, FirstPageOnly, ListingsAreComplete,
      InCall
<1>4. QED
  BY <1>1, <1>2, <1>3

LEMMA RaiseOk ==
  ASSUME IInv, NEW c \in Callers, Raise(c) PROVE IInv'
<1> USE DEF IInv
<1>1. PermitsConserved' /\ free' \in [Clients -> Nat]
  BY PermitReturned DEF Raise, InCall, States
<1>2. TypeOK'
  BY <1>1 DEF TypeOK, Raise, States, InCall
<1>3. OnlyPagedWait' /\ Unread' /\ FirstPageOnly' /\ ListingsAreComplete'
  BY ApiAssumption
  DEF TypeOK, Raise, OnlyPagedWait, Unread, FirstPageOnly, ListingsAreComplete,
      InCall
<1>4. QED
  BY <1>1, <1>2, <1>3

(* Consumers hold no permit, so what they do changes none.                 *)
LEMMA ConsumerOk ==
  ASSUME IInv, NEW c \in Callers, Continue(c) \/ ConsumerRaises(c) PROVE IInv'
<1> USE DEF IInv
<1>1. PICK s \in {"waiting", "done", "failed"} : pc' = [pc EXCEPT ![c] = s]
  BY DEF Continue, ConsumerRaises
<1>2. pc[c] = "working" /\ pc[c] \notin InCall /\ s \notin InCall /\ s \in States
  BY <1>1 DEF Continue, ConsumerRaises, InCall, States
<1>3. UNCHANGED <<numPages, named, read, free>>
  BY DEF Continue, ConsumerRaises
<1>4. TypeOK'
  BY <1>1, <1>2, <1>3 DEF TypeOK
<1>5. PermitsConserved'
  <2>1. \A k \in Clients : Holders(k)' = Holders(k)
    BY <1>1, <1>2, HoldersKept
  <2>2. QED
    BY <2>1, <1>3 DEF PermitsConserved
<1>6. pc'[c] = s /\ \A d \in Callers \ {c} : pc'[d] = pc[d]
  BY <1>1 DEF TypeOK
<1>7. s = "waiting" => HasToken(c)
  BY <1>6 DEF TypeOK, Continue, ConsumerRaises
<1>8. s = "done" => ~HasToken(c)
  BY <1>6 DEF TypeOK, Continue, ConsumerRaises
<1>9. OnlyPagedWait' /\ Unread'
  BY <1>2, <1>3, <1>6, <1>7, ApiAssumption
  DEF TypeOK, OnlyPagedWait, Unread, HasToken, InCall
<1>10. FirstPageOnly' /\ ListingsAreComplete'
  BY <1>1, <1>2, <1>3, <1>6, <1>8, ApiAssumption
  DEF TypeOK, FirstPageOnly, ListingsAreComplete, HasToken
<1>11. QED
  BY <1>4, <1>5, <1>9, <1>10

LEMMA StutterOk == ASSUME IInv, UNCHANGED vars PROVE IInv'
  BY DEF IInv, vars, TypeOK, PermitsConserved, Holders, OnlyPagedWait, Unread,
         FirstPageOnly, ListingsAreComplete

(* The inductive invariant: permits, and where every listing stands.       *)
THEOREM ApiInv == Spec => []IInv
<1>1. IInv /\ [Next]_vars => IInv'
  <2>1. SUFFICES ASSUME IInv, [Next]_vars PROVE IInv'
    OBVIOUS
  <2>2. CASE UNCHANGED vars
    BY <2>1, <2>2, StutterOk
  <2>3. CASE \E c \in Callers : Step(c)
    <3>1. PICK c \in Callers : Step(c)
      BY <2>3
    <3>2. QED
      BY <2>1, <3>1, SubmitOk, CallOk, ReceiveOk, RaiseOk, ConsumerOk DEF Step
  <2>4. QED
    BY <2>1, <2>2, <2>3 DEF Next
<1>2. QED
  BY InitOk, <1>1, PTL DEF Spec

(* Every variable has its type; nobody reads a page that is not there.     *)
THEOREM TypeCorrect == Spec => []TypeOK
<1>1. IInv => TypeOK
  BY DEF IInv
<1>2. QED
  BY ApiInv, <1>1, PTL

(* No permit is lost and none invented.                                    *)
THEOREM PermitsCorrect == Spec => []PermitsConserved
<1>1. IInv => PermitsConserved
  BY DEF IInv
<1>2. QED
  BY ApiInv, <1>1, PTL

(* The paged calls of a client never exceed its limit.                     *)
THEOREM LimitCorrect == Spec => []PagesWithinLimit
<1>1. IInv => PagesWithinLimit
  <2>1. SUFFICES ASSUME IInv, NEW k \in Clients
                 PROVE  Cardinality(Holders(k)) <= Concurrency[k]
    BY DEF PagesWithinLimit
  <2>2. free[k] + Cardinality(Holders(k)) = Concurrency[k] /\ free[k] \in Nat
    BY <2>1 DEF IInv, PermitsConserved, TypeOK
  <2>3. QED
    BY <2>1, <2>2, ApiAssumption, HoldersFinite
<1>2. QED
  BY ApiInv, <1>1, PTL

(* All calls of a client are within its limit if all its callers paginate: *)
(* what breaks the README's promise are the calls without a permit, and    *)
(* nothing else.                                                           *)
THEOREM PagedClientsCorrect == Spec => []PagedClientsWithinLimit
<1>1. IInv => PagedClientsWithinLimit
  <2>1. SUFFICES ASSUME IInv, NEW k \in Clients,
                        \A c \in Callers : ClientOf[c] = k => c \in Paged
                 PROVE  Cardinality(CallsOf(k)) <= Concurrency[k]
    BY DEF PagedClientsWithinLimit
  <2>2. CallsOf(k) \subseteq Holders(k)
    BY <2>1 DEF CallsOf, OnThread, Holders, InCall
  <2>3. Cardinality(CallsOf(k)) <= Cardinality(Holders(k)) /\ Cardinality(CallsOf(k)) \in Nat
    BY <2>2, HoldersFinite, FS_Subset, FS_CardinalityType
  <2>4. free[k] + Cardinality(Holders(k)) = Concurrency[k] /\ free[k] \in Nat
    BY <2>1 DEF IInv, PermitsConserved, TypeOK
  <2>5. QED
    BY <2>1, <2>3, <2>4, ApiAssumption, HoldersFinite
<1>2. QED
  BY ApiInv, <1>1, PTL

(* A generator that ends has given its consumer every page.                *)
THEOREM ListingsCorrect == Spec => []ListingsAreComplete
<1>1. IInv => ListingsAreComplete
  BY DEF IInv
<1>2. QED
  BY ApiInv, <1>1, PTL

-----------------------------------------------------------------------------
(* Permits and threads cannot deadlock, whatever fails and however many    *)
(* callers of whatever clients share the pool.                             *)
THEOREM NoDeadlock == Spec => []SomeoneCanGo
<1>1. IInv => SomeoneCanGo
  <2>1. SUFFICES ASSUME IInv, NEW c \in Callers, pc[c] \notin {"done", "failed"}
                 PROVE  \E d \in Callers : CanGo(d)
    BY DEF SomeoneCanGo, AllEnded
  <2>2. ASSUME NEW d \in Callers, pc[d] \in InCall PROVE \E e \in Callers : CanGo(e)
    <3>1. CASE pc[d] # "submitted"
      BY <2>2, <3>1 DEF InCall, CanGo
    <3>2. CASE pc[d] = "submitted" /\ Cardinality(OnThread) < Workers
      BY <3>2 DEF CanGo
    <3>3. CASE ~(Cardinality(OnThread) < Workers)
      <4>1. OnThread # {}
        BY <3>3, ApiAssumption, FS_EmptySet
      <4>2. PICK e \in Callers : pc[e] = "calling"
        BY <4>1 DEF OnThread
      <4>3. QED
        BY <4>2 DEF CanGo
    <3>4. QED
      BY <3>1, <3>2, <3>3
  <2>3. CASE pc[c] = "waiting"
    <3> DEFINE k == ClientOf[c]
    <3>1. k \in Clients /\ free[k] \in Nat /\ Concurrency[k] \in Nat \ {0}
      BY <2>1, ApiAssumption DEF IInv, TypeOK
    <3>2. CASE free[k] > 0
      BY <2>3, <3>2 DEF CanGo
    <3>3. CASE ~(free[k] > 0)
      <4>1. free[k] = 0
        BY <3>1, <3>3
      <4>2. Cardinality(Holders(k)) = Concurrency[k]
        BY <2>1, <3>1, <4>1, HoldersFinite DEF IInv, PermitsConserved
      <4>3. Holders(k) # {}
        BY <3>1, <4>2, FS_EmptySet
      <4>4. PICK d \in Callers : pc[d] \in InCall
        BY <4>3, ApiAssumption DEF Holders
      <4>5. QED
        BY <2>2, <4>4
    <3>4. QED
      BY <3>2, <3>3
  <2>4. CASE pc[c] \in InCall
    BY <2>2, <2>4
  <2>5. CASE pc[c] = "working"
    BY <2>5 DEF CanGo
  <2>6. QED
    BY <2>1, <2>3, <2>4, <2>5 DEF IInv, TypeOK, States
<1>2. QED
  BY ApiInv, <1>1, PTL

(* A caller that has not ended has at most all its pages ahead.            *)
LEMMA PagesAhead ==
  ASSUME IInv, NEW c \in Callers, pc[c] \notin {"done", "failed"}
  PROVE  PagesAfter(c) \in Nat
<1>1. CASE c \notin Paged
  BY <1>1 DEF PagesAfter
<1>2. CASE c \in Paged
  <2>1. numPages[c] \in Nat /\ read[c] \in Nat /\ read[c] <= numPages[c]
    BY <1>2, ApiAssumption DEF IInv, TypeOK
  <2>2. pc[c] # "working" => read[c] < numPages[c]
    BY <1>2 DEF IInv, TypeOK, Unread, States
  <2>3. QED
    BY <1>2, <2>1, <2>2 DEF PagesAfter
<1>3. QED
  BY <1>1, <1>2

(* Every step of a caller leaves it fewer to take, and the others as many: *)
(* with NoDeadlock this is why every caller ends, as TLC finds under       *)
(* fairness.                                                               *)
THEOREM StepsAreBounded == Spec => StepsRunOut
<1>1. ASSUME IInv, NEW c \in Callers, Step(c)
      PROVE  /\ StepsLeft(c)' < StepsLeft(c)
             /\ \A d \in Callers \ {c} : StepsLeft(d)' = StepsLeft(d)
  <2> DEFINE p == PagesAfter(c)
  <2>1. /\ pc[c] \notin {"done", "failed"} /\ UNCHANGED numPages
        /\ \A d \in Callers \ {c} : pc'[d] = pc[d] /\ read'[d] = read[d]
    BY <1>1 DEF Step, Submit, Start, End, Receive, Raise, Continue, ConsumerRaises, IInv, TypeOK
  <2>2. \A d \in Callers \ {c} : StepsLeft(d)' = StepsLeft(d)
    BY <2>1 DEF StepsLeft, PagesAfter
  <2>3. StepsLeft(c) = 5 * p + Stage[pc[c]] /\ p \in Nat /\ Stage[pc[c]] \in 1..5
    BY <1>1, <2>1, PagesAhead DEF StepsLeft, Stage, IInv, TypeOK, States, InCall
  <2>4. CASE pc'[c] \in {"done", "failed"}
    <3>1. StepsLeft(c)' = 0
      BY <2>4 DEF StepsLeft
    <3> HIDE DEF p
    <3>2. QED
      BY <2>2, <2>3, <3>1
  <2>5. CASE Submit(c) \/ Start(c) \/ End(c)
    <3>1. /\ UNCHANGED read
          /\ \/ pc[c] = "waiting" /\ pc'[c] = "submitted"
             \/ pc[c] = "submitted" /\ pc'[c] = "calling"
             \/ pc[c] = "calling" /\ pc'[c] \in {"answered", "broken"}
      BY <1>1, <2>5 DEF Submit, Start, End, IInv, TypeOK
    <3>2. PagesAfter(c)' = p
      BY <2>1, <3>1 DEF PagesAfter
    <3>3. Stage[pc'[c]] \in 1..5 /\ Stage[pc'[c]] < Stage[pc[c]]
      BY <3>1 DEF Stage
    <3>4. StepsLeft(c)' = 5 * p + Stage[pc'[c]]
      BY <3>1, <3>2 DEF StepsLeft
    <3> HIDE DEF p
    <3>5. QED
      BY <2>2, <2>3, <3>3, <3>4
  <2>6. CASE Receive(c)
    <3>1. pc[c] = "answered" /\ pc'[c] = "working" /\ read'[c] = read[c] + 1
      BY <1>1, <2>6 DEF Receive, IInv, TypeOK
    <3>2. PagesAfter(c)' = p
      BY <2>1, <3>1 DEF PagesAfter
    <3>3. Stage[pc[c]] = 2 /\ Stage[pc'[c]] = 1
      BY <3>1 DEF Stage
    <3>4. StepsLeft(c)' = 5 * p + 1
      BY <3>1, <3>2, <3>3 DEF StepsLeft
    <3> HIDE DEF p
    <3>5. QED
      BY <2>2, <2>3, <3>3, <3>4
  <2>7. CASE Continue(c) /\ pc'[c] = "waiting"
    <3>1. pc[c] = "working" /\ HasToken(c) /\ UNCHANGED read
      BY <1>1, <2>7 DEF Continue, IInv, TypeOK
    <3>2. c \in Paged /\ numPages[c] \in Nat /\ read[c] \in Nat
      BY <1>1, <3>1, ApiAssumption DEF HasToken, IInv, TypeOK
    <3>3. PagesAfter(c)' = p - 1 /\ p # 0
      BY <2>1, <2>7, <3>1, <3>2 DEF PagesAfter, HasToken
    <3>4. Stage[pc[c]] = 1 /\ Stage[pc'[c]] = 5
      BY <2>7, <3>1 DEF Stage
    <3>5. StepsLeft(c)' = 5 * (p - 1) + 5
      BY <2>7, <3>3, <3>4 DEF StepsLeft
    <3> HIDE DEF p
    <3>6. QED
      BY <2>2, <2>3, <3>4, <3>5
  <2>8. QED
    <3>1. pc'[c] \notin {"done", "failed"} =>
            \/ Submit(c) \/ Start(c) \/ End(c) \/ Receive(c)
            \/ Continue(c) /\ pc'[c] = "waiting"
      BY <1>1 DEF Step, Raise, Continue, ConsumerRaises, IInv, TypeOK
    <3>2. QED
      BY <2>4, <2>5, <2>6, <2>7, <3>1
<1>2. IInv /\ [Next]_vars =>
        [\E c \in Callers :
           /\ StepsLeft(c)' < StepsLeft(c)
           /\ \A d \in Callers \ {c} : StepsLeft(d)' = StepsLeft(d)]_vars
  BY <1>1 DEF Next
<1>3. QED
  BY <1>2, ApiInv, PTL DEF Spec, StepsRunOut
=============================================================================
