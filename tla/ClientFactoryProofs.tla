------------------------ MODULE ClientFactoryProofs -------------------------
(***************************************************************************)
(* Proofs about ClientFactory, for any callers, programs, keys and roles.  *)
(***************************************************************************)
EXTENDS ClientFactory, FiniteSetTheorems, TLAPS

(* What a caller works on at the moment, as long as it has not ended.      *)
LEMMA CurrentIsOp ==
  ASSUME TypeOK, NEW c \in Callers, pc[c] # "done"
  PROVE  /\ Program[c] \in Seq(Op) /\ Len(Program[c]) \in Nat
         /\ at[c] \in 1..Len(Program[c])
         /\ Current(c) \in Op /\ Key(c) \in Keys
         /\ LockOf(c) \in Locks
         /\ CellOf(c) \in Cells \cup {NoRole}
         /\ IsClient(c) => CellOf(c) \in Roles \cup {NoRole}
         /\ ~IsClient(c) => CellOf(c) \in Keys
<1>1. /\ Program[c] \in Seq(Op) /\ Len(Program[c]) \in Nat
      /\ at[c] \in 1..Len(Program[c])
  BY FactoryAssumption DEF TypeOK
<1>2. Current(c) \in Op
  BY <1>1 DEF Current
<1>3. Key(c) \in Keys
  BY <1>2 DEF Key, Op
<1>4. RoleOf[Key(c)] \in Roles \cup {NoRole}
  BY <1>3, FactoryAssumption
<1> QED
  BY <1>1, <1>2, <1>3, <1>4 DEF LockOf, CellOf, Locks, Cells

(* Callers that want the same cell take the same lock.                     *)
LEMMA SameCellSameLock ==
  ASSUME TypeOK, NEW c \in Callers, NEW d \in Callers,
         pc[c] # "done", pc[d] # "done",
         CellOf(c) = CellOf(d), CellOf(c) \in Cells
  PROVE  LockOf(c) = LockOf(d)
<1>1. /\ IsClient(c) => CellOf(c) \in Roles \cup {NoRole}
      /\ ~IsClient(c) => CellOf(c) \in Keys
      /\ IsClient(d) => CellOf(d) \in Roles \cup {NoRole}
      /\ ~IsClient(d) => CellOf(d) \in Keys
  BY CurrentIsOp
<1>2. Roles \cap Keys = {}
  BY FactoryAssumption
<1> QED
  BY <1>1, <1>2, FactoryAssumption DEF LockOf, CellOf, Cells

LEMMA InitInv == Init => IInv
<1> SUFFICES ASSUME Init PROVE IInv
  OBVIOUS
<1>1. \A c \in Callers : Program[c] \in Seq(Op) /\ Len(Program[c]) \in Nat
  BY FactoryAssumption
<1>2. \A c \in Callers : pc[c] # "done" => at[c] \in 1..Len(Program[c])
  <2>1. \A c \in Callers : Program[c] # <<>> => Len(Program[c]) > 0
    BY <1>1
  <2> QED
    BY <1>1, <2>1 DEF Init
<1>3. TypeOK
  BY <1>2, FactoryAssumption DEF Init, TypeOK, States, Values
<1>4. WaitersHaveCells /\ HoldersExclude
  BY DEF Init, WaitersHaveCells, HoldersExclude, Waits, Holds
<1>5. CountsAgree /\ SessionsAreValues /\ ClientsHaveSessions
  BY FactoryAssumption DEF Init, CountsAgree, SessionsAreValues, ClientsHaveSessions, Cells
<1> QED
  BY <1>3, <1>4, <1>5 DEF IInv

(* What completing an operation does, whichever way it completes.          *)
LEMMA CompleteEffect ==
  ASSUME IInv, NEW c \in Callers, pc[c] \notin {"done", "failed"}, Complete(c)
  PROVE  /\ pc' \in [Callers -> States] /\ at' \in [Callers -> Nat \ {0}]
         /\ clients' \in SUBSET Keys /\ made' \in [Keys -> Nat]
         /\ \A d \in Callers : pc'[d] # "done" => at'[d] \in 1..Len(Program[d])
         /\ pc'[c] \in {"ready", "done"}
         /\ \A d \in Callers : d # c => pc'[d] = pc[d] /\ at'[d] = at[d]
         /\ \A k \in Keys : made'[k] = IF k \in clients' THEN 1 ELSE 0
         /\ IF IsClient(c) THEN clients' = clients \cup {Key(c)} ELSE clients' = clients
<1> DEFINE n == at[c]
           len == Len(Program[c])
<1>1. /\ TypeOK /\ len \in Nat /\ n \in 1..len /\ Key(c) \in Keys
  BY CurrentIsOp DEF IInv
<1>2. /\ at' = [at EXCEPT ![c] = n + 1]
      /\ pc' = [pc EXCEPT ![c] = IF n = len THEN "done" ELSE "ready"]
  BY DEF Complete, NextPc
<1>3. pc' \in [Callers -> States] /\ at' \in [Callers -> Nat \ {0}]
  BY <1>1, <1>2 DEF TypeOK, States
<1>4. /\ pc'[c] = (IF n = len THEN "done" ELSE "ready") /\ at'[c] = n + 1
      /\ \A d \in Callers : d # c => pc'[d] = pc[d] /\ at'[d] = at[d]
  BY <1>1, <1>2 DEF TypeOK
<1>5. \A d \in Callers : pc'[d] # "done" => at'[d] \in 1..Len(Program[d])
  <2>1. pc'[c] # "done" => at'[c] \in 1..len
    BY <1>1, <1>4
  <2>2. \A d \in Callers : pc[d] # "done" => at[d] \in 1..Len(Program[d])
    BY <1>1 DEF TypeOK
  <2> QED
    BY <1>4, <2>1, <2>2
<1>6. /\ clients' \in SUBSET Keys /\ made' \in [Keys -> Nat]
      /\ \A k \in Keys : made'[k] = IF k \in clients' THEN 1 ELSE 0
      /\ IF IsClient(c) THEN clients' = clients \cup {Key(c)} ELSE clients' = clients
  <2>1. CASE IsClient(c) /\ Key(c) \notin clients
    <3>1. clients' = clients \cup {Key(c)} /\ made' = [made EXCEPT ![Key(c)] = made[Key(c)] + 1]
      BY <2>1 DEF Complete, Install
    <3>2. made[Key(c)] = 0
      BY <1>1, <2>1 DEF IInv, CountsAgree
    <3> QED
      BY <1>1, <2>1, <3>1, <3>2 DEF TypeOK, IInv, CountsAgree
  <2>2. CASE ~IsClient(c) \/ Key(c) \in clients
    <3>1. UNCHANGED <<clients, made>>
      BY <2>2 DEF Complete, Install
    <3> QED
      BY <1>1, <2>2, <3>1 DEF TypeOK, IInv, CountsAgree
  <2> QED
    BY <2>1, <2>2
<1> QED
  BY <1>3, <1>4, <1>5, <1>6

(* A caller that an action of another leaves alone keeps its operation.    *)
LEMMA SameOperation ==
  ASSUME NEW d \in Callers, at'[d] = at[d]
  PROVE  /\ CellOf(d)' = CellOf(d) /\ LockOf(d)' = LockOf(d)
BY DEF CellOf, LockOf, IsClient, Key, Current

(* An operation that completes without a call: cells and locks stay.       *)
LEMMA FindInv ==
  ASSUME IInv, NEW c \in Callers, Find(c) \/ LockAndFind(c)
  PROVE  IInv'
<1>1. /\ TypeOK /\ pc[c] \in {"ready", "locking"} /\ Complete(c)
      /\ UNCHANGED <<holder, cell, filled>>
  BY DEF Find, LockAndFind, IInv
<1>2. /\ pc' \in [Callers -> States] /\ at' \in [Callers -> Nat \ {0}]
      /\ clients' \in SUBSET Keys /\ made' \in [Keys -> Nat]
      /\ \A d \in Callers : pc'[d] # "done" => at'[d] \in 1..Len(Program[d])
      /\ pc'[c] \in {"ready", "done"}
      /\ \A d \in Callers : d # c => pc'[d] = pc[d] /\ at'[d] = at[d]
      /\ \A k \in Keys : made'[k] = IF k \in clients' THEN 1 ELSE 0
      /\ IF IsClient(c) THEN clients' = clients \cup {Key(c)} ELSE clients' = clients
  BY <1>1, CompleteEffect
<1>3. TypeOK'
  BY <1>1, <1>2 DEF TypeOK
<1>4. WaitersHaveCells' /\ HoldersExclude'
  <2>1. ASSUME NEW d \in Callers, Waits(d)'
        PROVE  /\ CellOf(d)' = CellOf(d) /\ LockOf(d)' = LockOf(d) /\ pc'[d] = pc[d]
    <3>1. d # c
      BY <1>2, <2>1 DEF Waits
    <3> QED
      BY <1>2, <3>1, SameOperation
  <2> QED
    BY <1>1, <2>1 DEF IInv, WaitersHaveCells, HoldersExclude, Waits, Holds
<1>5. CountsAgree' /\ SessionsAreValues'
  BY <1>1, <1>2 DEF IInv, CountsAgree, SessionsAreValues
<1>6. ASSUME IsClient(c), Key(c) \notin clients, RoleOf[Key(c)] # NoRole
      PROVE  cell[RoleOf[Key(c)]] = "value"
  <2>1. Key(c) \in Keys /\ RoleOf[Key(c)] \in Roles
    BY <1>1, <1>6, CurrentIsOp, FactoryAssumption
  <2>2. cell[RoleOf[Key(c)]] # "unset"
    BY <1>6, <2>1 DEF Find, LockAndFind, Known, HaveSession, FilledMeanwhile, CellOf
  <2> QED
    BY <1>1, <2>1, <2>2 DEF IInv, SessionsAreValues, TypeOK, Values, Cells
<1>7. ClientsHaveSessions'
  BY <1>1, <1>2, <1>6 DEF IInv, ClientsHaveSessions
<1> QED
  BY <1>3, <1>4, <1>5, <1>7 DEF IInv

(* The steps on the way to a call: only pc and the lock of the caller      *)
(* change.                                                                 *)
LEMMA WaitInv ==
  ASSUME IInv, NEW c \in Callers, Miss(c) \/ LockAndFetch(c) \/ TakePermit(c)
  PROVE  IInv'
<1>1. /\ TypeOK /\ UNCHANGED <<at, cell, filled, clients, made>>
      /\ pc[c] \in {"ready", "locking", "queueing"}
      /\ \A d \in Callers : d # c => pc'[d] = pc[d]
      /\ pc'[c] \in {"locking", "queueing", "calling"}
      /\ pc' \in [Callers -> States]
  BY DEF Miss, LockAndFetch, TakePermit, IInv, TypeOK, States
<1>2. /\ LockOf(c) \in Locks /\ CellOf(c) \in Cells \cup {NoRole}
      /\ Key(c) \in Keys
  BY <1>1, CurrentIsOp
<1>3. holder' \in [Locks -> SUBSET Callers]
  <2>1. CASE LockAndFetch(c)
    <3>1. holder' = [holder EXCEPT ![LockOf(c)] = {c}] /\ {c} \in SUBSET Callers
      BY <2>1 DEF LockAndFetch
    <3> QED
      BY <1>1, <1>2, <3>1 DEF TypeOK
  <2>2. CASE Miss(c) \/ TakePermit(c)
    BY <1>1, <2>2 DEF Miss, TakePermit, TypeOK
  <2> QED
    BY <2>1, <2>2
<1>4. TypeOK'
  BY <1>1, <1>3 DEF TypeOK
<1>5. \A d \in Callers : CellOf(d)' = CellOf(d) /\ LockOf(d)' = LockOf(d)
  BY <1>1, SameOperation
<1>6. CellOf(c) \in Cells
  <2>1. CASE Miss(c)
    <3>1. ~Known(c)
      BY <2>1 DEF Miss
    <3>2. CASE IsClient(c)
      <4>1. RoleOf[Key(c)] # NoRole
        BY <3>1, <3>2 DEF Known, HaveSession
      <4> QED
        BY <1>2, <3>2, <4>1 DEF CellOf
    <3>3. CASE ~IsClient(c)
      BY <1>2, <3>3 DEF CellOf, Cells
    <3> QED
      BY <3>2, <3>3
  <2>2. CASE LockAndFetch(c) \/ TakePermit(c)
    BY <2>2 DEF LockAndFetch, TakePermit, IInv, WaitersHaveCells, Waits
  <2> QED
    BY <2>1, <2>2
<1>7. WaitersHaveCells'
  BY <1>1, <1>5, <1>6 DEF IInv, WaitersHaveCells, Waits
<1>8. HoldersExclude'
  <2>1. CASE Miss(c)
    <3>1. pc'[c] = "locking" /\ UNCHANGED holder
      BY <1>1, <2>1 DEF Miss, TypeOK
    <3> QED
      BY <1>1, <1>5, <3>1 DEF IInv, HoldersExclude, Holds
  <2>2. CASE LockAndFetch(c)
    <3>1. /\ holder[LockOf(c)] = {} /\ cell[CellOf(c)] = "unset"
          /\ holder' = [holder EXCEPT ![LockOf(c)] = {c}]
      BY <2>2 DEF LockAndFetch, FilledMeanwhile
    <3>2. /\ holder'[LockOf(c)] = {c}
          /\ \A l \in Locks : l # LockOf(c) => holder'[l] = holder[l]
      BY <1>1, <1>2, <3>1 DEF TypeOK
    <3>3. ASSUME NEW d \in Callers, d # c, Holds(d)'
          PROVE  holder'[LockOf(d)] = {d} /\ cell[CellOf(d)] = "unset"
      <4>1. Holds(d) /\ pc[d] # "done"
        BY <1>1, <3>3 DEF Holds
      <4>2. holder[LockOf(d)] = {d} /\ cell[CellOf(d)] = "unset"
        BY <4>1 DEF IInv, HoldersExclude
      <4>3. LockOf(d) \in Locks /\ LockOf(d) # LockOf(c)
        BY <1>1, <3>1, <4>1, <4>2, CurrentIsOp
      <4> QED
        BY <3>2, <4>2, <4>3
    <3> QED
      BY <1>1, <1>5, <3>1, <3>2, <3>3 DEF HoldersExclude
  <2>3. CASE TakePermit(c)
    <3>1. pc[c] = "queueing" /\ UNCHANGED holder
      BY <2>3 DEF TakePermit
    <3>2. \A d \in Callers : Holds(d)' => Holds(d)
      BY <1>1, <3>1 DEF Holds
    <3> QED
      BY <1>1, <1>5, <3>1, <3>2 DEF IInv, HoldersExclude
  <2> QED
    BY <2>1, <2>2, <2>3
<1>9. CountsAgree' /\ SessionsAreValues' /\ ClientsHaveSessions'
  BY <1>1 DEF IInv, CountsAgree, SessionsAreValues, ClientsHaveSessions
<1> QED
  BY <1>4, <1>7, <1>8, <1>9 DEF IInv

(* Releasing the caller's lock does not disturb the other holders.         *)
LEMMA ReleaseEffect ==
  ASSUME IInv, NEW c \in Callers, Calling(c), Release(c)
  PROVE  /\ holder' \in [Locks -> SUBSET Callers]
         /\ CellOf(c) \in Cells /\ cell[CellOf(c)] = "unset"
         /\ \A d \in Callers : d # c /\ Holds(d) =>
              holder'[LockOf(d)] = {d} /\ cell[CellOf(d)] = "unset" /\ CellOf(d) # CellOf(c)
<1>1. /\ TypeOK /\ Holds(c) /\ Waits(c) /\ pc[c] # "done"
  BY DEF IInv, Calling, Holds, Waits
<1>2. /\ LockOf(c) \in Locks /\ holder[LockOf(c)] = {c}
      /\ CellOf(c) \in Cells /\ cell[CellOf(c)] = "unset"
  BY <1>1, CurrentIsOp DEF IInv, HoldersExclude, WaitersHaveCells
<1>3. ASSUME NEW d \in Callers, d # c, Holds(d)
      PROVE  /\ holder'[LockOf(d)] = {d} /\ cell[CellOf(d)] = "unset"
             /\ CellOf(d) # CellOf(c)
  <2>1. pc[d] # "done"
    BY <1>3 DEF Holds
  <2>2. /\ LockOf(d) \in Locks /\ holder[LockOf(d)] = {d} /\ cell[CellOf(d)] = "unset"
    BY <1>1, <1>3, <2>1, CurrentIsOp DEF IInv, HoldersExclude
  <2>3. LockOf(d) # LockOf(c)
    BY <1>2, <1>3, <2>2
  <2>4. CellOf(d) # CellOf(c)
    BY <1>1, <1>2, <2>1, <2>3, SameCellSameLock
  <2> QED
    BY <1>1, <2>2, <2>3, <2>4 DEF Release, TypeOK
<1>4. holder' \in [Locks -> SUBSET Callers]
  BY <1>1, <1>2 DEF Release, TypeOK
<1> QED
  BY <1>2, <1>3, <1>4

(* A call that answers fills a cell that was unset until then.             *)
LEMMA AnswerInv ==
  ASSUME IInv, NEW c \in Callers, CallAnswers(c) \/ CallRefused(c)
  PROVE  IInv'
<1>1. /\ TypeOK /\ Calling(c) /\ Release(c) /\ Complete(c)
      /\ pc[c] \notin {"done", "failed"} /\ pc[c] = "calling"
  BY DEF CallAnswers, CallRefused, IInv, Calling
<1>2. PICK v \in {"value", "empty"} : Fill(c, v) /\ (v = "empty" => ~IsClient(c))
  BY DEF CallAnswers, CallRefused
<1>3. /\ holder' \in [Locks -> SUBSET Callers]
      /\ CellOf(c) \in Cells /\ cell[CellOf(c)] = "unset"
      /\ \A d \in Callers : d # c /\ Holds(d) =>
           holder'[LockOf(d)] = {d} /\ cell[CellOf(d)] = "unset" /\ CellOf(d) # CellOf(c)
  BY <1>1, ReleaseEffect
<1>4. /\ pc' \in [Callers -> States] /\ at' \in [Callers -> Nat \ {0}]
      /\ clients' \in SUBSET Keys /\ made' \in [Keys -> Nat]
      /\ \A d \in Callers : pc'[d] # "done" => at'[d] \in 1..Len(Program[d])
      /\ pc'[c] \in {"ready", "done"}
      /\ \A d \in Callers : d # c => pc'[d] = pc[d] /\ at'[d] = at[d]
      /\ \A k \in Keys : made'[k] = IF k \in clients' THEN 1 ELSE 0
      /\ IF IsClient(c) THEN clients' = clients \cup {Key(c)} ELSE clients' = clients
  BY <1>1, CompleteEffect
<1>5. /\ cell' = [cell EXCEPT ![CellOf(c)] = v]
      /\ filled' = [filled EXCEPT ![CellOf(c)] = filled[CellOf(c)] + 1]
  BY <1>2 DEF Fill
<1>6. /\ cell' \in [Cells -> Values] /\ filled' \in [Cells -> Nat]
      /\ cell'[CellOf(c)] = v
      /\ \A x \in Cells : x # CellOf(c) => cell'[x] = cell[x] /\ filled'[x] = filled[x]
      /\ filled'[CellOf(c)] = filled[CellOf(c)] + 1
  BY <1>1, <1>3, <1>5 DEF TypeOK, Values
<1>7. TypeOK'
  BY <1>3, <1>4, <1>6 DEF TypeOK
<1>8. ASSUME NEW d \in Callers, Waits(d)'
      PROVE  /\ CellOf(d)' = CellOf(d) /\ LockOf(d)' = LockOf(d)
             /\ d # c /\ pc'[d] = pc[d]
  <2>1. d # c
    BY <1>4, <1>8 DEF Waits
  <2> QED
    BY <1>4, <2>1, SameOperation
<1>9. WaitersHaveCells'
  BY <1>8 DEF IInv, WaitersHaveCells, Waits
<1>10. HoldersExclude'
  <2> SUFFICES ASSUME NEW d \in Callers, Holds(d)'
               PROVE  holder'[LockOf(d)'] = {d} /\ cell'[CellOf(d)'] = "unset"
    BY DEF HoldersExclude
  <2>1. Waits(d)' /\ d # c /\ Holds(d) /\ Waits(d)
    BY <1>8 DEF Waits, Holds
  <2>2. CellOf(d) \in Cells
    BY <2>1 DEF IInv, WaitersHaveCells
  <2> QED
    BY <1>3, <1>6, <1>8, <2>1, <2>2
<1>11. CountsAgree'
  <2>1. filled[CellOf(c)] = 0
    BY <1>3 DEF IInv, CountsAgree
  <2>2. \A x \in Cells : filled'[x] = IF cell'[x] = "unset" THEN 0 ELSE 1
    BY <1>6, <2>1 DEF IInv, CountsAgree
  <2> QED
    BY <1>4, <2>2 DEF CountsAgree
<1>12. SessionsAreValues'
  <2>1. v = "empty" => CellOf(c) \in Keys
    BY <1>1, <1>2, CurrentIsOp
  <2> QED
    BY <1>6, <2>1, FactoryAssumption DEF IInv, SessionsAreValues, Cells
<1>13. ClientsHaveSessions'
  <2>1. ASSUME NEW k \in clients', RoleOf[k] # NoRole PROVE cell'[RoleOf[k]] = "value"
    <3>1. k \in Keys /\ RoleOf[k] \in Cells
      BY <1>4, <2>1, FactoryAssumption DEF Cells
    <3>2. CASE k \in clients
      <4>1. cell[RoleOf[k]] = "value"
        BY <2>1, <3>2 DEF IInv, ClientsHaveSessions
      <4> QED
        BY <1>3, <1>6, <3>1, <4>1
    <3>3. CASE k \notin clients
      <4>1. IsClient(c) /\ k = Key(c)
        BY <1>4, <3>3
      <4> QED
        BY <1>2, <1>6, <4>1 DEF CellOf
    <3> QED
      BY <3>2, <3>3
  <2> QED
    BY <2>1 DEF ClientsHaveSessions
<1> QED
  BY <1>7, <1>9, <1>10, <1>11, <1>12, <1>13 DEF IInv

LEMMA RaiseInv ==
  ASSUME IInv, NEW c \in Callers, CallRaises(c)
  PROVE  IInv'
<1>1. /\ TypeOK /\ Calling(c) /\ Release(c)
      /\ UNCHANGED <<at, cell, filled, clients, made>>
      /\ pc' = [pc EXCEPT ![c] = "failed"]
  BY DEF CallRaises, IInv
<1>2. /\ pc' \in [Callers -> States] /\ pc'[c] = "failed" /\ pc[c] = "calling"
      /\ \A d \in Callers : d # c => pc'[d] = pc[d]
  BY <1>1 DEF TypeOK, States, Calling
<1>3. /\ holder' \in [Locks -> SUBSET Callers]
      /\ \A d \in Callers : d # c /\ Holds(d) =>
           holder'[LockOf(d)] = {d} /\ cell[CellOf(d)] = "unset"
  BY <1>1, ReleaseEffect
<1>4. TypeOK'
  BY <1>1, <1>2, <1>3 DEF TypeOK
<1>5. \A d \in Callers : CellOf(d)' = CellOf(d) /\ LockOf(d)' = LockOf(d)
  BY <1>1, SameOperation
<1>6. WaitersHaveCells' /\ HoldersExclude'
  BY <1>1, <1>2, <1>3, <1>5 DEF IInv, WaitersHaveCells, HoldersExclude, Waits, Holds
<1>7. CountsAgree' /\ SessionsAreValues' /\ ClientsHaveSessions'
  BY <1>1 DEF IInv, CountsAgree, SessionsAreValues, ClientsHaveSessions
<1> QED
  BY <1>4, <1>6, <1>7 DEF IInv

(* A constructor that raises leaves a session that others can use.         *)
LEMMA UnmadeInv ==
  ASSUME IInv, NEW c \in Callers, ConstructorRaises(c)
  PROVE  IInv'
<1>1. /\ TypeOK /\ UNCHANGED <<at, clients, made>> /\ pc' = [pc EXCEPT ![c] = "failed"]
      /\ IsClient(c) /\ pc[c] # "done"
      /\ \/ UNCHANGED <<holder, cell, filled>>
         \/ Calling(c) /\ Fill(c, "value") /\ Release(c)
  BY DEF ConstructorRaises, IInv
<1>2. /\ pc' \in [Callers -> States] /\ pc'[c] = "failed"
      /\ \A d \in Callers : d # c => pc'[d] = pc[d]
  BY <1>1 DEF TypeOK, States
<1>3. \A d \in Callers : CellOf(d)' = CellOf(d) /\ LockOf(d)' = LockOf(d)
  BY <1>1, SameOperation
<1>4. CASE UNCHANGED <<holder, cell, filled>>
  <2>1. TypeOK' /\ WaitersHaveCells' /\ HoldersExclude'
    BY <1>1, <1>2, <1>3, <1>4
       DEF IInv, TypeOK, WaitersHaveCells, HoldersExclude, Waits, Holds
  <2>2. CountsAgree' /\ SessionsAreValues' /\ ClientsHaveSessions'
    BY <1>1, <1>4 DEF IInv, CountsAgree, SessionsAreValues, ClientsHaveSessions
  <2> QED
    BY <2>1, <2>2 DEF IInv
<1>5. CASE Calling(c) /\ Fill(c, "value") /\ Release(c)
  <2>1. /\ holder' \in [Locks -> SUBSET Callers]
        /\ CellOf(c) \in Cells /\ cell[CellOf(c)] = "unset"
        /\ \A d \in Callers : d # c /\ Holds(d) =>
             holder'[LockOf(d)] = {d} /\ cell[CellOf(d)] = "unset" /\ CellOf(d) # CellOf(c)
    BY <1>5, ReleaseEffect
  <2>2. /\ cell' = [cell EXCEPT ![CellOf(c)] = "value"]
        /\ filled' = [filled EXCEPT ![CellOf(c)] = filled[CellOf(c)] + 1]
    BY <1>5 DEF Fill
  <2>3. /\ cell' \in [Cells -> Values] /\ filled' \in [Cells -> Nat]
        /\ cell'[CellOf(c)] = "value" /\ filled'[CellOf(c)] = filled[CellOf(c)] + 1
        /\ \A x \in Cells : x # CellOf(c) => cell'[x] = cell[x] /\ filled'[x] = filled[x]
    BY <1>1, <2>1, <2>2 DEF TypeOK, Values
  <2>4. TypeOK'
    BY <1>1, <1>2, <2>1, <2>3 DEF TypeOK
  <2>5. WaitersHaveCells'
    BY <1>2, <1>3 DEF IInv, WaitersHaveCells, Waits
  <2>6. HoldersExclude'
    <3> SUFFICES ASSUME NEW d \in Callers, Holds(d)'
                 PROVE  holder'[LockOf(d)] = {d} /\ cell'[CellOf(d)] = "unset"
      BY <1>3 DEF HoldersExclude
    <3>1. d # c /\ Holds(d) /\ Waits(d)
      BY <1>2 DEF Holds, Waits
    <3>2. CellOf(d) \in Cells
      BY <3>1 DEF IInv, WaitersHaveCells
    <3> QED
      BY <2>1, <2>3, <3>1, <3>2
  <2>7. CountsAgree'
    <3>1. filled[CellOf(c)] = 0
      BY <2>1 DEF IInv, CountsAgree
    <3> QED
      BY <1>1, <2>3, <3>1 DEF IInv, CountsAgree
  <2>8. SessionsAreValues'
    BY <2>3 DEF IInv, SessionsAreValues, Cells
  <2>9. ClientsHaveSessions'
    <3> SUFFICES ASSUME NEW k \in clients, RoleOf[k] # NoRole
                 PROVE  cell'[RoleOf[k]] = "value"
      BY <1>1 DEF ClientsHaveSessions
    <3>1. RoleOf[k] \in Cells /\ cell[RoleOf[k]] = "value"
      BY <1>1, FactoryAssumption DEF IInv, ClientsHaveSessions, TypeOK, Cells
    <3> QED
      BY <2>1, <2>3, <3>1
  <2> QED
    BY <2>4, <2>5, <2>6, <2>7, <2>8, <2>9 DEF IInv
<1> QED
  BY <1>1, <1>4, <1>5

LEMMA StepInv == IInv /\ [Next]_vars => IInv'
<1> SUFFICES ASSUME IInv, [Next]_vars PROVE IInv'
  OBVIOUS
<1>1. ASSUME NEW c \in Callers, Step(c) PROVE IInv'
  BY <1>1, FindInv, WaitInv, AnswerInv, RaiseInv, UnmadeInv DEF Step
<1>2. CASE UNCHANGED vars
  BY <1>2 DEF vars, IInv, TypeOK, WaitersHaveCells, HoldersExclude, CountsAgree,
       SessionsAreValues, ClientsHaveSessions, Waits, Holds, CellOf, LockOf,
       IsClient, Key, Current
<1> QED
  BY <1>1, <1>2 DEF Next

(* The inductive invariant of the factory holds whatever the callers do.   *)
THEOREM FactoryInv == Spec => []IInv
BY InitInv, StepInv, PTL DEF Spec

-----------------------------------------------------------------------------
(* Every variable has its type; no caller runs past its program.           *)
THEOREM TypeCorrect == Spec => []TypeOK
<1>1. IInv => TypeOK
  BY DEF IInv
<1> QED
  BY <1>1, FactoryInv, PTL

(* _get_client makes at most one client per (type, region, role): the      *)
(* cache is read again after the session was awaited.                      *)
THEOREM OneClientCorrect == Spec => []OneClientPerKey
<1>1. IInv => OneClientPerKey
  BY DEF IInv, CountsAgree, OneClientPerKey
<1> QED
  BY <1>1, FactoryInv, PTL

(* No role is assumed twice and no account looked up twice: get_session,   *)
(* get_account_id and get_account_alias check again under their lock.      *)
THEOREM FilledOnceCorrect == Spec => []FilledOnce
<1>1. IInv => FilledOnce
  BY DEF IInv, CountsAgree, FilledOnce
<1> QED
  BY <1>1, FactoryInv, PTL

(* A client of a role is never made before the role's session is there.    *)
THEOREM SessionsCorrect == Spec => []ClientsHaveSessions
<1>1. IInv => ClientsHaveSessions
  BY DEF IInv
<1> QED
  BY <1>1, FactoryInv, PTL

(* What is once stored in a cell stays: no late answer replaces it.        *)
THEOREM StableCorrect == Spec => ValuesAreStable
<1>1. IInv /\ [Next]_vars =>
        [\A x \in Cells : cell[x] # "unset" => cell'[x] = cell[x]]_cell
  <2> SUFFICES ASSUME IInv, [Next]_vars, NEW x \in Cells, cell[x] # "unset"
               PROVE  cell'[x] = cell[x]
    OBVIOUS
  <2>1. ASSUME NEW c \in Callers, Step(c) PROVE cell'[x] = cell[x]
    <3>1. ASSUME Calling(c), Release(c), NEW v, Fill(c, v) PROVE cell'[x] = cell[x]
      <4>1. cell[CellOf(c)] = "unset"
        BY <3>1, ReleaseEffect
      <4>2. x # CellOf(c)
        BY <4>1
      <4> QED
        BY <3>1, <4>2 DEF Fill, IInv, TypeOK
    <3>2. CASE CallAnswers(c) \/ CallRefused(c)
      BY <3>1, <3>2 DEF CallAnswers, CallRefused
    <3>3. CASE ConstructorRaises(c)
      BY <3>1, <3>3 DEF ConstructorRaises
    <3>4. CASE ~(CallAnswers(c) \/ CallRefused(c) \/ ConstructorRaises(c))
      BY <2>1, <3>4 DEF Step, Find, Miss, LockAndFind, LockAndFetch, TakePermit, CallRaises
    <3> QED
      BY <3>2, <3>3, <3>4
  <2>2. CASE UNCHANGED vars
    BY <2>2 DEF vars
  <2> QED
    BY <2>1, <2>2 DEF Next
<1> QED
  BY <1>1, FactoryInv, PTL DEF Spec, ValuesAreStable

-----------------------------------------------------------------------------
(* What is answered stays answered, and an operation that completes is.    *)
LEMMA AnswersStep == IInv /\ AnswersAreThere /\ [Next]_vars => AnswersAreThere'
<1> DEFINE Later(op) == IF op.op = "client" THEN op.key \in clients' ELSE cell'[op.key] # "unset"
<1> SUFFICES ASSUME IInv, AnswersAreThere, [Next]_vars,
                    NEW d \in Callers, NEW n \in 1..Len(Program[d]), n < at'[d]
             PROVE  Later(Program[d][n])
  BY DEF AnswersAreThere, Answered
<1>1. Program[d][n].key \in Cells
  <2>1. Program[d] \in Seq(Op) /\ Len(Program[d]) \in Nat
    BY FactoryAssumption
  <2>2. Program[d][n] \in Op
    BY <2>1
  <2>3. Program[d][n].key \in Keys
    BY <2>2 DEF Op
  <2> QED
    BY <2>3 DEF Cells
<1>2. ASSUME NEW c \in Callers, Step(c)
      PROVE  /\ clients \subseteq clients'
             /\ \A x \in Cells : cell[x] # "unset" => cell'[x] # "unset"
             /\ \/ at'[d] = at[d]
                \/ d = c /\ at'[d] = at[d] + 1 /\ Later(Program[d][at[d]])
  <2>1. CASE Miss(c) \/ LockAndFetch(c) \/ TakePermit(c) \/ CallRaises(c)
    BY <2>1 DEF Miss, LockAndFetch, TakePermit, CallRaises
  <2>2. CASE ConstructorRaises(c)
    <3>1. /\ UNCHANGED <<at, clients>>
          /\ cell' = cell \/ cell' = [cell EXCEPT ![CellOf(c)] = "value"]
      BY <2>2 DEF ConstructorRaises, Fill
    <3> QED
      BY <3>1 DEF IInv, TypeOK
  <2>3. CASE Find(c) \/ LockAndFind(c) \/ CallAnswers(c) \/ CallRefused(c)
    <3>1. Complete(c) /\ pc[c] \notin {"done", "failed"}
      BY <2>3 DEF Find, LockAndFind, CallAnswers, CallRefused, Calling
    <3>2. /\ IF IsClient(c) THEN clients' = clients \cup {Key(c)} ELSE clients' = clients
          /\ ~IsClient(c) => CellOf(c) \in Keys /\ CellOf(c) = Key(c)
      BY <3>1, CompleteEffect, CurrentIsOp DEF IInv, CellOf
    <3>3. /\ \A x \in Cells : cell[x] # "unset" => cell'[x] # "unset"
          /\ ~IsClient(c) => cell'[Key(c)] # "unset"
      <4>1. CASE Find(c) \/ LockAndFind(c)
        BY <4>1 DEF Find, LockAndFind, Known, FilledMeanwhile, CellOf
      <4>2. CASE CallAnswers(c) \/ CallRefused(c)
        <5>1. PICK v \in {"value", "empty"} : cell' = [cell EXCEPT ![CellOf(c)] = v]
          BY <4>2 DEF CallAnswers, CallRefused, Fill
        <5> QED
          BY <3>2, <5>1 DEF IInv, TypeOK, Cells
      <4> QED
        BY <2>3, <4>1, <4>2
    <3>4. Later(Program[c][at[c]])
      BY <3>2, <3>3 DEF IsClient, Key, Current
    <3>5. at' = [at EXCEPT ![c] = at[c] + 1]
      BY <3>1 DEF Complete
    <3> QED
      BY <3>2, <3>3, <3>4, <3>5 DEF IInv, TypeOK
  <2> QED
    BY <1>2, <2>1, <2>2, <2>3 DEF Step
<1>3. CASE \E c \in Callers : Step(c)
  <2>1. PICK c \in Callers : Step(c)
    BY <1>3
  <2>2. at[d] \in Nat
    BY DEF IInv, TypeOK
  <2>3. CASE n < at[d]
    <3>1. Answered(Program[d][n])
      BY <2>3 DEF AnswersAreThere
    <3> QED
      BY <1>1, <1>2, <2>1, <3>1 DEF Answered
  <2>4. CASE ~(n < at[d])
    <3>1. at'[d] # at[d]
      BY <2>4
    <3>2. at'[d] = at[d] + 1 /\ Later(Program[d][at[d]])
      BY <1>2, <2>1, <3>1
    <3>3. n = at[d]
      BY <2>2, <2>4, <3>2
    <3> QED
      BY <3>2, <3>3
  <2> QED
    BY <2>3, <2>4
<1>4. CASE UNCHANGED vars
  BY <1>4 DEF vars, AnswersAreThere, Answered
<1> QED
  BY <1>3, <1>4 DEF Next

(* Whoever goes on has what it asked for: no operation ends without its    *)
(* client or its value, whichever coroutine fetched it.                    *)
THEOREM AnswersCorrect == Spec => []AnswersAreThere
<1>1. Init => AnswersAreThere
  BY DEF Init, AnswersAreThere
<1>2. IInv /\ AnswersAreThere /\ [Next]_vars => AnswersAreThere'
  BY AnswersStep
<1> QED
  BY <1>1, <1>2, FactoryInv, PTL DEF Spec

(* An account id or alias is asked only of a client that is in the cache.  *)
THEOREM InUseCorrect == Spec => []ClientsInUseExist
<1>1. IInv /\ AnswersAreThere => ClientsInUseExist
  <2> SUFFICES ASSUME IInv, AnswersAreThere, NEW c \in Callers, pc[c] # "done", ~IsClient(c)
               PROVE  Key(c) \in clients
    BY DEF ClientsInUseExist
  <2>1. at[c] \in 1..Len(Program[c]) /\ Len(Program[c]) \in Nat
    BY CurrentIsOp DEF IInv
  <2>2. Program[c][at[c]].op # "client"
    BY DEF IsClient, Current
  <2>3. PICK m \in 1..(at[c] - 1) :
          Program[c][m] = [op |-> "client", key |-> Program[c][at[c]].key]
    BY <2>1, <2>2, EnsuredFirst
  <2>4. m \in 1..Len(Program[c]) /\ m < at[c]
    BY <2>1
  <2>5. Answered(Program[c][m])
    BY <2>4 DEF AnswersAreThere
  <2> QED
    BY <2>3, <2>5 DEF Answered, Key, Current
<1> QED
  BY <1>1, FactoryInv, AnswersCorrect, PTL

-----------------------------------------------------------------------------
(* A lock is taken by who needs it and given back by its holder only.      *)
LEMMA InitHeld == Init => LocksAreHeld
BY DEF Init, LocksAreHeld

LEMMA StepHeld == IInv /\ LocksAreHeld /\ [Next]_vars => LocksAreHeld'
<1> SUFFICES ASSUME IInv, LocksAreHeld, [Next]_vars,
                    NEW l \in Locks, holder'[l] # {}
             PROVE  \E d \in Callers : holder'[l] = {d} /\ Holds(d)' /\ LockOf(d)' = l
  BY DEF LocksAreHeld
<1>1. ASSUME NEW c \in Callers, holder'[l] = holder[l],
             \A d \in Callers : Holds(d) /\ LockOf(d) = l =>
               Holds(d)' /\ LockOf(d)' = LockOf(d)
      PROVE  \E d \in Callers : holder'[l] = {d} /\ Holds(d)' /\ LockOf(d)' = l
  BY <1>1 DEF LocksAreHeld
<1>2. ASSUME NEW c \in Callers, Step(c)
      PROVE  \E d \in Callers : holder'[l] = {d} /\ Holds(d)' /\ LockOf(d)' = l
  <2>1. CASE Find(c) \/ LockAndFind(c)
    <3>1. ~Holds(c) /\ Complete(c) /\ pc[c] \notin {"done", "failed"} /\ UNCHANGED holder
      BY <2>1 DEF Find, LockAndFind, Holds
    <3>2. \A d \in Callers : d # c => pc'[d] = pc[d] /\ at'[d] = at[d]
      BY <3>1, CompleteEffect
    <3> QED
      BY <1>1, <3>1, <3>2, SameOperation DEF Holds
  <2>2. CASE Miss(c) \/ TakePermit(c)
    <3>1. UNCHANGED <<at, holder>> /\ \A d \in Callers : Holds(d) => Holds(d)'
      BY <2>2 DEF Miss, TakePermit, Holds, IInv, TypeOK
    <3> QED
      BY <1>1, <3>1, SameOperation
  <2>3. CASE LockAndFetch(c)
    <3>1. /\ UNCHANGED at /\ holder[LockOf(c)] = {}
          /\ holder' = [holder EXCEPT ![LockOf(c)] = {c}]
          /\ Holds(c)' /\ \A d \in Callers : Holds(d) => Holds(d)'
      BY <2>3 DEF LockAndFetch, Holds, IInv, TypeOK
    <3>2. CASE l = LockOf(c)
      <4>1. holder'[l] = {c}
        BY <3>1, <3>2 DEF IInv, TypeOK
      <4> QED
        BY <3>1, <3>2, <4>1, SameOperation
    <3>3. CASE l # LockOf(c)
      <4>1. holder'[l] = holder[l]
        BY <3>1, <3>3 DEF IInv, TypeOK
      <4> QED
        BY <1>1, <3>1, <4>1, SameOperation
    <3> QED
      BY <3>2, <3>3
  <2>4. CASE \/ CallAnswers(c) \/ CallRefused(c) \/ CallRaises(c)
             \/ (ConstructorRaises(c) /\ Calling(c) /\ Release(c))
    <3>1. Calling(c) /\ Release(c) /\ pc[c] \notin {"done", "failed"}
      BY <2>4 DEF CallAnswers, CallRefused, CallRaises, Calling
    <3>2. LockOf(c) # l /\ holder'[l] = holder[l]
      BY <3>1 DEF Release, IInv, TypeOK
    <3>3. \A d \in Callers : d # c => pc'[d] = pc[d] /\ at'[d] = at[d]
      <4>1. CASE CallRaises(c) \/ ConstructorRaises(c)
        BY <4>1 DEF CallRaises, ConstructorRaises, IInv, TypeOK
      <4>2. CASE CallAnswers(c) \/ CallRefused(c)
        BY <3>1, <4>2, CompleteEffect DEF CallAnswers, CallRefused
      <4> QED
        BY <2>4, <4>1, <4>2
    <3>4. \A d \in Callers : Holds(d) /\ LockOf(d) = l => d # c
      BY <3>2
    <3> QED
      BY <1>1, <3>2, <3>3, <3>4, SameOperation DEF Holds
  <2>5. CASE ConstructorRaises(c) /\ ~(Calling(c) /\ Release(c))
    <3>1. /\ pc[c] \in {"ready", "locking"} /\ UNCHANGED <<at, holder>>
          /\ \A d \in Callers : d # c => pc'[d] = pc[d]
      BY <2>5 DEF ConstructorRaises, SessionThere, IInv, TypeOK
    <3>2. \A d \in Callers : Holds(d) => Holds(d)'
      BY <3>1 DEF Holds
    <3> QED
      BY <1>1, <3>1, <3>2, SameOperation
  <2> QED
    BY <1>2, <2>1, <2>2, <2>3, <2>4, <2>5 DEF Step
<1>3. CASE UNCHANGED vars
  <2>1. UNCHANGED <<pc, at, holder>>
    BY <1>3 DEF vars
  <2>2. \A d \in Callers : Holds(d)' = Holds(d) /\ LockOf(d)' = LockOf(d)
    BY <2>1, SameOperation DEF Holds
  <2> QED
    BY <2>1, <2>2 DEF LocksAreHeld
<1> QED
  BY <1>2, <1>3 DEF Next

THEOREM LocksCorrect == Spec => [](IInv /\ LocksAreHeld)
<1>1. Init => IInv /\ LocksAreHeld
  BY InitInv, InitHeld
<1>2. (IInv /\ LocksAreHeld) /\ [Next]_vars => (IInv /\ LocksAreHeld)'
  BY StepInv, StepHeld
<1> QED
  BY <1>1, <1>2, PTL DEF Spec

(* A semaphore without a free permit has someone in a call.                *)
LEMMA TakenPermit ==
  ASSUME NEW s, ~(Cardinality(HasPermit(s)) < StsLimit)
  PROVE  \E d \in Callers : Calling(d)
<1> SUFFICES ASSUME HasPermit(s) = {} PROVE FALSE
  BY DEF HasPermit
<1>1. Cardinality(HasPermit(s)) = 0
  BY FS_EmptySet
<1> QED
  BY <1>1, FactoryAssumption

(* The callers never wait for each other in a circle, however many there   *)
(* are, whatever they share, and whichever of them fail: the locks and the *)
(* semaphores of the factory cannot deadlock.                              *)
THEOREM NoDeadlock == Spec => []SomeoneCanGo
<1>1. IInv /\ LocksAreHeld => SomeoneCanGo
  <2> SUFFICES ASSUME IInv, LocksAreHeld, NEW c \in Callers, pc[c] \notin {"done", "failed"}
               PROVE  \E d \in Callers : CanGo(d)
    BY DEF SomeoneCanGo, AllEnded
  <2>1. ASSUME NEW d \in Callers, Holds(d) PROVE \E e \in Callers : CanGo(e)
    <3>1. CASE Calling(d)
      BY <3>1 DEF CanGo
    <3>2. CASE ~Calling(d)
      <4>1. pc[d] = "queueing"
        BY <2>1, <3>2 DEF Holds, Calling
      <4>2. CASE Cardinality(HasPermit(SemaphoreOf(d))) < StsLimit
        BY <4>1, <4>2 DEF CanGo
      <4>3. CASE ~(Cardinality(HasPermit(SemaphoreOf(d))) < StsLimit)
        <5>1. PICK e \in Callers : Calling(e)
          BY <4>3, TakenPermit
        <5> QED
          BY <5>1 DEF CanGo
      <4> QED
        BY <4>2, <4>3
    <3> QED
      BY <3>1, <3>2
  <2>2. CASE pc[c] = "ready"
    BY <2>2 DEF CanGo
  <2>3. CASE pc[c] = "locking"
    <3>1. LockOf(c) \in Locks
      BY <2>3, CurrentIsOp DEF IInv
    <3>2. CASE holder[LockOf(c)] = {}
      BY <2>3, <3>2 DEF CanGo
    <3>3. CASE holder[LockOf(c)] # {}
      <4>1. PICK d \in Callers : Holds(d)
        BY <3>1, <3>3 DEF LocksAreHeld
      <4> QED
        BY <2>1, <4>1
    <3> QED
      BY <3>2, <3>3
  <2>4. CASE pc[c] \in {"queueing", "calling"}
    BY <2>1, <2>4 DEF Holds
  <2> QED
    BY <2>2, <2>3, <2>4 DEF IInv, TypeOK, States
<1> QED
  BY <1>1, LocksCorrect, PTL

(* Every step of a caller leaves it fewer to take, and the others as many: *)
(* with NoDeadlock this is why every caller ends, as TLC finds under       *)
(* fairness.                                                               *)
THEOREM StepsAreBounded == Spec => StepsRunOut
<1>1. ASSUME IInv, NEW c \in Callers, Step(c)
      PROVE  /\ StepsLeft(c)' < StepsLeft(c)
             /\ \A d \in Callers \ {c} : StepsLeft(d)' = StepsLeft(d)
  <2> DEFINE n == Len(Program[c]) - at[c]
  <2>1. pc[c] \notin {"done", "failed"}
    BY <1>1 DEF Step, Find, Miss, LockAndFind, LockAndFetch, TakePermit,
                CallAnswers, CallRefused, CallRaises, ConstructorRaises, Calling
  <2>2. n \in Nat /\ Len(Program[c]) \in Nat /\ at[c] \in Nat
    BY <1>1, <2>1, CurrentIsOp DEF IInv
  <2>3. StepsLeft(c) = 4 * n + Stage[pc[c]] /\ Stage[pc[c]] \in 1..4
    BY <1>1, <2>1 DEF StepsLeft, Stage, IInv, TypeOK, States
  <2>4. CASE Complete(c)
    <3>1. /\ at' = [at EXCEPT ![c] = at[c] + 1] /\ pc' = [pc EXCEPT ![c] = NextPc(c)]
          /\ \A d \in Callers : d # c => pc'[d] = pc[d] /\ at'[d] = at[d]
      BY <1>1, <2>4 DEF Complete, IInv, TypeOK
    <3>2. at'[c] = at[c] + 1 /\ pc'[c] = NextPc(c)
      BY <1>1, <3>1 DEF IInv, TypeOK
    <3>3. StepsLeft(c)' = IF n = 0 THEN 0 ELSE 4 * (n - 1) + 4
      <4>1. CASE at[c] = Len(Program[c])
        <5>1. pc'[c] = "done" /\ n = 0
          BY <2>2, <3>2, <4>1 DEF NextPc
        <5> QED
          BY <5>1 DEF StepsLeft
      <4>2. CASE at[c] # Len(Program[c])
        <5>1. pc'[c] = "ready" /\ n # 0 /\ Len(Program[c]) - at'[c] = n - 1
          BY <2>2, <3>2, <4>2 DEF NextPc
        <5>2. Stage[pc'[c]] = 4
          BY <5>1 DEF Stage
        <5> QED
          BY <5>1, <5>2 DEF StepsLeft
      <4> QED
        BY <4>1, <4>2
    <3>4. StepsLeft(c)' < StepsLeft(c)
      <4> HIDE DEF n
      <4> QED
        BY <2>2, <2>3, <3>3
    <3> QED
      BY <3>1, <3>4 DEF StepsLeft
  <2>5. CASE ~Complete(c)
    <3>1. Miss(c) \/ LockAndFetch(c) \/ TakePermit(c) \/ CallRaises(c)
            \/ ConstructorRaises(c)
      BY <1>1, <2>5 DEF Step, Find, LockAndFind, CallAnswers, CallRefused
    <3>2. /\ UNCHANGED at
          /\ \A d \in Callers : d # c => pc'[d] = pc[d]
          /\ \/ pc'[c] = "failed"
             \/ pc[c] = "ready" /\ pc'[c] = "locking"
             \/ pc[c] = "locking" /\ pc'[c] \in {"queueing", "calling"}
             \/ pc[c] = "queueing" /\ pc'[c] = "calling"
      BY <1>1, <3>1
         DEF Miss, LockAndFetch, TakePermit, CallRaises, ConstructorRaises, IInv, TypeOK
    <3>3. CASE pc'[c] = "failed"
      <4>1. StepsLeft(c)' = 0
        BY <3>3 DEF StepsLeft
      <4> HIDE DEF n
      <4> QED
        BY <2>2, <2>3, <3>2, <4>1 DEF StepsLeft
    <3>4. CASE pc'[c] # "failed"
      <4>1. Stage[pc'[c]] \in 1..4 /\ Stage[pc'[c]] < Stage[pc[c]] /\ pc'[c] # "done"
        BY <3>2, <3>4 DEF Stage
      <4>2. StepsLeft(c)' = 4 * n + Stage[pc'[c]]
        BY <3>2, <3>4, <4>1 DEF StepsLeft
      <4> HIDE DEF n
      <4> QED
        BY <2>2, <2>3, <3>2, <4>1, <4>2 DEF StepsLeft
    <3> QED
      BY <3>3, <3>4
  <2> QED
    BY <2>4, <2>5
<1>2. IInv /\ [Next]_vars =>
        [\E c \in Callers :
           /\ StepsLeft(c)' < StepsLeft(c)
           /\ \A d \in Callers \ {c} : StepsLeft(d)' = StepsLeft(d)]_vars
  BY <1>1 DEF Next
<1> QED
  BY <1>2, FactoryInv, PTL DEF Spec, StepsRunOut

-----------------------------------------------------------------------------
(* The contract's names for what the operation of a caller wants.          *)
LEMMA SameWords ==
  ASSUME NEW c
  PROVE  /\ Contract!ForClient(c) = IsClient(c) /\ Contract!Wanted(c) = Key(c)
         /\ Contract!Source(c) = CellOf(c)
BY DEF Contract!ForClient, Contract!Wanted, Contract!Source, Contract!Operation,
       IsClient, Key, Current, CellOf

LEMMA ContractInit == Init => Contract!Init
<1> SUFFICES ASSUME Init PROVE Contract!Init
  OBVIOUS
<1>1. Outcome = [c \in Callers |-> IF Program[c] = <<>> THEN "done" ELSE "going"]
  BY DEF Init, Outcome
<1> QED
  BY <1>1 DEF Init, Contract!Init, Cells

(* Completing an operation is serving it: a client that is there already   *)
(* is not made again, which the contract cannot tell.                      *)
LEMMA CompleteServes ==
  ASSUME IInv, NEW c \in Callers, pc[c] \notin {"done", "failed"}, Complete(c)
  PROVE  Outcome[c] = "going" /\ Contract!Served(c)
<1>1. Outcome[c] = "going"
  BY DEF Outcome
<1>2. /\ at' = [at EXCEPT ![c] = at[c] + 1] /\ pc' = [pc EXCEPT ![c] = NextPc(c)]
  BY DEF Complete
<1>3. Outcome' = [Outcome EXCEPT ![c] = IF at[c] = Len(Program[c]) THEN "done" ELSE "going"]
  <2>1. ASSUME NEW d \in Callers
        PROVE  Outcome'[d] = IF d = c THEN IF at[c] = Len(Program[c]) THEN "done" ELSE "going"
                                      ELSE Outcome[d]
    BY <1>2 DEF Outcome, NextPc, IInv, TypeOK
  <2> QED
    BY <2>1 DEF Outcome
<1>4. clients' = IF IsClient(c) THEN clients \cup {Key(c)} ELSE clients
  BY CompleteEffect
<1> QED
  BY <1>1, <1>2, <1>3, <1>4, SameWords DEF Contract!Served

(* What a caller's call is about is missing until it ends: the lock keeps  *)
(* everybody else from filling the cell, and who has no session, no client.*)
LEMMA CallsAreForMissing ==
  ASSUME IInv, NEW c \in Callers, Calling(c)
  PROVE  Outcome[c] = "going" /\ Contract!Missing(c)
<1>1. Holds(c) /\ Waits(c) /\ pc[c] \notin {"done", "failed"}
  BY DEF Calling, Holds, Waits
<1>2. CellOf(c) \in Cells /\ cell[CellOf(c)] = "unset"
  BY <1>1 DEF IInv, HoldersExclude, WaitersHaveCells
<1>3. CellOf(c) # NoRole
  BY <1>2, FactoryAssumption DEF Cells
<1>4. IsClient(c) => Key(c) \notin clients
  BY <1>2, <1>3 DEF IInv, ClientsHaveSessions, CellOf
<1>5. Outcome[c] = "going"
  BY <1>1 DEF Outcome
<1> QED
  BY <1>2, <1>3, <1>4, <1>5, SameWords DEF Contract!Missing

LEMMA ContractStep == IInv /\ [Next]_vars => [Contract!Next]_Contract!vars
<1> SUFFICES ASSUME IInv, [Next]_vars PROVE Contract!Next \/ UNCHANGED Contract!vars
  OBVIOUS
<1>1. ASSUME NEW c \in Callers, Step(c) PROVE Contract!Next \/ UNCHANGED Contract!vars
  <2>1. CASE Find(c) \/ LockAndFind(c)
    <3>1. Complete(c) /\ pc[c] \in {"ready", "locking"} /\ UNCHANGED cell
      BY <2>1 DEF Find, LockAndFind
    <3>2. Outcome[c] = "going" /\ Contract!Served(c)
      BY <3>1, CompleteServes
    <3>3. CellOf(c) \in Roles \cup {NoRole} \/ ~IsClient(c)
      BY <3>1, CurrentIsOp DEF IInv
    <3>4. ~(/\ IsClient(c) => Key(c) \notin clients
            /\ CellOf(c) # NoRole
            /\ cell[CellOf(c)] = "unset")
      BY <2>1, <3>3 DEF Find, LockAndFind, Known, FilledMeanwhile, HaveSession, CellOf
    <3>5. ~Contract!Missing(c)
      BY <3>4, SameWords DEF Contract!Missing
    <3>6. Contract!Serve(c)
      BY <3>1, <3>2, <3>5 DEF Contract!Serve
    <3> QED
      BY <3>6 DEF Contract!Next
  <2>2. CASE Miss(c) \/ LockAndFetch(c) \/ TakePermit(c)
    <3>1. UNCHANGED <<at, cell, clients>>
      BY <2>2 DEF Miss, LockAndFetch, TakePermit
    <3>2. \A d \in Callers : pc'[d] = pc[d] \/ {pc[d], pc'[d]} \cap {"done", "failed"} = {}
      BY <2>2 DEF Miss, LockAndFetch, TakePermit, IInv, TypeOK
    <3>3. Outcome' = Outcome
      BY <3>2 DEF Outcome
    <3> QED
      BY <3>1, <3>3 DEF Contract!vars
  <2>3. CASE CallAnswers(c) \/ CallRefused(c)
    <3>1. Calling(c) /\ Complete(c) /\ pc[c] \notin {"done", "failed"}
      BY <2>3 DEF CallAnswers, CallRefused, Calling
    <3>2. \E v \in {"value"} \cup (IF IsClient(c) THEN {} ELSE {"empty"}) :
            cell' = [cell EXCEPT ![CellOf(c)] = v]
      BY <2>3 DEF CallAnswers, CallRefused, Fill
    <3>3. Contract!Fetch(c)
      BY <3>1, <3>2, CallsAreForMissing, CompleteServes, SameWords DEF Contract!Fetch
    <3> QED
      BY <3>3 DEF Contract!Next
  <2>4. CASE CallRaises(c)
    <3>1. Calling(c) /\ pc' = [pc EXCEPT ![c] = "failed"] /\ UNCHANGED <<at, cell, clients>>
      BY <2>4 DEF CallRaises
    <3>2. ASSUME NEW d \in Callers
          PROVE  Outcome'[d] = IF d = c THEN "failed" ELSE Outcome[d]
      BY <3>1 DEF Outcome, IInv, TypeOK
    <3>3. Outcome' = [Outcome EXCEPT ![c] = "failed"]
      BY <3>2 DEF Outcome
    <3>4. Contract!Fail(c)
      BY <3>1, <3>3, CallsAreForMissing DEF Contract!Fail
    <3> QED
      BY <3>4 DEF Contract!Next
  <2>5. CASE ConstructorRaises(c)
    <3>1. /\ pc[c] \notin {"done", "failed"} /\ IsClient(c) /\ Key(c) \notin clients
          /\ pc' = [pc EXCEPT ![c] = "failed"] /\ UNCHANGED <<at, clients>>
      BY <2>5 DEF ConstructorRaises
    <3>2. ASSUME NEW d \in Callers
          PROVE  Outcome'[d] = IF d = c THEN "failed" ELSE Outcome[d]
      BY <3>1 DEF Outcome, IInv, TypeOK
    <3>3. Outcome' = [Outcome EXCEPT ![c] = "failed"] /\ Outcome[c] = "going"
      BY <3>1, <3>2 DEF Outcome
    <3>4. cell' = IF Contract!Missing(c) THEN [cell EXCEPT ![CellOf(c)] = "value"] ELSE cell
      <4>1. CASE SessionThere(c) /\ UNCHANGED cell
        <5>1. ~(CellOf(c) # NoRole /\ cell[CellOf(c)] = "unset")
          <6>1. CellOf(c) \in Roles \cup {NoRole}
            BY <3>1, CurrentIsOp DEF IInv
          <6> QED
            BY <3>1, <4>1, <6>1 DEF SessionThere, Known, FilledMeanwhile, HaveSession, CellOf
        <5> QED
          BY <4>1, <5>1, SameWords DEF Contract!Missing
      <4>2. CASE Calling(c) /\ Fill(c, "value")
        BY <4>2, CallsAreForMissing DEF Fill
      <4> QED
        BY <2>5, <4>1, <4>2 DEF ConstructorRaises
    <3>5. Contract!Unmade(c)
      BY <3>1, <3>3, <3>4, SameWords DEF Contract!Unmade
    <3> QED
      BY <3>5 DEF Contract!Next
  <2> QED
    BY <1>1, <2>1, <2>2, <2>3, <2>4, <2>5 DEF Step
<1>2. CASE UNCHANGED vars
  <2>1. UNCHANGED <<at, pc, cell, clients>>
    BY <1>2 DEF vars
  <2> QED
    BY <2>1 DEF Outcome, Contract!vars
<1> QED
  BY <1>1, <1>2 DEF Next

(* Double-checked locking is atomic: each operation behaves as if it took  *)
(* effect at once, for any callers, programs and failures.                 *)
THEOREM ContractCorrect == Spec => ImplementsContract
BY FactoryInv, ContractInit, ContractStep, PTL
   DEF Spec, ImplementsContract, Contract!Spec
=============================================================================
