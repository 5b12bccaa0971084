---------------------------- MODULE ClientFactory ----------------------------
(***************************************************************************)
(* The client factory of one invocation and the coroutines that use it     *)
(* (ClientFactory, STSClient and SupportAppClient of src/clients.py,       *)
(* ensure_clients of src/executor.py).                                     *)
(*                                                                         *)
(* Three values are fetched once and kept: the session of a role, the      *)
(* account id of an STS client, the account alias of a support client.     *)
(* Each is a cell that is read, and, when it is unset, read again under a  *)
(* lock before the call that fills it.  A client is cached per key; making *)
(* one may wait for its role's session, and the cache is read again after  *)
(* that.  STS calls also take a permit of their client's semaphore.        *)
(*                                                                         *)
(* A caller is a coroutine with a program: the get_client, get_account_id  *)
(* and get_account_alias calls it makes, in order.  The executors are such *)
(* callers, and so are discovery jobs, which ask for a filter's client.    *)
(***************************************************************************)
EXTENDS Naturals, Sequences, FiniteSets

CONSTANTS
  Callers,      \* the coroutines
  Keys,         \* the (client type, region, role) keys of the client cache
  Roles,        \* the roles to assume
  NoRole,       \* the lambda's own role: the base session
  RoleOf,       \* the role of each key
  BaseSts,      \* the key of the factory's own STS client
  QueueRole,    \* the role of the queue, NoRole if it has none
  Program,      \* what each caller does: a sequence of [op, key] records
  StsLimit      \* STS_API_CONCURRENCY

Op == [op : {"client", "account", "alias"}, key : Keys]

ASSUME FactoryAssumption ==
  /\ NoRole \notin Roles \cup Keys
  /\ Roles \cap Keys = {}
  /\ RoleOf \in [Keys -> Roles \cup {NoRole}]
  /\ BaseSts \in Keys /\ RoleOf[BaseSts] = NoRole
  /\ QueueRole \in Roles \cup {NoRole}
  /\ Program \in [Callers -> Seq(Op)]
  /\ StsLimit \in Nat \ {0}

(* Every client in use was obtained first: the properties of the executor  *)
(* raise "await ensure_clients() first" otherwise.                         *)
ASSUME EnsuredFirst ==
  \A c \in Callers : \A n \in 1..Len(Program[c]) :
    Program[c][n].op # "client" =>
      \E m \in 1..(n - 1) :
        Program[c][m] = [op |-> "client", key |-> Program[c][n].key]

SessionLock == "session"
Cells == Roles \cup Keys          \* sessions, and account ids and aliases
Locks == Keys \cup {SessionLock}  \* one lock per client, one for all sessions

VARIABLES
  pc,       \* where each caller stands in its current operation
  at,       \* the index of that operation
  holder,   \* who holds each lock, {} or one caller
  cell,     \* what each cell holds
  filled,   \* how often a call filled each cell
  clients,  \* which keys the client cache holds
  made      \* how many clients were made for each key

vars == <<pc, at, holder, cell, filled, clients, made>>

States == {"ready", "locking", "queueing", "calling", "done", "failed"}
Values == {"unset", "value", "empty"}

(* ClientFactory's constructor, and the handler's get_sqs_client, which    *)
(* assumes the queue's role before the loop runs.                          *)
Init ==
  /\ pc      = [c \in Callers |-> IF Program[c] = <<>> THEN "done" ELSE "ready"]
  /\ at      = [c \in Callers |-> 1]
  /\ holder  = [l \in Locks |-> {}]
  /\ cell    = [x \in Cells |-> IF x = QueueRole THEN "value" ELSE "unset"]
  /\ filled  = [x \in Cells |-> IF x = QueueRole THEN 1 ELSE 0]
  /\ clients = {BaseSts}
  /\ made    = [k \in Keys |-> IF k = BaseSts THEN 1 ELSE 0]

-----------------------------------------------------------------------------
Current(c)  == Program[c][at[c]]
Key(c)      == Current(c).key
IsClient(c) == Current(c).op = "client"
CellOf(c)   == IF IsClient(c) THEN RoleOf[Key(c)] ELSE Key(c)
LockOf(c)   == IF IsClient(c) THEN SessionLock ELSE Key(c)

(* Sessions come from the factory's own STS client; an alias needs no      *)
(* permit.                                                                 *)
SemaphoreOf(c) == IF IsClient(c) THEN BaseSts ELSE Key(c)
TakesPermit(c) == Current(c).op # "alias"

Calling(c) == pc[c] = "calling"

HasPermit(s) == {d \in Callers : Calling(d) /\ TakesPermit(d) /\ SemaphoreOf(d) = s}

(* Mutant: every role counts as assumed.                                   *)
MutHaveSession == {NoRole} \cup Roles

(* The roles that get_session answers without waiting.                     *)
HaveSession == {NoRole} \cup {r \in Roles : cell[r] # "unset"}

(* What the current operation wants is there already, or can be made.      *)
Known(c) ==
  IF IsClient(c)
  THEN Key(c) \in clients \/ RoleOf[Key(c)] \in HaveSession
  ELSE cell[Key(c)] # "unset"

(* Mutant: the cache is not read again after the session was awaited.      *)
MutInstall(k) ==
  /\ clients' = clients \cup {k}
  /\ made'    = [made EXCEPT ![k] = @ + 1]

(* _get_client has the session: the cache is read (again), and a client is *)
(* made and kept only if there is none.                                    *)
Install(k) ==
  IF k \in clients
  THEN UNCHANGED <<clients, made>>
  ELSE /\ clients' = clients \cup {k}
       /\ made'    = [made EXCEPT ![k] = @ + 1]

(* Mutant: the end of the program is looked for one operation too late.    *)
MutNextPc(c) == IF at[c] > Len(Program[c]) THEN "done" ELSE "ready"

NextPc(c) == IF at[c] = Len(Program[c]) THEN "done" ELSE "ready"

(* The operation is over and the caller goes on to the next one.           *)
Complete(c) ==
  /\ at' = [at EXCEPT ![c] = @ + 1]
  /\ pc' = [pc EXCEPT ![c] = NextPc(c)]
  /\ IF IsClient(c) THEN Install(Key(c)) ELSE UNCHANGED <<clients, made>>

-----------------------------------------------------------------------------
(* The check without the lock, the fast path of all three.                 *)
Find(c) ==
  /\ pc[c] = "ready"
  /\ Known(c)
  /\ Complete(c)
  /\ UNCHANGED <<holder, cell, filled>>

Miss(c) ==
  /\ pc[c] = "ready"
  /\ ~Known(c)
  /\ pc' = [pc EXCEPT ![c] = "locking"]
  /\ UNCHANGED <<at, holder, cell, filled, clients, made>>

(* Mutant: no second check.                                                *)
MutFilledMeanwhile(c) == FALSE

(* The check under the lock: someone else filled the cell meanwhile ...    *)
FilledMeanwhile(c) == cell[CellOf(c)] # "unset"

LockAndFind(c) ==
  /\ pc[c] = "locking"
  /\ holder[LockOf(c)] = {}
  /\ FilledMeanwhile(c)
  /\ Complete(c)
  /\ UNCHANGED <<holder, cell, filled>>

(* ... or the caller keeps the lock while it makes the call.               *)
LockAndFetch(c) ==
  /\ pc[c] = "locking"
  /\ holder[LockOf(c)] = {}
  /\ ~FilledMeanwhile(c)
  /\ holder' = [holder EXCEPT ![LockOf(c)] = {c}]
  /\ pc' = [pc EXCEPT ![c] = IF TakesPermit(c) THEN "queueing" ELSE "calling"]
  /\ UNCHANGED <<at, cell, filled, clients, made>>

TakePermit(c) ==
  /\ pc[c] = "queueing"
  /\ Cardinality(HasPermit(SemaphoreOf(c))) < StsLimit
  /\ pc' = [pc EXCEPT ![c] = "calling"]
  /\ UNCHANGED <<at, holder, cell, filled, clients, made>>

(* Mutant: the lock is taken without a with statement, and kept.           *)
MutRelease(c) == UNCHANGED holder

Release(c) == holder' = [holder EXCEPT ![LockOf(c)] = {}]

(* The call answers: the cell is filled, the lock and the permit released, *)
(* and the operation completes without another suspension.                 *)
Fill(c, v) ==
  /\ cell'   = [cell EXCEPT ![CellOf(c)] = v]
  /\ filled' = [filled EXCEPT ![CellOf(c)] = @ + 1]

CallAnswers(c) ==
  /\ Calling(c)
  /\ Fill(c, "value")
  /\ Release(c)
  /\ Complete(c)

(* Mutant: a ClientError of assume_role is kept as an empty session too.   *)
MutCallRefused(c) ==
  /\ Calling(c)
  /\ Fill(c, "empty")
  /\ Release(c)
  /\ Complete(c)

(* A ClientError of get_caller_identity or get_account_alias becomes the   *)
(* empty string, for good.                                                 *)
CallRefused(c) ==
  /\ Calling(c)
  /\ ~IsClient(c)
  /\ Fill(c, "empty")
  /\ Release(c)
  /\ Complete(c)

(* Any error of assume_role, and a timeout or connection error of the      *)
(* other two, propagates: the caller fails.                                *)
CallRaises(c) ==
  /\ Calling(c)
  /\ pc' = [pc EXCEPT ![c] = "failed"]
  /\ Release(c)
  /\ UNCHANGED <<at, cell, filled, clients, made>>

(* The caller has its role's session: at once, or under the lock.          *)
SessionThere(c) ==
  \/ pc[c] = "ready" /\ Known(c)
  \/ pc[c] = "locking" /\ holder[LockOf(c)] = {} /\ FilledMeanwhile(c)

(* The constructor of the client raises: nothing is cached, but a session  *)
(* that was fetched for it stays.                                          *)
ConstructorRaises(c) ==
  /\ pc[c] \notin {"done", "failed"}
  /\ IsClient(c)
  /\ Key(c) \notin clients
  /\ \/ SessionThere(c) /\ UNCHANGED <<holder, cell, filled>>
     \/ Calling(c) /\ Fill(c, "value") /\ Release(c)
  /\ pc' = [pc EXCEPT ![c] = "failed"]
  /\ UNCHANGED <<at, clients, made>>

Step(c) ==
  \/ Find(c) \/ Miss(c)
  \/ LockAndFind(c) \/ LockAndFetch(c) \/ TakePermit(c)
  \/ CallAnswers(c) \/ CallRefused(c) \/ CallRaises(c) \/ ConstructorRaises(c)

AllEnded == \A c \in Callers : pc[c] \in {"done", "failed"}

Next == (\E c \in Callers : Step(c)) \/ (AllEnded /\ UNCHANGED vars)

Spec == Init /\ [][Next]_vars

(* The loop resumes every coroutine that can go on, and botocore's         *)
(* timeouts make every call end.                                           *)
FairSpec == Spec /\ \A c \in Callers : WF_vars(Step(c))

-----------------------------------------------------------------------------
(* Every variable has its type, and who has not ended stands at an         *)
(* operation of its program.                                               *)
TypeOK ==
  /\ pc      \in [Callers -> States]
  /\ at      \in [Callers -> Nat \ {0}]
  /\ holder  \in [Locks -> SUBSET Callers]
  /\ cell    \in [Cells -> Values]
  /\ filled  \in [Cells -> Nat]
  /\ clients \in SUBSET Keys
  /\ made    \in [Keys -> Nat]
  /\ \A c \in Callers : pc[c] # "done" => at[c] \in 1..Len(Program[c])

(* At most one client per (type, region, role), whoever asks for it and    *)
(* when.  A second one would have a semaphore of its own: the limits the   *)
(* README promises "by account/region" hold only because of this.          *)
OneClientPerKey == \A k \in Keys : made[k] <= 1

(* No role is assumed twice, no account looked up twice: the check under   *)
(* the lock sees what the previous holder stored.                          *)
FilledOnce == \A x \in Cells : filled[x] <= 1

(* A value once read by someone is what everybody reads afterwards: a late *)
(* answer never replaces it, not even a good one an empty one.             *)
ValuesAreStable ==
  [][\A x \in Cells : cell[x] # "unset" => cell'[x] = cell[x]]_cell

(* A client of a role exists only with that role's session: no caller gets *)
(* one that was made while the role was still being assumed.               *)
ClientsHaveSessions ==
  \A k \in clients : RoleOf[k] # NoRole => cell[RoleOf[k]] = "value"

(* Every coroutine gets all its answers or fails, also when it shares      *)
(* locks and permits with one that fails.                                  *)
EveryCallerEnds == <>AllEnded

Outcome ==
  [c \in Callers |-> IF pc[c] \in {"done", "failed"} THEN pc[c] ELSE "going"]

Contract == INSTANCE ClientContract WITH outcome <- Outcome

(* The checks before and under the locks make every get_client,            *)
(* get_account_id and get_account_alias take effect at once, in the order  *)
(* in which they end: a fetch of something that is missing, or a copy of   *)
(* what is there, whoever else is waiting for the same or has failed.      *)
ImplementsContract == Contract!Spec

-----------------------------------------------------------------------------
(* The inductive invariant behind them: whoever waits for a call, or makes *)
(* it, holds the lock of a cell that is still unset ...                    *)
Waits(c) == pc[c] \in {"locking", "queueing", "calling"}
Holds(c) == pc[c] \in {"queueing", "calling"}

WaitersHaveCells == \A c \in Callers : Waits(c) => CellOf(c) \in Cells

HoldersExclude ==
  \A c \in Callers : Holds(c) =>
    holder[LockOf(c)] = {c} /\ cell[CellOf(c)] = "unset"

(* ... and the counters agree with what they count.                        *)
CountsAgree ==
  /\ \A k \in Keys : made[k] = IF k \in clients THEN 1 ELSE 0
  /\ \A x \in Cells : filled[x] = IF cell[x] = "unset" THEN 0 ELSE 1

SessionsAreValues == \A r \in Roles : cell[r] # "empty"

IInv ==
  /\ TypeOK
  /\ WaitersHaveCells
  /\ HoldersExclude
  /\ CountsAgree
  /\ SessionsAreValues
  /\ ClientsHaveSessions

-----------------------------------------------------------------------------
(* What a caller has passed it has the answer of: a client in the cache, a *)
(* cell with a value or the empty string of a refusal.                     *)
Answered(op) == IF op.op = "client" THEN op.key \in clients ELSE cell[op.key] # "unset"

AnswersAreThere ==
  \A c \in Callers : \A n \in 1..Len(Program[c]) : n < at[c] => Answered(Program[c][n])

(* Account ids and aliases are asked of clients that exist: the executor's *)
(* properties never raise "await ensure_clients() first".                  *)
ClientsInUseExist ==
  \A c \in Callers : pc[c] # "done" /\ ~IsClient(c) => Key(c) \in clients

-----------------------------------------------------------------------------
(* Why the callers never wait for each other in a circle: a lock that is   *)
(* taken belongs to a caller that waits for nothing but a permit, and who  *)
(* has a permit waits for nobody.                                          *)
LocksAreHeld ==
  \A l \in Locks : holder[l] # {} =>
    \E c \in Callers : holder[l] = {c} /\ Holds(c) /\ LockOf(c) = l

(* What the loop can resume: a caller at the start of an operation, one    *)
(* whose lock or permit is free, one whose call can end.                   *)
CanGo(c) ==
  \/ pc[c] = "ready"
  \/ pc[c] = "locking" /\ holder[LockOf(c)] = {}
  \/ pc[c] = "queueing" /\ Cardinality(HasPermit(SemaphoreOf(c))) < StsLimit
  \/ Calling(c)

(* There is always someone who can go on, until all callers have ended.    *)
SomeoneCanGo == AllEnded \/ \E c \in Callers : CanGo(c)

(* The most steps a caller has left: four for each operation that follows, *)
(* and those of the current one.                                           *)
Stage == [ready |-> 4, locking |-> 3, queueing |-> 2, calling |-> 1]

StepsLeft(c) ==
  IF pc[c] \in {"done", "failed"} THEN 0
  ELSE 4 * (Len(Program[c]) - at[c]) + Stage[pc[c]]

(* Every step brings one caller nearer to its end and none farther away:   *)
(* nobody starts anew because of what others do.                           *)
StepsRunOut ==
  [][\E c \in Callers :
       /\ StepsLeft(c)' < StepsLeft(c)
       /\ \A d \in Callers \ {c} : StepsLeft(d)' = StepsLeft(d)]_vars
=============================================================================
