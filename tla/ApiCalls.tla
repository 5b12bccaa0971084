------------------------------ MODULE ApiCalls ------------------------------
(***************************************************************************)
(* The API calls of one invocation: the semaphore of every client, the     *)
(* paginator that takes a permit of it for each page (RegionRoleClient and *)
(* its _paginate in src/clients.py), the calls that take none              *)
(* (get_metric_statistics), and the thread pool they all share             *)
(* (run_in_executor).                                                      *)
(*                                                                         *)
(* A paged caller is a generator and its consumer, say a discovery job     *)
(* that reads the pages of list_metrics: it gets a permit, has the next    *)
(* page fetched by a thread, gives the permit back, and then works on the  *)
(* page.  Between two pages other callers of the client have their turn.   *)
(* Any other caller makes a single call.                                   *)
(*                                                                         *)
(* Outside of src/: asyncio's semaphore and thread pool, and a service     *)
(* that has NumPages pages for each caller and marks all but the last with *)
(* a token.                                                                *)
(***************************************************************************)
EXTENDS Naturals, FiniteSets

CONSTANTS
  Clients,      \* the clients: one per service, region and role
  Callers,      \* the coroutines that call
  Paged,        \* those that paginate
  ClientOf,     \* the client each caller uses
  Concurrency,  \* the permits of each client (e.g. METRICS_API_CONCURRENCY)
  Workers,      \* the threads of the pool
  MaxPages      \* bound: the most pages a service has for a caller

ASSUME ApiAssumption ==
  /\ IsFiniteSet(Callers)
  /\ Paged \subseteq Callers
  /\ ClientOf \in [Callers -> Clients]
  /\ Concurrency \in [Clients -> Nat \ {0}]
  /\ Workers \in Nat \ {0}
  /\ MaxPages \in Nat

VARIABLES
  numPages,     \* external: how many pages there are for each caller
  named,        \* external: whether a token has the name the caller expects
  pc,           \* where each caller stands
  read,         \* how many pages it was given
  free          \* the free permits of each client

vars == <<numPages, named, pc, read, free>>

(* A call is submitted to the pool, on a thread, and answered or broken    *)
(* until the loop resumes its coroutine, which then works on the page.     *)
InCall == {"submitted", "calling", "answered", "broken"}
States == {"waiting", "working", "done", "failed"} \cup InCall

Init ==
  /\ numPages \in [Paged -> 1..MaxPages]
  /\ named \in [Paged -> BOOLEAN]
  /\ pc    = [c \in Callers |-> IF c \in Paged THEN "waiting" ELSE "submitted"]
  /\ read  = [c \in Callers |-> 0]
  /\ free  = Concurrency

-----------------------------------------------------------------------------
(* Mutant: the first page is fetched without a permit.                     *)
MutTake(c) ==
  /\ free[ClientOf[c]] > 0
  /\ free' = IF read[c] = 0 THEN free ELSE [free EXCEPT ![ClientOf[c]] = @ - 1]

(* Mutant: nobody waits for a permit.                                      *)
MutTakeAnyway(c) == free' = [free EXCEPT ![ClientOf[c]] = @ - 1]

(* async with self._sf, entered ...                                        *)
Take(c) ==
  /\ free[ClientOf[c]] > 0
  /\ free' = [free EXCEPT ![ClientOf[c]] = @ - 1]

(* Mutant: the permit is given back only by a call that succeeds.          *)
MutGiveBack(c) ==
  free' = IF c \in Paged /\ pc[c] = "answered"
          THEN [free EXCEPT ![ClientOf[c]] = @ + 1] ELSE free

(* ... and left, by success or exception, only by those who entered.       *)
GiveBack(c) ==
  free' = IF c \in Paged THEN [free EXCEPT ![ClientOf[c]] = @ + 1] ELSE free

Submit(c) ==
  /\ pc[c] = "waiting"
  /\ Take(c)
  /\ pc' = [pc EXCEPT ![c] = "submitted"]
  /\ UNCHANGED <<numPages, named, read>>

(* The pool: a thread that is free picks up a call ...                     *)
OnThread == {c \in Callers : pc[c] = "calling"}

Start(c) ==
  /\ pc[c] = "submitted"
  /\ Cardinality(OnThread) < Workers
  /\ pc' = [pc EXCEPT ![c] = "calling"]
  /\ UNCHANGED <<numPages, named, read, free>>

(* ... and ends it, well or badly.                                         *)
End(c) ==
  /\ pc[c] = "calling"
  /\ \E result \in {"answered", "broken"} : pc' = [pc EXCEPT ![c] = result]
  /\ UNCHANGED <<numPages, named, read, free>>

(* The coroutine resumes and leaves the async with.                        *)
Receive(c) ==
  /\ pc[c] = "answered"
  /\ GiveBack(c)
  /\ read' = [read EXCEPT ![c] = @ + 1]
  /\ pc' = [pc EXCEPT ![c] = "working"]
  /\ UNCHANGED <<numPages, named>>

Raise(c) ==
  /\ pc[c] = "broken"
  /\ GiveBack(c)
  /\ pc' = [pc EXCEPT ![c] = "failed"]
  /\ UNCHANGED <<numPages, named, read>>

(* Mutant: the generator ends after its first page.                        *)
MutHasToken(c) == FALSE

(* The page just read shows a token to the caller.                         *)
HasToken(c) == c \in Paged /\ named[c] /\ read[c] < numPages[c]

(* The consumer is done with the page: the generator goes on while there   *)
(* is a token.                                                             *)
Continue(c) ==
  /\ pc[c] = "working"
  /\ pc' = [pc EXCEPT ![c] = IF HasToken(c) THEN "waiting" ELSE "done"]
  /\ UNCHANGED <<numPages, named, read, free>>

(* Or it raises on what it reads, say on a key a page does not have.       *)
ConsumerRaises(c) ==
  /\ pc[c] = "working"
  /\ pc' = [pc EXCEPT ![c] = "failed"]
  /\ UNCHANGED <<numPages, named, read, free>>

Step(c) ==
  \/ Submit(c) \/ Start(c) \/ End(c) \/ Receive(c) \/ Raise(c)
  \/ Continue(c) \/ ConsumerRaises(c)

AllEnded == \A c \in Callers : pc[c] \in {"done", "failed"}

Next == (\E c \in Callers : Step(c)) \/ (AllEnded /\ UNCHANGED vars)

Spec == Init /\ [][Next]_vars

(* The loop resumes who can go on, the pool starts what was submitted, and *)
(* botocore's timeouts end every call.                                     *)
FairSpec == Spec /\ \A c \in Callers : WF_vars(Step(c))

-----------------------------------------------------------------------------
(* The permits a client has handed out.                                    *)
Holders(k) == {c \in Paged : ClientOf[c] = k /\ pc[c] \in InCall}

(* All calls of a client that are on a thread.                             *)
CallsOf(k) == {c \in OnThread : ClientOf[c] = k}

(* Every variable has its type; no caller reads more pages than there are. *)
TypeOK ==
  /\ numPages \in [Paged -> 1..MaxPages]
  /\ named \in [Paged -> BOOLEAN]
  /\ pc \in [Callers -> States]
  /\ read \in [Callers -> Nat]
  /\ free \in [Clients -> Nat]
  /\ \A c \in Paged : read[c] <= numPages[c]

(* The paged calls of a client never exceed its limit, whichever callers   *)
(* take turns, fail, or are still queued for a thread.                     *)
PagesWithinLimit == \A k \in Clients : Cardinality(Holders(k)) <= Concurrency[k]

(* No permit is lost and none invented: not by a page that raises, not by  *)
(* a consumer that raises between two pages, and none is held while a      *)
(* consumer works.                                                         *)
PermitsConserved ==
  \A k \in Clients : free[k] + Cardinality(Holders(k)) = Concurrency[k]

(* A generator that ends has given its consumer every page there is,       *)
(* provided it knows the token by its name; else it ends after the first.  *)
ListingsAreComplete ==
  \A c \in Paged :
    pc[c] = "done" => read[c] = IF named[c] THEN numPages[c] ELSE 1

(* Every caller ends: nobody waits for ever for a permit or a thread, also *)
(* beside callers that fail.                                               *)
EveryCallerEnds == <>AllEnded

-----------------------------------------------------------------------------
(* The inductive invariant behind the safety properties: a paged caller    *)
(* that waits for a page, or has it fetched, still has one to read, and is *)
(* at its first one if it cannot recognise tokens.                         *)
OnlyPagedWait == \A c \in Callers : pc[c] = "waiting" => c \in Paged

Unread ==
  \A c \in Paged : pc[c] \in InCall \cup {"waiting"} =>
    read[c] < numPages[c] /\ (~named[c] => read[c] = 0)

FirstPageOnly == \A c \in Paged : pc[c] = "working" /\ ~named[c] => read[c] = 1

IInv ==
  /\ TypeOK
  /\ PermitsConserved
  /\ OnlyPagedWait
  /\ Unread
  /\ FirstPageOnly
  /\ ListingsAreComplete

-----------------------------------------------------------------------------
(* What can go on: a caller whose permit or thread is free, one whose call *)
(* can end, one the loop can resume.                                       *)
CanGo(c) ==
  \/ pc[c] = "waiting" /\ free[ClientOf[c]] > 0
  \/ pc[c] = "submitted" /\ Cardinality(OnThread) < Workers
  \/ pc[c] \in {"calling", "answered", "broken", "working"}

(* Permits and threads are never all held by callers that wait: who has a  *)
(* permit waits for a thread at most, who has a thread for nobody.         *)
SomeoneCanGo == AllEnded \/ \E c \in Callers : CanGo(c)

(* The most steps a caller has left: five for each page after the present  *)
(* one, and those until it is done with that.                              *)
Stage == [waiting |-> 5, submitted |-> 4, calling |-> 3,
          answered |-> 2, broken |-> 2, working |-> 1]

PagesAfter(c) ==
  IF c \in Paged
  THEN numPages[c] - (IF pc[c] = "working" THEN read[c] ELSE read[c] + 1)
  ELSE 0

StepsLeft(c) ==
  IF pc[c] \in {"done", "failed"} THEN 0 ELSE 5 * PagesAfter(c) + Stage[pc[c]]

(* Every step brings one caller nearer to its end and none farther away.   *)
StepsRunOut ==
  [][\E c \in Callers :
       /\ StepsLeft(c)' < StepsLeft(c)
       /\ \A d \in Callers \ {c} : StepsLeft(d)' = StepsLeft(d)]_vars

-----------------------------------------------------------------------------
(* "the implementation supports environment variables to limit the         *)
(* concurrency for the different APIs ... (by account/region)".            *)
CallsWithinLimit == \A k \in Clients : Cardinality(CallsOf(k)) <= Concurrency[k]

(* It holds of the clients whose callers all paginate.                     *)
PagedClientsWithinLimit ==
  \A k \in Clients :
    (\A c \in Callers : ClientOf[c] = k => c \in Paged)
      => Cardinality(CallsOf(k)) <= Concurrency[k]
=============================================================================
