--------------------------- MODULE ClientContract ---------------------------
(***************************************************************************)
(* What the client factory promises to the coroutines that share it,       *)
(* without locks, permits or waiting: every operation takes effect at      *)
(* once.  Either what it wants is there already and is served as it is, or *)
(* it is fetched, kept for everybody, and served; or its call fails, which *)
(* ends the caller and changes nothing for the others; or its client       *)
(* cannot be made, which keeps what was fetched for it.                    *)
(***************************************************************************)
EXTENDS Naturals, Sequences

CONSTANTS
  Callers,      \* the coroutines
  Roles,        \* the roles to assume
  Keys,         \* the keys of the client cache
  NoRole,       \* the lambda's own role
  RoleOf,       \* the role of each key
  BaseSts,      \* the key of the factory's own STS client
  QueueRole,    \* the role of the queue, NoRole if it has none
  Program       \* the [op, key] operations of each caller

VARIABLES
  at,           \* the index of each caller's operation
  outcome,      \* how each caller ended, "going" until then
  cell,         \* the sessions, account ids and aliases
  clients       \* the keys that have a client

vars == <<at, outcome, cell, clients>>

Init ==
  /\ at      = [c \in Callers |-> 1]
  /\ outcome = [c \in Callers |-> IF Program[c] = <<>> THEN "done" ELSE "going"]
  /\ cell    = [x \in Roles \cup Keys |-> IF x = QueueRole THEN "value" ELSE "unset"]
  /\ clients = {BaseSts}

Operation(c) == Program[c][at[c]]
ForClient(c) == Operation(c).op = "client"
Wanted(c)    == Operation(c).key

(* The cell an operation depends on, and whether it needs to be fetched.   *)
Source(c) == IF ForClient(c) THEN RoleOf[Wanted(c)] ELSE Wanted(c)

Missing(c) ==
  /\ ForClient(c) => Wanted(c) \notin clients
  /\ Source(c) # NoRole
  /\ cell[Source(c)] = "unset"

Served(c) ==
  /\ at'      = [at EXCEPT ![c] = @ + 1]
  /\ outcome' = [outcome EXCEPT ![c] = IF at[c] = Len(Program[c]) THEN "done" ELSE "going"]
  /\ clients' = IF ForClient(c) THEN clients \cup {Wanted(c)} ELSE clients

Serve(c) ==
  /\ outcome[c] = "going"
  /\ ~Missing(c)
  /\ Served(c)
  /\ UNCHANGED cell

(* Only an account id or an alias may come back empty.                     *)
Fetch(c) ==
  /\ outcome[c] = "going"
  /\ Missing(c)
  /\ Served(c)
  /\ \E v \in {"value"} \cup (IF ForClient(c) THEN {} ELSE {"empty"}) :
       cell' = [cell EXCEPT ![Source(c)] = v]

Fail(c) ==
  /\ outcome[c] = "going"
  /\ Missing(c)
  /\ outcome' = [outcome EXCEPT ![c] = "failed"]
  /\ UNCHANGED <<at, cell, clients>>

Unmade(c) ==
  /\ outcome[c] = "going"
  /\ ForClient(c)
  /\ Wanted(c) \notin clients
  /\ outcome' = [outcome EXCEPT ![c] = "failed"]
  /\ cell' = IF Missing(c) THEN [cell EXCEPT ![Source(c)] = "value"] ELSE cell
  /\ UNCHANGED <<at, clients>>

Next == \E c \in Callers : Serve(c) \/ Fetch(c) \/ Fail(c) \/ Unmade(c)

Spec == Init /\ [][Next]_vars
=============================================================================
