----------------------------- MODULE MetricData -----------------------------
(***************************************************************************)
(* One batch of discovered metrics: get_discovered_batch_and_emit of       *)
(* src/executor.py driving get_metric_data of src/clients.py.              *)
(*                                                                         *)
(* The tasks of the batch are asked for in calls of several queries.  A    *)
(* call's queries are numbered from 0 again in every call, and task_by_id, *)
(* which leads from a result's id back to its task, is never cleared.  The *)
(* results come in pages: a page has a result for some of the queries,     *)
(* with some more of its datapoints, newest first.  When a call is done    *)
(* its tasks with values are grouped by signature, and after the last call *)
(* every group becomes a message.                                          *)
(*                                                                         *)
(* Outside of src/: CloudWatch, which answers every query of a call with   *)
(* the datapoints it has for it, over as many pages as it likes, and marks *)
(* all pages but the last with a token.                                    *)
(***************************************************************************)
EXTENDS Messages, QueryBatches

CONSTANTS
  TaskLists,    \* bound: the lists of metric tasks a batch may have; a task
                \* is a record [sig, statistic, stamped, nilToZero]
  Times         \* bound: the times datapoints can have

ASSUME TimesAssumption == IsFiniteSet(Times) /\ Times \subseteq Nat \ {0}

ASSUME TaskListsAssumption ==
  \A list \in TaskLists :
    /\ Len(list) \in Nat
    /\ \A t \in 1..Len(list) : list[t].stamped \in BOOLEAN

VARIABLES
  tasks,        \* the tasks of this batch
  data,         \* external: the times for which CloudWatch has a datapoint
  cut,          \* how many tasks the calls so far have taken
  taskById,     \* the task an id leads to, 0 for none (task_by_id)
  owed,         \* external: what the current call has yet to deliver, by id
  answered,     \* the tasks that have a result
  batch,        \* those whose result the current call has set (batch_metrics)
  result,       \* the times of each task's result
  reported,     \* the tasks that were grouped
  phase,        \* where the coroutine stands
  messages,     \* what is handed to send_messages
  unread        \* whether a page was left unread

vars == <<tasks, data, cut, taskById, owed, answered, batch, result,
          reported, phase, messages, unread>>

Total == Len(tasks)
Tasks == 1..Total
Ids   == 0..(Limit - 1)

(* Newest first: the nth of a set is the one that n of them are as new as. *)
Newest(S) ==
  [n \in 1..Cardinality(S) |-> CHOOSE t \in S : Cardinality({u \in S : u >= t}) = n]

Init ==
  /\ tasks \in TaskLists
  /\ data \in [Tasks -> SUBSET Times]
  /\ cut = 0
  /\ taskById = [id \in Ids |-> 0]
  /\ owed = <<>>
  /\ answered = {}
  /\ batch = {}
  /\ result = [t \in Tasks |-> <<>>]
  /\ reported = {}
  /\ phase = "batching"
  /\ messages = {}
  /\ unread = FALSE

-----------------------------------------------------------------------------
(* Mutant: an id that leads to a task keeps it.                            *)
MutNumbered(size) ==
  [id \in Ids |-> IF id < size /\ taskById[id] = 0 THEN cut + id + 1 ELSE taskById[id]]

(* The queries of a call are numbered, and task_by_id updated.             *)
Numbered(size) ==
  [id \in Ids |-> IF id < size THEN cut + id + 1 ELSE taskById[id]]

(* The next call takes its tasks from those that remain.                   *)
NextCall ==
  /\ phase = "batching"
  /\ cut < Total
  /\ LET size == NextSize(Total, cut)
     IN /\ taskById' = Numbered(size)
        /\ owed' = [id \in 0..(size - 1) |-> Newest(data[cut + id + 1])]
        /\ cut' = cut + size
  /\ batch' = {}
  /\ phase' = "paging"
  /\ UNCHANGED <<tasks, data, answered, result, reported, messages, unread>>

(* A page brings page[id] more datapoints for each id in its domain.       *)
News(page, id) == SubSeq(owed[id], 1, page[id])

(* The first page of a query sets its task's result, a later one extends   *)
(* it.                                                                     *)
Extended(page, t) ==
  LET ids == {id \in DOMAIN page : taskById[id] = t}
  IN IF ids = {} THEN result[t] ELSE result[t] \o News(page, CHOOSE id \in ids : TRUE)

(* The last page leaves nothing owed; after any other the coroutine goes   *)
(* on only if the page has a token under the name it looks for.            *)
Page(page, last, found) ==
  /\ phase = "paging"
  /\ \A id \in DOMAIN page : page[id] <= Len(owed[id])
  /\ result' = [t \in Tasks |-> Extended(page, t)]
  /\ LET named == {taskById[id] : id \in DOMAIN page}
     IN /\ answered' = answered \cup named
        /\ batch' = batch \cup (named \ answered)
  /\ owed' = [id \in DOMAIN owed |->
                IF id \in DOMAIN page
                THEN SubSeq(owed[id], page[id] + 1, Len(owed[id])) ELSE owed[id]]
  /\ last => \A id \in DOMAIN owed : owed'[id] = <<>>
  /\ phase' = IF ~last /\ found THEN "paging" ELSE "yielding"
  /\ unread' = (unread \/ (~last /\ ~found))
  /\ UNCHANGED <<tasks, data, cut, taskById, reported, messages>>

(* The tasks of the call are yielded; those with values are grouped.       *)
Yield ==
  /\ phase = "yielding"
  /\ reported' = reported \cup {t \in batch : result[t] # <<>>}
  /\ phase' = "batching"
  /\ UNCHANGED <<tasks, data, cut, taskById, owed, answered, batch, result,
                 messages, unread>>

Task(t) == [statistic |-> tasks[t].statistic, stamped |-> tasks[t].stamped,
            nilToZero |-> tasks[t].nilToZero, times |-> result[t]]

(* grouped_by_metric: the reported tasks of a signature.                   *)
Signatures == {tasks[t].sig : t \in reported}
Group(s)   == [t \in {u \in reported : tasks[u].sig = s} |-> Task(t)]

(* After the last call every group becomes a message, or the first group   *)
(* with a statistic twice raises.                                          *)
Emit ==
  /\ phase = "batching"
  /\ cut = Total
  /\ IF \E s \in Signatures : DuplicateStat(Group(s))
     THEN phase' = "raised" /\ UNCHANGED messages
     ELSE /\ phase' = "emitted"
          /\ messages' = {[sig |-> s, message |-> Message(Group(s))] : s \in Signatures}
  /\ UNCHANGED <<tasks, data, cut, taskById, owed, answered, batch, result,
                 reported, unread>>

AnyPage ==
  \E named \in SUBSET DOMAIN owed, last, found \in BOOLEAN :
    \E page \in [named -> 0..Cardinality(Times)] : Page(page, last, found)

Ended == phase \in {"emitted", "raised"}

Next == NextCall \/ AnyPage \/ Yield \/ Emit \/ (Ended /\ UNCHANGED vars)

Spec == Init /\ [][Next]_vars

-----------------------------------------------------------------------------
NameOf(t) == ShortName(tasks[t].statistic)

(* Every variable has its type; a call has 1 to Limit queries.             *)
TypeOK ==
  /\ tasks \in TaskLists
  /\ data \in [Tasks -> SUBSET Times]
  /\ cut \in 0..Total
  /\ taskById \in [Ids -> 0..Total]
  /\ phase # "batching" => DOMAIN owed \subseteq Ids
  /\ phase = "paging" => DOMAIN owed # {}
  /\ batch \subseteq answered /\ reported \subseteq answered /\ answered \subseteq Tasks
  /\ \A t \in Tasks : ToSet(result[t]) \subseteq Times
  /\ phase \in {"batching", "paging", "yielding", "raised", "emitted"}

(* The datapoints of a task's result are datapoints CloudWatch has for its *)
(* metric, none of them twice, none skipped and the newest first: whatever *)
(* calls reuse its id and however its result is cut into pages.            *)
ResultsAreTheirTasks ==
  \A t \in Tasks : IsPrefix(result[t], Newest(data[t]))

(* The messages that go to SQS: there is exactly one for each signature    *)
(* for which CloudWatch had datapoints, with exactly the statistics that   *)
(* have some.  Sum, SampleCount, Minimum and Maximum, spelled so, are      *)
(* computed from all the datapoints, any other statistic is the value of   *)
(* the newest; and the time is that of the newest datapoint of the stamped *)
(* statistics.  (Pages left unread excepted.)                              *)
MessagesAreExact ==
  phase = "emitted" /\ ~unread =>
    LET Has(s)  == {t \in Tasks : tasks[t].sig = s /\ data[t] # {}}
        Sigs    == {tasks[t].sig : t \in {u \in Tasks : data[u] # {}}}
        Latest(s) == UNION {data[t] : t \in {u \in Has(s) : tasks[u].stamped}}
        Used(t) == IF tasks[t].statistic \in Aggregated
                   THEN data[t] ELSE {Max(data[t])}
    IN /\ {m.sig : m \in messages} = Sigs
       /\ \A m, n \in messages : m.sig = n.sig => m = n
       /\ \A m \in messages :
            /\ DOMAIN m.message.values = {NameOf(t) : t \in Has(m.sig)}
            /\ \A t \in Has(m.sig) :
                 m.message.values[NameOf(t)].points = Used(t)
            /\ m.message.timestamp = Max({0} \cup Latest(m.sig))

(* A batch whose calls are all answered raises when its results are        *)
(* grouped if and only if two of its tasks have one signature and one      *)
(* name, however each is spelled, and datapoints for both: two tasks of    *)
(* one message are never merged silently, and no other batch is lost by    *)
(* the grouping.                                                           *)
RaisesOnDuplicates ==
  Ended /\ ~unread =>
    (phase = "raised" <=>
       \E t, u \in Tasks : /\ t # u
                           /\ tasks[t].sig = tasks[u].sig
                           /\ NameOf(t) = NameOf(u)
                           /\ data[t] # {} /\ data[u] # {})
=============================================================================
