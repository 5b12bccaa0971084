# Verification of the metrics lambda

The function of this repository scrapes CloudWatch metrics in many regions and
accounts and puts them, as JSON, on an SQS queue. It is a single process with
one event loop, some hundred coroutines and a thread pool, and its execution
environment is reused from one invocation to the next. This directory holds
TLA+ models of it, TLC configurations that check them on small instances, and
TLAPS proofs of the most important properties for all values of the constants.

Line numbers below are those of the files under `src/` of the repository.

## 1. The system

| Component | State it keeps | Operations | Interacts with |
|---|---|---|---|
| **Handler** `function.py` | nothing of its own; the event loop outlives it | builds config, clients and executors, `run_until_complete` | everything below; Lambda, which starts, ends and kills it |
| **Executor** `executor.py` 39-117 | one `RegionRoleExecutor` per (region, role) | gather of their `scrape_and_emit` | the loop |
| **RegionRoleExecutor** `executor.py` 120-481 | its clients | `ensure_clients`, discovery, gather of one coroutine per (period, delay) batch, static scrape | client factory, CloudWatch, SQS |
| **Client factory** `clients.py` 768-871 | client cache, session cache, one lock | `get_client`, `get_session`, `get_sqs_client` | STS |
| **STS and support clients** `clients.py` 254-340 | account id, alias, a lock and a semaphore each | `get_account_id`, `get_session`, `get_account_alias` | AWS, through the thread pool |
| **CloudWatch client** `clients.py` 91-251 | a semaphore | `list_metrics`, `get_metric_data`, `get_metric_statistics` | AWS, through the thread pool |
| **SQS client** `clients.py` 343-364 | none | `send_messages`, in batches of ten | the queue |
| **Paginator** `clients.py` 62-88 | a semaphore per client | one permit per page | all clients |
| **Tagging client, resource filters** `clients.py` 367-765 | none | which resources a discovery job is about | six AWS services |
| **Associator** `associator.py` | which resources a pattern has claimed | metric to resource | discovery jobs |
| **Metric tasks and messages** `model.py`, `executor.py` 238-268 | a task's result | value, timestamp, grouping by signature | SQS client |
| **Config, jobs, services** `config.py`, `model.py`, `services.py` | none (read once) | parsing, `sub_jobs` | executors |
| **Time window** `shared.py` | none | `get_start_end` | `get_metric_data`, `get_metric_statistics` |
| **Terraform** `*.tf` | none | timeout, reserved concurrency, schedule, alarm on errors | Lambda |

What is hard about it, and what each part must therefore guarantee:

* **Handler and executors.** `asyncio.gather` raises the first exception and
  cancels nothing, at two levels. The other coroutines stay in the loop, stop
  when `run_until_complete` returns, and go on in the next invocation, because
  `get_event_loop` hands out the same loop. The gathers of one executor's
  discovery jobs and static queries do the same to their siblings. Calls in the thread pool go on
  even without the loop. An invocation that succeeds must have left nothing
  behind and sent everything; a failure must reach the alarm.
* **SQS client.** A call may be answered, refused for some entries, or raise,
  and the process may be killed between two calls; entries must be neither
  dropped nor repeated.
* **Client factory, STS.** Every cached value is read, waited for and read
  again. There must be one client per key (a second one would have a
  semaphore of its own and so break the concurrency limits), one call per
  value, and no caller stuck behind another that failed.
* **CloudWatch client and messages.** Results carry only a number, reused by
  every call, and come in pages. They must reach their own tasks; a message
  must hold what CloudWatch has: of a sum, count, minimum or maximum all
  datapoints, of any other statistic the newest.
* **Paginator.** Permits are per page: coroutines of one region interleave.
* **Discovery, associator.** Filters must neither invent nor lose a resource,
  a metric belongs to the resource of its most specific pattern.
* **Config, jobs, window.** Batches share (period, delay) but not the length,
  and each period should be reported once.

`PROJECT.json` lists these as hazards at their lines, with the properties that
would notice.

## 2. Modules

| Module | Models | Checked by | Proofs |
|---|---|---|---|
| `Scrape` | handler, loop, executors, `send_messages` | `MCScrape` | `ScrapeProofs` |
| `ScrapeContract` | what an environment promises: a ledger of messages owed and handed over, and of outcomes | refined by `Scrape` | in `ScrapeProofs` |
| `ClientFactory` | client, session, account id and alias caches | `MCClientFactory` | `ClientFactoryProofs` |
| `ClientContract` | what the factory promises: operations that take effect at once | refined by `ClientFactory` | in `ClientFactoryProofs` |
| `QueryBatches` | how tasks are divided into `get_metric_data` calls | through `MetricData` | in `MetricDataProofs` |
| `Messages` | values, timestamps and messages of tasks | through `MetricData`, `StaticMetrics` | `MessagesProofs` (lemmas) |
| `MetricData` | one batch: calls, pages, results, messages | `MCMetricData` | `MetricDataProofs` |
| `StaticMetrics` | one static metric: its answer, tasks, message | `MCStaticMetrics` | `StaticMetricsProofs` |
| `ApiCalls` | permits, pages and threads of API calls | `MCApiCalls` | `ApiCallsProofs` |
| `Associator` | which resource a metric belongs to | through `Discovery` | in `DiscoveryProofs` |
| `Discovery` | one discovery job: tagging client, filter, associator, requests | `MCDiscovery` | `DiscoveryProofs` |
| `Window` | `get_start_end` | through `Schedule` | in `ScheduleProofs` |
| `JobPlan` | config, service lookup, `sub_jobs`, `_get_executors` | through `Schedule` | in `ScheduleProofs` |
| `Schedule` | the windows that successive invocations ask for | `MCSchedule` | `ScheduleProofs` |

`MetricData` composes `QueryBatches` and `Messages`, `StaticMetrics` uses
`Messages`, `Discovery` is composed with the `Associator` it builds, and
`Schedule` with `JobPlan` and `Window`. The modules meet at the suspension
points of `Scrape`: its "discovering" region is a set of `Discovery` jobs
followed by the merge of `Schedule`; a unit that is "fetching" is a run of
`MetricData` or of `StaticMetrics`, with the window of `Schedule`, and ends with
some number of messages or raises. All their calls go through `ApiCalls`.

### Scrape

Regions are executors, `<<invocation, region-role>>`; units are what an
executor scrapes: a batch or its static jobs, `<<invocation, region-role,
unit>>`. Everything is indexed by the invocation, because coroutines of several
invocations can be in the loop at once.

| Variable | Code |
|---|---|
| `running`, `outcome` | which handler is on the stack; whether it returned, raised or was killed |
| `region` | where the coroutine `RegionRoleExecutor.scrape_and_emit` (180-236) is suspended |
| `awaited` | the keys of `get_batched_discovery_metrics`, one coroutine each (209-214) |
| `unit` | where `get_discovered_batch_and_emit` or `get_static_metrics_emit` is suspended; `sending` means that a pool thread is at work, `sent` and `broken` that it is done and the loop has not yet noticed |
| `strays` | the executors of which a discovery job (383) or a static query (282) failed while others were under way: those are still in the loop |
| `generated`, `left`, `batch`, `handed` | messages of the unit, `remaining`, `batch` of `send_messages`, what SQS was given |
| `refused` | a response listed entries as failed |

Every action is one stretch of code between two suspensions. `LoopRuns` guards
all of them except `SendCall`, which is a thread. `Reject` is everything that
raises before the loop starts. `Kill` is a timeout or the end of an idle
environment. Strays send nothing and nobody reads what they return; the model
keeps whether an executor has any (`LeaveStrays`, `StraysEnd`), as they are part
of what an invocation leaves behind.

`ScrapeContract` knows no loop, threads or batches. A unit produces its messages
once and from then on owes them; what SQS is handed it no longer owes; a
success is possible only when nothing of the invocation is owed, and closes
its ledger, as a kill does; a failure closes nothing. The refinement takes for
`owed` what is in the current batch of `send_messages` and what is left to
batch (`Owed`), and for `outcome` and `handed` the variables of those names.

### ClientFactory

A caller is a coroutine with a program of `get_client`, `get_account_id` and
`get_account_alias` calls: executors (`ensure_clients`, then the labels) and
discovery jobs (the filter's client). All three calls have one shape: read the
cell, wait for a lock, read it again, perhaps wait for a permit, call, store,
release. They differ in which cell, lock and semaphore they use (`CellOf`,
`LockOf`, `SemaphoreOf`), in whether they take a permit, and in what becomes of
an error: `assume_role` always raises, the other two turn a `ClientError` into
an empty string that stays. A client's constructor may raise too
(`ConstructorRaises`, line 868), after the session it needed was stored.

`ClientContract` has the same programs and neither locks nor permits nor
waiting: an operation is served what is there, or fetches what is missing and
stores it for all, or fails alone, or does not get its client made but keeps
the session fetched for it (`Unmade`). The refinement forgets `pc`, `holder` and
the counters and keeps of `pc` how a caller ended (`Outcome`). An operation
takes effect in the step in which its caller goes on; the steps before that are
stutters. What makes this true is the second look under the lock: without it
a caller would fetch what another has stored since.

### MetricData, Messages, QueryBatches

`taskById` is `task_by_id`, created once per `get_metric_data` and never
cleared. A page delivers, for any subset of a call's queries, some more of
their datapoints; `owed` is what the service still has to deliver. A datapoint
is known by its time, and a value by the datapoints it is computed from, so
that "the sum" is right if it is a sum of the right points. Statistics are
kept as the config spells them: the name in the message does not depend on the
case of the letters (`ShortName`, `model.py` 160-172), but only `Sum`,
`SampleCount`, `Minimum` and `Maximum`, spelled so, are computed from all
datapoints (`Aggregated`, 195-200). Of every other statistic, such as `Average`,
a percentile or `sum`, the first datapoint's value is taken, which here is the
newest; `MessagesAreExact` states both. Two spellings of one statistic collide
in a message and raise, like one statistic twice. `found` says
whether a page's token had the name the code looks for (`PaginationToken`, line
178): what the service calls it is not part of this repository, so both cases
are modelled, and the properties hold for batches of which no page was left
unread (`unread`).

### StaticMetrics

The answer to `get_metric_statistics` is split datapoint by datapoint into the
tasks of its statistics (232-250). Unlike in `MetricData` the datapoints come
in any order, a value of zero counts as missing (241, 247), and tasks without
values take part in the message. "First" is therefore the first in the answer
that has a value, not the newest. The request's statistics are told apart
by their spelling and the message's by name, so that a request with one
statistic in two spellings raises when its message is made (`executor.py` 253,
phase `"raised"`). A statistic that is named twice in the
request has one task, but the loop over `metric.stats` meets it twice
(`Mentions`), so its values count twice; `ValuesAreExact` is about requests
that name each statistic once. The call as written names no `Statistics`; what
the service makes of that is outside the repository, and the module models the
answer the code expects.

### ApiCalls

Callers are generators (`_paginate`) with their consumers, or single calls
(`get_metric_statistics`). `free` is the value of the client's semaphore: taken
before a page is submitted to the thread pool, given back when the coroutine
resumes, by success or exception. Between two pages the consumer works without
a permit; it may raise, which abandons the generator. `named` is whether the
token has the name the generator looks for.

### Associator

Patterns are regular expressions reduced to what they find in a resource
(`search`): nothing, or a value for each group. `sorted[p]` is whether Python
iterates over the set of a pattern's names in sorted order; for two or more
strings this differs between processes, and then no metric of that pattern
finds its resource (27, 31). Transit gateway attachments are such a case. The
properties say what holds in any order (`AnswersAreSound`,
`SkipsAreJustified`) and what only in sorted order
(`SortedAnswersAreComplete`). With a foreign order a metric is skipped although
its resource was found, which the properties allow and this section records.

### Discovery

| Variable | Code |
|---|---|
| `job`, `jobDims` | the `DiscoveryJob`; its `search_dimensions`, an object that all its requests share and that `run_discovery_job` (387-476) must not change, for which it copies them (418-421) |
| `tags`, `alive`, `created` | the account: resources with their tag, those that exist, those that came into being while the job ran |
| `step`, `error` | where `run_discovery_job` is suspended, what it raised |
| `found`, `listed` | the resources handed to the associator; what the first of two listings showed |
| `request`, `task` | the request whose metrics are listed; what became of the last metric |

Each class of `DISCOVERY_FILTERS` (`clients.py` 756-765) is an action. Most list
the resources of their namespace themselves and keep those whose tags match.
`APIGatewayFilter` and `DMSClient` filter what tagging found by two listings,
between which `AccountChanges` may create and delete resources; a replication
task whose instance was created after the first listing raises `KeyError`
(567), and `KeyErrorsAreRaces` says that nothing else does. Three things in
this code look odd and are modelled as they are. `StorageGatewayClient` awaits a
synchronous call, so that it raises `TypeError` for any account with a gateway
(703). `ShieldClient` looks at no tags, and its protections carry none, which
`ReportedResourcesMatch` therefore excepts. The listing of REST APIs (432) and
the second one of `DMSClient` may be cut short, as their token is looked for
under another name (`FirstPages`, `DMSClient`). That needs no choice for
the kinds of resources with a single listing: one that ends early shows what that of a
smaller account would, and every account is considered. `APIGatewayFilter`
keeps only resources whose ARN ends with an API (487-498), so that any of
those found, stages and routes, may be dropped.

A job that found nothing has the `NoOpAssociator` in the code. Here its patterns
find nothing, so that there are no mappings and no metric is associated or
skipped: the same answers. Names are abstracted to what the patterns find in
them (`search`): the associator, and so the reported resource, depends on
nothing else of an ARN. A metric is a function from some of the names to values;
a condition of a request is the set of values its expression accepts, with ""
for a dimension the metric does not have.

### JobPlan, Window, Schedule

`JobPlan` follows a config to the tasks of one executor. One job of unknown
type, or one whose fields do not parse (`wellFormed`), rejects the whole config
(`config.py` 39-77). A task is one request
of one job in one region-role, with its period, length and delay; `copy` tells
apart the runs of a job that names a region twice, since `sub_jobs` does not
remove duplicates and such a job is discovered, and reported, twice.

`Schedule` adds the clock. The rule fires every `Rate`, up to `Jitter` late; an
invocation ends, in whatever way, within `Timeout`. Discovery finds metrics for
some tasks (`Discovered`), which then arrive shard by shard, in any order, at
the merge by (period, delay) (`MergeShard`, `get_batched_discovery_metrics`).
`OpenBatch` and `OpenStatic` are the moments at which `get_start_end` reads the
clock: after discovery, and for static requests after all batches, so that the
distance between two windows of one task is anything between `Rate - Jitter -
Timeout` and `Rate + Jitter + Timeout`. `now` and `prev` are the windows of this
and of the last invocation.

`NoPeriodIsLost` and `PeriodsAreReadOnce` say for which lengths this is
harmless. They are conditional because the code does not enforce the
conditions, and the defaults do not meet them: with a length of 60 seconds and
`rate(1 minute)`, a batch that is opened just before a full minute in one
invocation and just after the next but one in another skips a period; with the
opposite jitter, the same period is reported twice. A length no shorter than
rate, jitter and timeout together loses nothing, one that fits into what they
leave of the rate repeats nothing, and no length does both. In a shared batch a
shorter request is read over the longest length (`Companions`):
`OwnWindowIsRead` says that its own window is covered, not that it is the one.

The assumption `Jitter + Timeout <= Rate` is what the repository's `README.md`
31 asks of the `timeout`, "to avoid overlapping executions". Lambda's retries of
a failed asynchronous invocation, and with them overlapping invocations, are
not part of `Schedule`; coroutines of two invocations in one loop are the
subject of `Scrape`.

## 3. Runs

| Run | Question | Instance |
|---|---|---|
| `scrape_orphans` | Is a success complete, and is the contract kept while orphans run? | 2 invocations, 2 region-roles, one with 1 batch and one with static jobs, 3 messages per unit |
| `scrape_siblings` | Does a batch that outlives its sibling's failure disturb the order, and do all invocations end and all failures reach the handler? | 2 invocations, 1 region-role, 2 batches and static jobs, 0 or 1 messages per unit |
| `client_factory` | One client per key, one call per value, stable values, nobody stuck, whatever call or constructor raises, and is every operation as if it took effect at once? | 5 callers, 2 roles, 5 clients, 1 permit |
| `metric_data` | Do results reach their tasks, and do messages say what CloudWatch has? | up to 4 tasks of aggregated and other statistics, one in two spellings; 2 queries per call, 2 datapoint times |
| `api_calls` | Do paged calls stay within limits, are permits conserved, does everyone end? | 3 generators with 2 permits, 1 single call of another client, 2 threads, up to 2 pages |
| `static_metrics` | Is each statistic computed from its own values, and is an ordered answer stamped right? | up to 3 datapoints in every order; 1 or 2 statistics, both kinds, one named twice, in one spelling or two |
| `discovery` | Can a metric get a foreign resource, be dropped without reason, or be filtered by another request's conditions, and when does a job raise? | 9 jobs, one per kind of filter, 3 requests; 2 overlapping patterns, 2 resources, 2 values; every account and change of it |
| `schedule` | Are batches exact, is every request's window read, and which lengths lose or repeat no period? | 5 configs, one with an unknown type and one with a malformed job; in units of 20 s: minute 3, rate 5, jitter 1, timeout 1, 14 units of time |
| `api_limits` | Are all calls of a client within its limit? **No.** | 2 single calls, 1 permit |
| `static_newest` | Is a static message stamped with the newest time? **No.** | as `static_metrics` |
| `scrape_delivered` | Is everything in the queue after a success? **No.** | 1 invocation, 1 region-role |
| `scrape_overlap` | Is an invocation alone in its environment? **No.** | 2 invocations, 2 region-roles with 1 batch each, one of them with static jobs too, 1 message per unit |

**Bounds.** Two invocations are enough for an orphan to meet the next handler;
a third would meet it in the same way, as nothing in the code tells the
generations apart. Two region-roles give one that fails and one that lives on;
the same for two batches. `SendLimit` is 2 (10 in the code) and a unit has
none, one or three messages: nothing to send, a short batch, and a full batch
followed by a short one; the first two in `scrape_siblings`, the third in
`scrape_orphans`. `Limit` is 2 (300 in the code): with three or four tasks ids
are reused, by a full and by a smaller call. Two times are enough for a result
split between pages and for a newest point. Five callers make every pair of
operations race that can: two executors of a role, an executor and a session
for the STS client's only permit, two jobs for one filter. Three generators for
two permits make one wait while two are under way, and with two threads a
permit holder waits for a thread that another client uses. Two patterns and
two resources give a resource both could claim, two resources of one
signature, and a metric that fits only the less specific one. Two REST or HTTP
APIs, or an instance and its task, are enough for any change between two
listings. A rate of five thirds of a minute makes invocations fall anywhere in
a period; 14 units hold three of them, so that windows are compared twice, and
the configs have a batch with a length that loses nothing (9) and one that
repeats nothing (3). `MaxInvocations`, `MessageCounts`, `TaskLists`, `Requests`
(of `StaticMetrics`), `Times`, `MaxPages`, `NumResources`, `Jobs`, `Arns`,
`Configs` and `MaxTime` are the only bounds; the proofs are for all values of
those in their modules.

**Fairness.** The loop resumes every coroutine whose result is in (weak
fairness of each coroutine's steps, enabled only while the loop runs), and
threads answer because botocore has connect and read timeouts (`config.py`
35-36). A handler's return or raise is the loop's own step. Nothing is assumed
of Lambda: it need not invoke or kill. There is no strong fairness: the locks
and semaphores of asyncio are first-in first-out, but no property needs it,
since every caller holds them for a bounded time and asks a bounded number of
times.

**Deadlock** is checked for every run but those of `Scrape`: the ends of the
other modules are explicit (`Ended` in `Discovery` and `Schedule`: the job is
over, the clock has stopped). In `Scrape` the system may stop: when all invocations of the instance
are over and nothing is left in the loop or in a thread.

### What the violations show

* `SuccessIsDelivered`. `send_messages` asserts that `send_message_batch`
  returned a response (363) and does not look into it. SQS answers a batch
  of which it stored a part with a list `Failed`; these entries are lost and
  the invocation succeeds. `README.md` 5 describes the function as "delivering
  the output in json to an SQS queue".
* `NoOverlappingExecution`. An invocation fails with one region; another
  region's coroutine, or another discovery job of the same region, is still in the loop;
  the next invocation runs it alongside its own. The `timeout` is to be chosen "to avoid overlapping
  executions" (`README.md` 31) and `max_concurrency` (39) is 1. The passing
  properties say how far this goes: only after failures, never losing or
  repeating a message of a unit.

* `CallsWithinLimit`. Static metrics are fetched without the client's
  semaphore (230), so a client with one permit has two calls on threads.
  `README.md` 13: "the implementation supports environment variables to limit
  the concurrency for the different APIs".
* `TimestampIsNewest`. `get_timestamp` takes a task's first datapoint, and
  static datapoints come in no order; a message can carry the oldest time
  although `executor.py` 265 says "use the most recent timestamp". With
  datapoints newest first, as `get_metric_data` returns them, it is the newest
  (`OrderedAnswersAreStamped`, `MessagesAreExact`).

## 4. Proofs

`ScrapeProofs` proves, for any finite or infinite set of region-roles and
batches, any number of invocations and any numbers of messages, that `IInv` is
an invariant, and from it `TypeOK`, `EachMessageHandedOnce`,
`StaticAfterBatches`, `OrphansComeFromFailures`, `SuccessIsComplete`, and that
`Spec` implements `ScrapeContract`. Strays have an invariant of their own
(`StraysHaveFailed`), which rests on `IInv`: their executor has failed and stays
so, and a handler with a failed executor can only raise. None of the safety properties is inductive:
that a success is complete depends on what a *done* region means
(`DoneRegions`), which depends on which units it ever awaited
(`OnlyAwaitedBatches`), and on units of a done region being untouched by
coroutines that still run (`StaticFollowsRegion`, `LiveMeansOpen`). There is
one lemma per action, with one step per conjunct it can disturb. The refinement
maps every step to an entry of the ledger, the start or the end of an
invocation, or a stutter; that a success owes nothing is `SuccessIsComplete`
together with `EachMessageHandedOnce`. `OverlapCorrect` says how far the finding
of `scrape_overlap` goes: without a failed invocation there is no overlap
(`OverlapNeedsFailure`).

`ClientFactoryProofs` proves for any callers and programs that at most one
client per key is made, nothing is fetched twice, clients have sessions, and
values are stable. The invariant's heart is `HoldersExclude`: who holds a lock
to make a call holds it alone, and the cell it will fill is still unset. From the
same invariant follows `ContractCorrect`: a step that completes an operation is
a `Fetch` if what it needs was `Missing` before it and a `Serve` otherwise, and every
other step is a `Fail`, an `Unmade` or a stutter. `AnswersCorrect` and `InUseCorrect` relate
a caller to its past: what it has passed is in the caches (`AnswersAreThere`),
and therefore account ids and aliases are asked only of clients that exist
(`ClientsInUseExist`, by `EnsuredFirst`, which is the order of calls in
`scrape_and_emit`).

`MetricDataProofs` proves, for any number of tasks and any limit, that a call
has between 1 and `Limit` queries and that the calls are the fewest possible,
and it proves all invariants of `MetricData`, for any batches, call
sizes, pages and finite sets of times. That a result is its own task's is not
inductive, since ids are reused: `IInv` says that the ids of the current call
lead to different tasks, that what such a task has, followed by what it is
still owed, is what CloudWatch has for it (`Calling`), and that the tasks of
earlier calls have all there is and those of later calls nothing (`Reading`).
A page then moves the front of what is owed to the end of what is there, and
leaves alone what it does not name. At the end of a batch `Group` and `Message`
can be computed from `data` alone, which gives `MessagesAreExact` and
`RaisesOnDuplicates`. `Newest` is defined by rank, the nth newest time being the
one that n times are as new as, and that this is a descending enumeration of
the set follows from the cardinalities of its initial segments. `MessagesProofs`
holds what this needs of `Messages`: ranks within a finite set, and the value
and the time of a message as functions of its tasks.

`StaticMetricsProofs` proves all invariants of `StaticMetrics` for any requests,
finite sets of times and answers of any length and order, more than the three
datapoints of the run. The invariant (`Splitting`) says that a task has
the times of exactly those datapoints split so far in which its statistic is
not zero (`With`), no more than one for each mention of it (none twice if
it is mentioned once), and that the first of them is that of the earliest such
datapoint: the one fact about order that `get_timestamp` depends on. The number
of mentions, a cardinality over positions of `stats`, is what makes the bound
in `TypeOK` inductive.

`ApiCallsProofs` proves, for any finite set of callers, any clients, limits,
threads and pages, that permits are conserved, that therefore a client's paged
calls stay within its limit, and that a generator that ends has delivered all
pages. The invariant adds to conservation that only generators wait for permits
(`OnlyPagedWait`) and how far each has read (`Unread`, `FirstPageOnly`).
`PagedClientsCorrect` is what remains of the limit that `api_limits` refutes: it
holds of every client whose callers all paginate.

`DiscoveryProofs` proves, for any patterns, resources, jobs, requests and
metrics, all invariants of `Discovery` and of the `Associator` in it. The
invariant `IInv` ties the three stages of a job together: patterns find only
what the job found (`Searched`), which passes its tags (`Selected`); a mapping
leads from the signature of a resource to that resource and to one its
pattern claimed (`Mapped`), and every claimed resource has its signature in
the mapping (`Claims`), which holds because a claimed resource is not claimed
again; every answer is the lookup of its metric in the finished mappings
(`Answered`), and every task says what its request and its answer say
(`Tasked`). `Raced` adds what the two listings of a DMS job missed of each
other. Soundness, specificity and completeness then follow from what `First` and
`Lookup` return; that a set of sizes has a largest element, and one of
patterns a smallest, is derived from the well-foundedness of finite sets.

`ScheduleProofs` proves with the arithmetic of `Floor` that windows of whole
periods asked for at most (at least) their length apart leave no gap (`NoGap`)
and do not overlap (`NoOverlap`), and that neither condition can be weakened
(`NoGapIsSharp`, `NoOverlapIsSharp`): for every larger (smaller) distance there
is a time at which the windows do leave a gap (overlap). It proves, for all
configs, rates, jitters and timeouts, that the merge is exact in any order of
the shards, and bounds the distance between two windows of one task; with the
facts about windows this gives `NoPeriodIsLost` and `PeriodsAreReadOnce`. The invariant must remember when each
window was asked for (`at`) and which lengths a batch may still get.

**Progress.** Liveness under fairness is out of the prover's reach, but the two
facts it rests on are not temporal. First, nothing waits in a circle: as long
as someone has not ended, someone has a result coming, or can take the lock,
permit or thread it waits for (`NoDeadlock` of `ClientFactoryProofs` and
`ApiCallsProofs`, for any number of callers of any number of clients;
`RunningCanGo` of `ScrapeProofs`, by which a running invocation always has
something *of its own* to do, so that it never depends on orphans). The guards of
the actions are written out for this (`CanGo`, `RegionCanGo`, `UnitCanGo`), as
ENABLED is out of reach too. The invariants need additions: a lock is held only
by somebody who queues or calls (`LocksAreHeld`), the regions of a running
invocation have their coroutines (`RunningRegions`), and a gather waits for
units that exist (`AwaitedUnits`). Second, every step of a caller lowers the number of
steps it has left and raises nobody's (`StepsAreBounded`): no caller starts
over because of another, so no schedule keeps one busy for ever. That fairness
turns these into `EveryCallerEnds` and `InvocationEnds` is left to TLC.

The assumptions are those named in the modules: `ScrapeAssumption`,
`FactoryAssumption`, `EnsuredFirst`, `LimitAssumption`, `TimesAssumption`,
`TaskListsAssumption`, `StaticAssumption`, `ApiAssumption`, `AssociatorAssumption`, `DiscoveryAssumption`, `ServicesAssumption`,
`ScheduleAssumption`, `ConfigsAssumption` and `UnreadAssumption`. `Services` is
`services.py` reduced to what the lookup needs: no alias or namespace names
two services. `AssociatorAssumption` says of `_fix_dimension` that it reports
what it changes. `StsLimit > 0` deserves a word: with `STS_API_CONCURRENCY=0` no permit can ever
be taken, and every invocation would hang until its timeout. That is a
misconfiguration, not a schedule, and is excluded.

**Only model-checked:** the liveness properties `InvocationEnds`,
`FailureIsReported` and `EveryCallerEnds` of both modules, as temporal reasoning
with fairness is out of the prover's reach. Every invariant, action property and
refinement that a passing run checks has a theorem.

## 5. Not modelled

* Wording, logging and statistics; the formatting of labels and dates.
* The table in `services.py`: data, more than a third of the code. Its regular
  expressions are what `search` stands for.
* The case of letters beyond two spellings of the five statistics with short
  names; a percentile is spelled in small letters.
* How many discovery jobs or static queries an executor leaves behind, and the
  calls they still make; only that there are some.
* The boto options (`config.py`), of which only the timeouts matter, as
  fairness of threads.
* `Executor.discover_metrics`, which only a script for users calls: the gather
  of `Scrape` without the sends.
* Terraform, except for the facts `Scrape` and `Schedule` take from it: one
  invocation of an environment at a time (`reserved_concurrent_executions`), a
  timeout, a rate, an alarm on errors. Tests and build files.

## 6. Plan

The modules above cover every component with behaviour of its own, and the
proofs every safety property of the passing runs. What would add to them:

1. `Schedule` with Lambda's retries of a failed invocation, in which two
   invocations share a firing of the rule.
2. The number of calls and threads of several clients together, `ApiCalls` with
   the programs of `ClientFactory`, so that the pool's size is related to the
   number of region-roles.
