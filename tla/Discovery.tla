------------------------------ MODULE Discovery ------------------------------
(***************************************************************************)
(* One discovery job in one region-role (run_discovery_job of              *)
(* src/executor.py, the tagging client and the filters of src/clients.py): *)
(* which resources it is about, which metrics it asks for, and what their  *)
(* tasks say.                                                              *)
(*                                                                         *)
(* Resources come from the tagging API, or from a listing of the           *)
(* namespace's own service that replaces or filters them.  API Gateway and *)
(* DMS need two listings, and the account goes on changing between them.   *)
(* What is found is handed to the associator, with which this module is    *)
(* composed: a resource that was not found matches no pattern, so that a   *)
(* job without resources behaves as with the NoOpAssociator.  Then every   *)
(* metric that CloudWatch lists for a request is filtered by its           *)
(* dimensions and associated.                                              *)
(***************************************************************************)
EXTENDS Associator

CONSTANTS
  Jobs,       \* bound: the discovery jobs
  TagValues,  \* the values of the tag that jobs search, export and set
  Arns,       \* bound: what the patterns find in the ARNs of the account
  Early,      \* REST APIs, replication instances: shown by a first listing
  Late,       \* HTTP APIs, replication tasks: shown by a second one
  Instance    \* [Late -> Early], the replication instance of a task

NoTag    == "no tag"
Filters  == {"none", "autoscaling", "spot", "transitgateway", "prometheus",
             "storagegateway", "shield", "apigateway", "dms"}
Patterned == [Patterns -> [Resources -> UNION {Found(p) : p \in Patterns}]]

(* What a regular expression accepts of a dimension; "" is what the code   *)
(* gives it for a dimension that a metric does not have.                   *)
Conditions == UNION {[N -> SUBSET (Values \cup {""})] : N \in SUBSET Names}

Requests == [dims : Conditions, merge : BOOLEAN, exact : SUBSET BOOLEAN]

ASSUME DiscoveryAssumption ==
  /\ "" \notin Values \cup TagValues
  /\ Arns \subseteq Patterned
  /\ \A a \in Arns, p \in Patterns, r \in Resources : a[p][r] \in Found(p)
  /\ Early \cap Late = {} /\ Early \cup Late = Resources
  /\ Instance \in [Late -> Early]
  /\ \A j \in Jobs :
       /\ j.filter \in Filters /\ j.types \in BOOLEAN
       /\ j.searchTags \subseteq SUBSET (TagValues \cup {""})
       /\ j.exported \in BOOLEAN /\ j.custom \in TagValues \cup {NoTag}
       /\ j.dims \in Conditions /\ j.exact \in BOOLEAN
       /\ j.metrics \in Seq(Requests)

VARIABLES
  job,      \* the job
  jobDims,  \* its search_dimensions, an object all its runs share
  tags,     \* the tag of each resource, "" if it has none
  alive,    \* the resources of the account
  created,  \* those that were created while the job ran
  step,     \* where run_discovery_job is suspended
  error,    \* what it raised
  listed,   \* what the first of two listings showed
  found,    \* the resources handed to the associator
  request,  \* the number of the request whose metrics are listed
  task      \* what became of the last metric

account == <<tags, alive, created>>
lookup  == <<sorted, next, claimedBy, mapped, answer>>
dvars   == <<vars, job, jobDims, account, step, error, listed, found, request,
             task>>

NoTask == [request |-> 0, metric |-> <<>>, kept |-> "none", resource |-> 0, tag |-> NoTag]
Miss   == [hit |-> FALSE, dims |-> <<>>]

TwoListings == job.filter \in {"apigateway", "dms"}

(* A replication task lives on an instance.                                *)
Supported(A) == job.filter = "dms" => \A t \in A \cap Late : Instance[t] \in A

DInit ==
  /\ job \in Jobs
  /\ jobDims = job.dims
  /\ tags \in [Resources -> TagValues \cup {""}]
  /\ alive \in SUBSET Resources /\ Supported(alive)
  /\ created = {} /\ listed = {} /\ found = {}
  /\ step = "tagging" /\ error = "none"
  /\ search = [p \in Patterns |-> [r \in Resources |-> Miss]]
  /\ Unbuilt
  /\ request = 1 /\ task = NoTask

-----------------------------------------------------------------------------
(* The account.  Its changes matter only between two listings.             *)
AccountChanges ==
  /\ TwoListings /\ step \in {"filter", "second"}
  /\ alive' \in SUBSET Resources \ {alive}
  /\ Supported(alive')
  /\ created' = created \cup (alive' \ alive)
  /\ UNCHANGED <<vars, job, jobDims, tags, step, error, listed, found, request, task>>

-----------------------------------------------------------------------------
(* Resources.                                                              *)

(* An exception ends the job and takes with it what was collected.         *)
Raise(e) ==
  /\ step' = "raised" /\ error' = e
  /\ answer' = NoAnswer /\ task' = NoTask
  /\ UNCHANGED <<search, sorted, next, claimedBy, mapped, job, jobDims, account,
                 listed, found, request>>

(* The tagging client: resources that have the tag and whose value the     *)
(* expression matches; none without resource_type_filters.                 *)
TagsMatch(r) == \A accepted \in job.searchTags : tags[r] \in accepted

Tagged(r) == (job.searchTags # {} => tags[r] # "") /\ TagsMatch(r)

GetAllResources ==
  /\ step = "tagging"
  /\ found' = {r \in alive : job.types /\ Tagged(r)}
  /\ step' = "filter"
  /\ UNCHANGED <<vars, job, jobDims, account, error, listed, request, task>>

(* The associator is built from the resources R.                           *)
Associated(R) ==
  /\ found' = R
  /\ step' = "metrics"
  /\ \E a \in Arns :
       search' = [p \in Patterns |-> [r \in Resources |-> IF r \in R THEN a[p][r] ELSE Miss]]
  /\ UNCHANGED <<lookup, job, jobDims, account, error, listed, request, task>>

(* Mutant: a listing is taken as it is, as that of shield.                 *)
MutListing == alive

(* The resources that a service lists itself, those whose tags match; here *)
(* a missing tag is matched as "".  A listing that ends early shows what   *)
(* that of a smaller account would, and every account is considered.       *)
Listing == {r \in alive : TagsMatch(r)}

Filtering(filter) == step = "filter" /\ job.filter = filter

NoResourceFilter == Filtering("none") /\ Associated(found)

AutoScalingClient == Filtering("autoscaling") /\ Associated(Listing)

EC2Client == (Filtering("spot") \/ Filtering("transitgateway")) /\ Associated(Listing)

PrometheusClient == Filtering("prometheus") /\ Associated(Listing)

(* The tags of a protection are not its resource's, and not looked at.     *)
ShieldClient == Filtering("shield") /\ Associated(alive)

(* Each gateway's tags are asked for with a synchronous call, whose answer *)
(* is awaited: a TypeError.                                                *)
StorageGatewayClient ==
  /\ Filtering("storagegateway")
  /\ IF alive = {} THEN Associated({}) ELSE Raise("TypeError")

(* Mutant: only a page of the instances is read.                           *)
MutFirstPages == SUBSET (alive \cap Early)

(* The first of two listings shows all instances; or REST APIs, perhaps    *)
(* only a page of them, as their token is looked for under another name.   *)
FirstPages ==
  IF job.filter = "dms" THEN {alive \cap Early} ELSE SUBSET (alive \cap Early)

(* APIGatewayFilter and DMSClient list nothing if nothing is to be         *)
(* filtered.                                                               *)
FirstListing ==
  /\ TwoListings /\ step = "filter"
  /\ IF found = {}
     THEN Associated({})
     ELSE /\ listed' \in FirstPages
          /\ step' = "second"
          /\ UNCHANGED <<vars, job, jobDims, account, error, found, request, task>>

(* Then come all HTTP APIs; a resource of either listing is kept if it is  *)
(* an API itself: the ARNs of stages and routes end otherwise.             *)
APIGatewayFilter ==
  /\ step = "second" /\ job.filter = "apigateway"
  /\ \E apis \in SUBSET found : Associated(apis \cap (listed \cup (alive \cap Late)))

(* Or replication tasks, but perhaps only a page, as above.  A task needs  *)
(* the name of its instance.  Resources of either listing are renamed; the *)
(* others stay in the list, but no pattern of DMS matches an ARN that was  *)
(* not renamed.                                                            *)
DMSClient ==
  /\ step = "second" /\ job.filter = "dms"
  /\ \E page \in SUBSET (alive \cap Late) :
       IF \A t \in page : Instance[t] \in listed
       THEN Associated(found \cap (listed \cup page))
       ELSE Raise("KeyError")

(* Any call can fail.                                                      *)
CallFails ==
  /\ step \notin {"done", "raised"}
  /\ Raise("call")

-----------------------------------------------------------------------------
(* Metrics.                                                                *)

ValueOf(m, n) == IF n \in DOMAIN m THEN m[n] ELSE ""

(* The conditions of the request, over, or instead of, those of the job.   *)
SearchDimensions(k) ==
  LET own == job.metrics[k].dims
  IN IF DOMAIN own = {} THEN jobDims
     ELSE IF job.metrics[k].merge
          THEN [n \in DOMAIN own \cup DOMAIN jobDims |->
                  IF n \in DOMAIN own THEN own[n] ELSE jobDims[n]]
          ELSE own

Exact(k) == LET own == job.metrics[k].exact
            IN IF own = {} THEN job.exact ELSE TRUE \in own

Wanted(k, m) ==
  /\ Exact(k) => DOMAIN SearchDimensions(k) = DOMAIN m
  /\ \A n \in DOMAIN SearchDimensions(k) : ValueOf(m, n) \in SearchDimensions(k)[n]

(* Mutant: no clone, the request's conditions are put into the job's.      *)
MutJobDims(k) == IF job.metrics[k].merge THEN SearchDimensions(k) ELSE jobDims

(* What merging leaves of the job's own conditions: the loop works on a    *)
(* shallow clone.                                                          *)
JobDims(k) == jobDims

(* The tags of a task; a shield protection has none of its resource.       *)
TaskTag(r) ==
  IF job.custom # NoTag THEN job.custom
  ELSE IF ~job.exported THEN NoTag
  ELSE IF r = 0 \/ job.filter = "shield" THEN "" ELSE tags[r]

(* list_metrics yields any metric; one task for each statistic if it is    *)
(* wanted and the associator does not skip it.                             *)
ListMetric(m) ==
  /\ step = "metrics" /\ request \in DOMAIN job.metrics
  /\ Built
  /\ jobDims' = JobDims(request)
  /\ IF Wanted(request, m)
     THEN /\ Associate(m)
          /\ task' = [request |-> request, metric |-> m,
                      kept |-> IF answer'.skip THEN "skipped" ELSE "reported",
                      resource |-> answer'.resource, tag |-> TaskTag(answer'.resource)]
     ELSE /\ task' = [NoTask EXCEPT !.request = request, !.metric = m, !.kept = "unwanted"]
          /\ answer' = NoAnswer
          /\ UNCHANGED <<search, sorted, next, claimedBy, mapped>>
  /\ UNCHANGED <<job, account, step, error, listed, found, request>>

(* The listing of a request ends; after the last one the job is done.      *)
NextRequest ==
  /\ step = "metrics" /\ Built
  /\ IF request \in DOMAIN job.metrics
     THEN request' = request + 1 /\ UNCHANGED step
     ELSE step' = "done" /\ UNCHANGED request
  /\ answer' = NoAnswer /\ task' = NoTask
  /\ UNCHANGED <<search, sorted, next, claimedBy, mapped, job, jobDims, account,
                 error, listed, found>>

Ended == step \in {"done", "raised"} /\ UNCHANGED dvars

DNext ==
  \/ AccountChanges
  \/ GetAllResources \/ NoResourceFilter
  \/ AutoScalingClient \/ EC2Client \/ PrometheusClient \/ ShieldClient
  \/ StorageGatewayClient \/ FirstListing \/ APIGatewayFilter \/ DMSClient
  \/ CallFails
  \/ /\ step = "metrics" /\ \E p \in Patterns : MapPattern(p)
     /\ UNCHANGED <<job, jobDims, account, step, error, listed, found, request, task>>
  \/ step = "metrics" /\ \E m \in Metrics : ListMetric(m)
  \/ NextRequest
  \/ Ended

DSpec == DInit /\ [][DNext]_dvars

-----------------------------------------------------------------------------
(* Every variable has its type, and the associator maps only what was      *)
(* found.                                                                  *)
DTypeOK ==
  /\ TypeOK
  /\ job \in Jobs /\ jobDims \in Conditions
  /\ tags \in [Resources -> TagValues \cup {""}]
  /\ step \in {"tagging", "filter", "second", "metrics", "done", "raised"}
  /\ error \in {"none", "call", "KeyError", "TypeError"}
  /\ error # "none" <=> step = "raised"
  /\ created \subseteq Resources /\ alive \subseteq Resources
  /\ listed \subseteq Early /\ found \subseteq Resources
  /\ {r \in Resources : claimedBy[r] # 0} \subseteq found
  /\ request \in 1..(Len(job.metrics) + 1)
  /\ task.tag \in TagValues \cup {"", NoTag}

(* Whether a metric fits its request as it was configured, one dimension   *)
(* at a time.                                                              *)
Fits(k, m) ==
  LET r == job.metrics[k]
      own(n) == n \in DOMAIN r.dims
      inherited(n) == n \in DOMAIN job.dims /\ ~own(n) /\ (r.merge \/ DOMAIN r.dims = {})
  IN \A n \in Names :
       /\ own(n) => ValueOf(m, n) \in r.dims[n]
       /\ inherited(n) => ValueOf(m, n) \in job.dims[n]
       /\ TRUE \in r.exact \/ (job.exact /\ r.exact = {}) =>
            (n \in DOMAIN m <=> own(n) \/ inherited(n))

(* A metric is dropped by its dimensions if and only if it does not fit    *)
(* its own request: what other requests of the job, earlier ones in        *)
(* particular, asked for does not matter.                                  *)
RequestsAreIndependent ==
  task.request # 0 => (task.kept # "unwanted" <=> Fits(task.request, task.metric))

(* A metric is never reported as that of a resource that the tags of the   *)
(* job exclude, nor with a tag that is not that resource's or the job's    *)
(* own -- unless the resources are those of shield, which have no tags.    *)
ReportedResourcesMatch ==
  task.kept = "reported" /\ task.resource # 0 /\ job.filter # "shield" =>
    /\ \A accepted \in job.searchTags : tags[task.resource] \in accepted
    /\ task.tag \in {job.custom, tags[task.resource]}

(* DMS jobs raise for an unknown instance only if it came into being while *)
(* the job ran; the listings of an account that only shrinks agree.        *)
KeyErrorsAreRaces ==
  error = "KeyError" => job.filter = "dms" /\ created \cap Early # {}
=============================================================================
