------------------------------ MODULE JobPlan ------------------------------
(***************************************************************************)
(* From the scrape config to the work of one executor (src/config.py, the  *)
(* lookup of src/services.py, the jobs of src/model.py, _get_executors of  *)
(* src/executor.py).                                                       *)
(*                                                                         *)
(* A task stands for everything one request of one job is about in one     *)
(* region-role.  A job that names a region twice is run twice there, so    *)
(* that a task has a copy number.                                          *)
(***************************************************************************)
EXTENDS Naturals, Sequences, FiniteSets

CONSTANTS
  Services,       \* the service table, a set of records with an aka and an ns
  DefaultRegion,  \* default-region of the config
  NoRole,         \* the role of jobs that name none
  Minute          \* 60 seconds, in the unit of the periods

ASSUME ServicesAssumption ==
  \A s, t \in Services : s.aka = t.aka \/ s.ns = t.ns => s = t

(* The type of a job is the alias or the namespace of a service.           *)
Known(type) == \E s \in Services : type \in {s.aka, s.ns}

(* One job that does not parse rejects the whole config: one of unknown    *)
(* type, or with an unknown field, without a required one, or with a wrong *)
(* regular expression (wellFormed is FALSE).                               *)
Parses(config) ==
  \A j \in DOMAIN config : Known(config[j].type) /\ config[j].wellFormed

(* Lists without their empty entries, or else the default.                 *)
OrDefault(list, default) ==
  LET truthy == SelectSeq(list, LAMBDA x : x # "")
  IN IF truthy = <<>> THEN <<default>> ELSE truthy

SubJobs(job) ==
  LET regions == OrDefault(job.regions, DefaultRegion)
      roles   == OrDefault(job.roles, NoRole)
  IN [n \in (DOMAIN regions) \X (DOMAIN roles) |-> <<regions[n[1]], roles[n[2]]>>]

(* How often a job is among the jobs of a region-role.                     *)
Times(job, rr) == Cardinality({n \in DOMAIN SubJobs(job) : SubJobs(job)[n] = rr})

(* One executor for each region-role of any job, of either kind.           *)
RegionRoles(config) ==
  UNION {{SubJobs(config[j])[n] : n \in DOMAIN SubJobs(config[j])} : j \in DOMAIN config}

(* The defaults of a request's missing fields.                             *)
Default == [period |-> Minute, length |-> Minute, delay |-> 0]

Field(request, f) == IF f \in DOMAIN request THEN request[f] ELSE Default[f]

Task(job, j, copy, k) ==
  [job |-> j, copy |-> copy, request |-> k, static |-> job.static,
   period |-> Field(job.metrics[k], "period"),
   length |-> Field(job.metrics[k], "length"),
   delay |-> Field(job.metrics[k], "delay")]

Plan(config, rr) ==
  UNION {{Task(config[j], j, copy, k) :
            copy \in 1..Times(config[j], rr), k \in DOMAIN config[j].metrics} :
          j \in DOMAIN config}
=============================================================================
