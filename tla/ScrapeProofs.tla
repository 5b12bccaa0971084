---------------------------- MODULE ScrapeProofs ----------------------------
(***************************************************************************)
(* Proofs about Scrape, for any number of invocations, region-roles,       *)
(* batches and messages, and any size of a send.                           *)
(***************************************************************************)
EXTENDS Scrape, TLAPS

(* Invariance of the types: every action, whoever takes it, assigns values *)
(* of the declared sets, and no send takes more than SendLimit entries.    *)
LEMMA TypeInit == Init => TypeOK
BY ScrapeAssumption
   DEF Init, TypeOK, Outcomes, RegionStates, UnitStates

LEMMA BatchSizeBounds ==
  ASSUME NEW n \in Nat
  PROVE  /\ BatchSize(n) \in 0..SendLimit
         /\ BatchSize(n) <= n
         /\ n > 0 => BatchSize(n) > 0
BY ScrapeAssumption DEF BatchSize

LEMMA TypeStep == TypeOK /\ [Next]_vars => TypeOK'
<1> SUFFICES ASSUME TypeOK, [Next]_vars PROVE TypeOK'
  OBVIOUS
<1> USE ScrapeAssumption DEF TypeOK, Outcomes, RegionStates, UnitStates, sends
<1>1. ASSUME NEW i \in Invocations, HandlerStep(i) PROVE TypeOK'
  <2>1. CASE Invoke(i)
    BY <2>1 DEF Invoke, Invocations
  <2>2. CASE Reject(i)
    BY <2>2 DEF Reject
  <2>3. CASE Return(i)
    BY <2>3 DEF Return
  <2>4. CASE Raise(i)
    BY <2>4 DEF Raise
  <2> QED
    BY <1>1, <2>1, <2>2, <2>3, <2>4 DEF HandlerStep
<1>2. CASE Kill
  BY <1>2 DEF Kill
<1>3. ASSUME NEW e \in Regions, RegionStep(e) PROVE TypeOK'
  <2> DEFINE s == <<e[1], e[2], Static>>
  <2>0. s \in Work
    BY DEF Regions, Work, Units
  <2>1. CASE SetupDone(e)
    BY <2>0, <2>1 DEF SetupDone, StaticOrDone
  <2>2. ASSUME NEW D \in SUBSET Batches, Discovered(e, D) PROVE TypeOK'
    BY <2>0, <2>2 DEF Discovered, StaticOrDone
  <2>3. CASE BatchesGathered(e)
    BY <2>0, <2>3 DEF BatchesGathered, StaticOrDone
  <2>4. CASE RegionFails(e)
    BY <2>4 DEF RegionFails, LeaveStrays
  <2> QED
    BY <1>3, <2>1, <2>2, <2>3, <2>4 DEF RegionStep
<1>4. ASSUME NEW e \in Regions, StraysEnd(e) PROVE TypeOK'
  BY <1>4 DEF StraysEnd
<1>5. ASSUME NEW w \in Work, UnitStep(w) PROVE TypeOK'
  <2>0. <<w[1], w[2]>> \in Regions
    BY DEF Regions, Work
  <2>1. ASSUME NEW n \in MessageCounts, Fetched(w, n) PROVE TypeOK'
    <3>1. n \in Nat /\ BatchSize(n) \in 0..SendLimit /\ n - BatchSize(n) \in Nat
      BY BatchSizeBounds
    <3> QED
      <4>1. CASE n = 0
        BY <2>0, <2>1, <4>1 DEF Fetched, Finish
      <4>2. CASE n # 0
        BY <2>1, <3>1, <4>2 DEF Fetched, SendNext
      <4> QED
        BY <4>1, <4>2
  <2>2. CASE FetchFails(w)
    BY <2>0, <2>2 DEF FetchFails, Finish, LeaveStrays
  <2>3. CASE SendReturns(w)
    <3> DEFINE n == left[w]
    <3>1. n \in Nat /\ BatchSize(n) \in 0..SendLimit /\ n - BatchSize(n) \in Nat
      BY BatchSizeBounds
    <3> QED
      BY <2>0, <2>3, <3>1 DEF SendReturns, Finish, SendNext
  <2>4. CASE SendRaises(w)
    BY <2>0, <2>4 DEF SendRaises, Finish
  <2> QED
    BY <1>5, <2>1, <2>2, <2>3, <2>4 DEF UnitStep
<1>6. ASSUME NEW w \in Work, ThreadStep(w) PROVE TypeOK'
  <2>1. PICK failed \in BOOLEAN, result \in {"sent", "broken"} :
          SendCall(w, failed, result)
    BY <1>6 DEF ThreadStep
  <2> QED
    BY <2>1 DEF SendCall
<1>7. CASE UNCHANGED vars
  BY <1>7 DEF vars
<1> QED
  BY <1>1, <1>2, <1>3, <1>4, <1>5, <1>6, <1>7 DEF Next

-----------------------------------------------------------------------------
(* The inductive invariant, one lemma for each actor.                      *)
LEMMA InvInit == Init => IInv
<1> SUFFICES ASSUME Init PROVE IInv
  OBVIOUS
<1>1. TypeOK
  BY TypeInit
<1>2. RunningIsCurrent /\ LiveMeansOpen /\ RegionsFollowHandler
  BY DEF Init, RunningIsCurrent, LiveMeansOpen, RegionsFollowHandler,
         LiveRegion, LiveUnit, Invocations, Regions, Work
<1>3. /\ NothingBeforeDiscovery
      /\ OnlyAwaitedBatches
      /\ StaticFollowsRegion
      /\ DoneRegions
      /\ StaticAfterBatches
  BY DEF Init, NothingBeforeDiscovery, OnlyAwaitedBatches, StaticFollowsRegion,
         DoneRegions, StaticAfterBatches, LiveUnit, Regions, Work, Units
<1>4. CountersFollowUnit /\ EachMessageHandedOnce
  BY DEF Init, CountersFollowUnit, EachMessageHandedOnce
<1> QED
  BY <1>1, <1>2, <1>3, <1>4 DEF IInv

(* The handler changes no unit; what it must respect is when an invocation *)
(* may be called running, ok or failed.                                    *)
LEMMA HandlerInv ==
  ASSUME IInv, TypeOK', NEW i \in Invocations, HandlerStep(i)
  PROVE  IInv'
<1> USE DEF IInv, TypeOK, sends
<1>1. UNCHANGED <<awaited, unit, sends>>
  BY DEF HandlerStep, Invoke, Reject, Return, Raise
<1>2. CountersFollowUnit' /\ EachMessageHandedOnce' /\ StaticAfterBatches'
      /\ OnlyAwaitedBatches'
  BY <1>1 DEF CountersFollowUnit, EachMessageHandedOnce, StaticAfterBatches,
              OnlyAwaitedBatches
<1>3. CASE Invoke(i)
  <2> USE <1>3 DEF Invoke, NextInvocation
  <2>1. RunningIsCurrent'
    BY DEF RunningIsCurrent, Invocations
  <2>2. LiveMeansOpen'
    BY <1>1 DEF LiveMeansOpen, LiveRegion, Regions, Work
  <2>3. RegionsFollowHandler'
    BY DEF RegionsFollowHandler, Regions
  <2>4. \A r \in RegionRoles : region[<<i, r>>] = "none"
    BY DEF RegionsFollowHandler, Regions
  <2>5. NothingBeforeDiscovery' /\ StaticFollowsRegion' /\ DoneRegions'
    BY <1>1, <2>4 DEF NothingBeforeDiscovery, StaticFollowsRegion, DoneRegions,
                      Regions, LiveUnit, Units
  <2> QED
    BY <1>2, <2>1, <2>2, <2>3, <2>5
<1>4. CASE Reject(i) \/ Return(i) \/ Raise(i)
  <2>1. UNCHANGED region
    BY <1>4 DEF Reject, Return, Raise
  <2>2. NothingBeforeDiscovery' /\ StaticFollowsRegion' /\ DoneRegions'
    BY <1>1, <2>1 DEF NothingBeforeDiscovery, StaticFollowsRegion, DoneRegions
  <2>3. RunningIsCurrent'
    <3>1. running' = 0 /\ outcome'[i] # "running"
      BY <1>4 DEF Reject, Return, Raise, NextInvocation
    <3>2. ASSUME NEW j \in Invocations, j # i PROVE outcome'[j] # "running"
      BY <1>4, <3>2 DEF Reject, Return, Raise, NextInvocation, RunningIsCurrent,
                        Invocations
    <3>3. \A j \in Invocations : j # 0
      BY DEF Invocations
    <3> QED
      BY <3>1, <3>2, <3>3 DEF RunningIsCurrent
  <2>4. RegionsFollowHandler'
    BY <1>4, <2>1 DEF Reject, Return, Raise, RegionsFollowHandler, NextInvocation,
                      AllRegionsDone, Regions
  <2>5. LiveMeansOpen'
    <3>1. CASE Reject(i) \/ Raise(i)
      BY <1>1, <2>1, <3>1 DEF Reject, Raise, LiveMeansOpen, NextInvocation,
                              Regions, Work
    <3>2. CASE Return(i)
      <4>1. ASSUME NEW w \in Work, w[1] = i PROVE unit[w] \notin LiveUnit
        <5>1. PICK r \in RegionRoles, u \in Units : w = <<i, r, u>>
          BY <4>1 DEF Work
        <5>2. region[<<i, r>>] = "done"
          BY <3>2 DEF Return, AllRegionsDone
        <5>3. unit[<<i, r, u>>] \in {"done", "none"}
          <6>1. CASE u = Static
            BY <5>2, <6>1 DEF DoneRegions
          <6>2. CASE u \in awaited[<<i, r>>]
            BY <5>2, <6>2 DEF DoneRegions
          <6>3. CASE u \in Batches \ awaited[<<i, r>>]
            BY <6>3 DEF OnlyAwaitedBatches
          <6> QED
            BY <6>1, <6>2, <6>3 DEF Units
        <5> QED
          BY <5>1, <5>3 DEF LiveUnit
      <4> QED
        BY <1>1, <2>1, <3>2, <4>1 DEF Return, AllRegionsDone, LiveMeansOpen,
                                      LiveRegion, Regions, Work
    <3> QED
      BY <1>4, <3>1, <3>2
  <2> QED
    BY <1>2, <2>2, <2>3, <2>4, <2>5
<1> QED
  BY <1>3, <1>4 DEF HandlerStep

(* A kill leaves nothing alive.                                            *)
LEMMA KillInv ==
  ASSUME IInv, TypeOK', Kill
  PROVE  IInv'
<1>0. UNCHANGED <<awaited, sends>>
  BY DEF Kill
<1>1. RunningIsCurrent'
  BY DEF Kill, IInv, TypeOK, RunningIsCurrent, Invocations
<1>2. /\ \A e \in Regions : region'[e] \notin LiveRegion
      /\ \A w \in Work : unit'[w] \notin LiveUnit
  BY DEF Kill, LiveRegion, LiveUnit
<1>3. LiveMeansOpen'
  BY <1>2 DEF LiveMeansOpen
<1>4. RegionsFollowHandler'
  BY DEF Kill, IInv, TypeOK, RegionsFollowHandler, RunningIsCurrent, LiveRegion, Regions
<1>5. NothingBeforeDiscovery' /\ OnlyAwaitedBatches'
  BY DEF Kill, IInv, TypeOK, NothingBeforeDiscovery, OnlyAwaitedBatches,
         LiveRegion, LiveUnit, Regions, Work, Units
<1>6. ASSUME NEW i \in Invocations, NEW r \in RegionRoles, NEW u \in Units
      PROVE  /\ unit'[<<i, r, u>>] = "none" <=> unit[<<i, r, u>>] = "none"
             /\ unit'[<<i, r, u>>] = "done" <=> unit[<<i, r, u>>] = "done"
             /\ region'[<<i, r>>] = "done" => region[<<i, r>>] = "done"
             /\ region'[<<i, r>>] \notin {"batches", "static"}
             /\ unit'[<<i, r, u>>] \notin LiveUnit
  BY <1>2 DEF Kill, LiveRegion, LiveUnit, Regions, Work
<1>7. StaticFollowsRegion'
  BY <1>6 DEF IInv, StaticFollowsRegion, Units
<1>8. DoneRegions'
  <2> SUFFICES ASSUME NEW i \in Invocations, NEW r \in RegionRoles,
                      region'[<<i, r>>] = "done"
               PROVE  /\ \A b \in awaited[<<i, r>>] : unit'[<<i, r, b>>] = "done"
                      /\ unit'[<<i, r, Static>>] =
                           IF r \in StaticRR THEN "done" ELSE "none"
    BY <1>0 DEF DoneRegions
  <2>1. region[<<i, r>>] = "done" /\ awaited[<<i, r>>] \subseteq Units
    BY <1>6 DEF IInv, TypeOK, Regions, Units
  <2> QED
    BY <1>6, <2>1 DEF IInv, DoneRegions, Units
<1>9. StaticAfterBatches'
  <2> SUFFICES ASSUME NEW i \in Invocations, NEW r \in RegionRoles,
                      unit'[<<i, r, Static>>] # "none", NEW b \in Batches
               PROVE  unit'[<<i, r, b>>] =
                        IF b \in awaited[<<i, r>>] THEN "done" ELSE "none"
    BY <1>0 DEF StaticAfterBatches
  <2>1. unit[<<i, r, Static>>] # "none"
    BY <1>6 DEF Units
  <2> QED
    BY <1>6, <2>1 DEF IInv, StaticAfterBatches, Units
<1>10. CountersFollowUnit' /\ EachMessageHandedOnce'
  BY DEF Kill, sends, IInv, TypeOK, CountersFollowUnit, EachMessageHandedOnce, LiveUnit
<1> QED
  BY <1>1, <1>3, <1>4, <1>5, <1>7, <1>8, <1>9, <1>10 DEF IInv

-----------------------------------------------------------------------------
(* The parts of the invariant that speak of one region and its units, at   *)
(* one region, so that a step can be followed in the region it touches and *)
(* ignored in the others.                                                  *)
RegionInv(i, r) ==
  /\ region[<<i, r>>] \in {"none", "setup", "discovering"} =>
       awaited[<<i, r>>] = {} /\ \A u \in Units : unit[<<i, r, u>>] = "none"
  /\ \A b \in Batches \ awaited[<<i, r>>] : unit[<<i, r, b>>] = "none"
  /\ region[<<i, r>>] = "batches" => unit[<<i, r, Static>>] = "none"
  /\ region[<<i, r>>] = "static" <=> unit[<<i, r, Static>>] \in LiveUnit
  /\ unit[<<i, r, Static>>] # "none" => r \in StaticRR
  /\ region[<<i, r>>] = "done" =>
       /\ \A b \in awaited[<<i, r>>] : unit[<<i, r, b>>] = "done"
       /\ unit[<<i, r, Static>>] = IF r \in StaticRR THEN "done" ELSE "none"
  /\ unit[<<i, r, Static>>] # "none" =>
       \A b \in Batches :
         unit[<<i, r, b>>] = IF b \in awaited[<<i, r>>] THEN "done" ELSE "none"

LEMMA RegionParts ==
  (/\ NothingBeforeDiscovery
   /\ OnlyAwaitedBatches
   /\ StaticFollowsRegion
   /\ DoneRegions
   /\ StaticAfterBatches)
  => \A i \in Invocations, r \in RegionRoles : RegionInv(i, r)
<1> SUFFICES ASSUME NothingBeforeDiscovery, OnlyAwaitedBatches, StaticFollowsRegion,
                    DoneRegions, StaticAfterBatches,
                    NEW i \in Invocations, NEW r \in RegionRoles
             PROVE  RegionInv(i, r)
  OBVIOUS
<1>1. region[<<i, r>>] \in {"none", "setup", "discovering"} =>
        awaited[<<i, r>>] = {} /\ \A u \in Units : unit[<<i, r, u>>] = "none"
  BY DEF NothingBeforeDiscovery
<1>2. \A b \in Batches \ awaited[<<i, r>>] : unit[<<i, r, b>>] = "none"
  BY DEF OnlyAwaitedBatches
<1>3. /\ region[<<i, r>>] = "batches" => unit[<<i, r, Static>>] = "none"
      /\ region[<<i, r>>] = "static" <=> unit[<<i, r, Static>>] \in LiveUnit
      /\ unit[<<i, r, Static>>] # "none" => r \in StaticRR
  BY DEF StaticFollowsRegion
<1>4. region[<<i, r>>] = "done" =>
       /\ \A b \in awaited[<<i, r>>] : unit[<<i, r, b>>] = "done"
       /\ unit[<<i, r, Static>>] = IF r \in StaticRR THEN "done" ELSE "none"
  BY DEF DoneRegions
<1>5. unit[<<i, r, Static>>] # "none" =>
       \A b \in Batches :
         unit[<<i, r, b>>] = IF b \in awaited[<<i, r>>] THEN "done" ELSE "none"
  BY DEF StaticAfterBatches
<1> QED
  BY <1>1, <1>2, <1>3, <1>4, <1>5 DEF RegionInv

(* A region that a step leaves alone keeps its part.                       *)
LEMMA RegionFrame ==
  ASSUME NEW i \in Invocations, NEW r \in RegionRoles, TypeOK, RegionInv(i, r),
         region'[<<i, r>>] = region[<<i, r>>],
         awaited'[<<i, r>>] = awaited[<<i, r>>],
         \A u \in Units : unit'[<<i, r, u>>] = unit[<<i, r, u>>]
  PROVE  RegionInv(i, r)'
<1>1. awaited[<<i, r>>] \subseteq Units /\ Batches \subseteq Units /\ Static \in Units
  BY DEF TypeOK, Regions, Units
<1> QED
  BY <1>1 DEF RegionInv

(* The end of the batches, or their absence, in one region.                *)
LEMMA StaticOrDoneKeeps ==
  ASSUME NEW j \in Invocations, NEW q \in RegionRoles, TypeOK,
         StaticOrDone(<<j, q>>),
         awaited'[<<j, q>>] \subseteq Batches,
         unit[<<j, q, Static>>] = "none",
         \A b \in Batches :
           unit[<<j, q, b>>] = IF b \in awaited'[<<j, q>>] THEN "done" ELSE "none"
  PROVE  /\ RegionInv(j, q)'
         /\ \A w \in Work : \/ unit'[w] = unit[w]
                            \/ /\ w[1] = j /\ w[2] = q
                               /\ unit[w] = "none" /\ unit'[w] = "fetching"
<1> DEFINE e == <<j, q>>
           s == <<j, q, Static>>
<1>1. e \in Regions /\ s \in Work /\ \A b \in Batches : <<j, q, b>> \in Work
  BY DEF Regions, Work, Units
<1>2. \A b \in Batches : <<j, q, b>> # s
  BY ScrapeAssumption
<1>3. CASE q \in StaticRR
  <2>1. region'[e] = "static" /\ unit' = [unit EXCEPT ![s] = "fetching"]
    BY <1>1, <1>3 DEF StaticOrDone, TypeOK
  <2>2. unit'[s] = "fetching" /\ \A w \in Work : w # s => unit'[w] = unit[w]
    BY <1>1, <2>1 DEF TypeOK
  <2>3. \A b \in Batches : unit'[<<j, q, b>>] = unit[<<j, q, b>>]
    BY <1>1, <1>2, <2>2
  <2> QED
    BY <1>3, <2>1, <2>2, <2>3 DEF RegionInv, LiveUnit
<1>4. CASE q \notin StaticRR
  <2>1. region'[e] = "done" /\ unit' = unit
    BY <1>1, <1>4 DEF StaticOrDone, TypeOK
  <2> QED
    BY <1>4, <2>1 DEF RegionInv, LiveUnit
<1> QED
  BY <1>3, <1>4

(* What a region's coroutine does to the units: it starts some of its own. *)
LEMMA RegionInvariance ==
  ASSUME IInv, TypeOK', NEW j \in Invocations, NEW q \in RegionRoles,
         RegionStep(<<j, q>>)
  PROVE  IInv'
<1> DEFINE e == <<j, q>>
<1>0. e \in Regions /\ <<j, q, Static>> \in Work
  BY DEF Regions, Work, Units
<1>1. /\ UNCHANGED <<running, outcome, sends>>
      /\ region[e] \in LiveRegion
      /\ region[e] \in {"setup", "discovering", "batches"}
  BY DEF RegionStep, SetupDone, Discovered, BatchesGathered, RegionFails, LiveRegion
<1>2. \A f \in Regions : f # e => region'[f] = region[f] /\ awaited'[f] = awaited[f]
  BY <1>0 DEF RegionStep, SetupDone, Discovered, BatchesGathered, RegionFails,
              StaticOrDone, IInv, TypeOK
<1>3. TypeOK /\ RegionInv(j, q)
  BY RegionParts DEF IInv
<1>4. /\ RegionInv(j, q)'
      /\ \A w \in Work : \/ unit'[w] = unit[w]
                         \/ /\ w[1] = j /\ w[2] = q
                            /\ unit[w] = "none" /\ unit'[w] = "fetching"
  <2>0. <<e[1], e[2]>> = e /\ awaited[e] \subseteq Batches
    BY <1>0, <1>3 DEF TypeOK
  <2>1. CASE SetupDone(e)
    <3>1. /\ region[e] = "setup" /\ UNCHANGED awaited
          /\ awaited[e] = {} /\ \A u \in Units : unit[<<j, q, u>>] = "none"
      BY <1>3, <2>1 DEF SetupDone, RegionInv
    <3>2. CASE q \in DiscoveryRR
      <4>1. region'[e] = "discovering" /\ unit' = unit
        BY <1>0, <1>3, <2>1, <3>2 DEF SetupDone, TypeOK
      <4> QED
        BY <3>1, <4>1 DEF RegionInv, LiveUnit, Units
    <3>3. CASE q \notin DiscoveryRR
      <4>1. StaticOrDone(e)
        BY <2>1, <3>3 DEF SetupDone
      <4> QED
        BY <1>3, <3>1, <4>1, StaticOrDoneKeeps DEF Units
    <3> QED
      BY <3>2, <3>3
  <2>2. ASSUME NEW D \in SUBSET Batches, Discovered(e, D)
        PROVE  <1>4!1 /\ <1>4!2
    <3>1. /\ region[e] = "discovering" /\ awaited'[e] = D
          /\ \A u \in Units : unit[<<j, q, u>>] = "none"
      BY <1>0, <1>3, <2>2 DEF Discovered, RegionInv, TypeOK
    <3>2. CASE D = {}
      <4>1. StaticOrDone(e)
        BY <2>2, <3>2 DEF Discovered
      <4> QED
        BY <1>3, <3>1, <3>2, <4>1, StaticOrDoneKeeps DEF Units
    <3>3. CASE D # {}
      <4>1. /\ region'[e] = "batches"
            /\ unit' = [w \in Work |-> IF w[1] = j /\ w[2] = q /\ w[3] \in D
                                      THEN "fetching" ELSE unit[w]]
        BY <1>0, <1>3, <2>2, <3>3 DEF Discovered, TypeOK
      <4>2. \A u \in Units : unit'[<<j, q, u>>] = IF u \in D THEN "fetching" ELSE "none"
        BY <3>1, <4>1 DEF Work
      <4>3. Static \notin D /\ Static \in Units /\ D \subseteq Units
        BY ScrapeAssumption DEF Units
      <4>4. RegionInv(j, q)'
        BY <3>1, <4>1, <4>2, <4>3 DEF RegionInv, LiveUnit, Units
      <4>5. \A w \in Work : w[1] = j /\ w[2] = q => unit[w] = "none"
        BY <3>1 DEF Work
      <4> QED
        BY <4>1, <4>4, <4>5
    <3> QED
      BY <3>2, <3>3
  <2>3. CASE BatchesGathered(e)
    <3>1. /\ region[e] = "batches" /\ UNCHANGED awaited /\ StaticOrDone(e)
          /\ \A b \in awaited[e] : unit[<<j, q, b>>] = "done"
      BY <2>3 DEF BatchesGathered, BatchesDone
    <3>2. /\ unit[<<j, q, Static>>] = "none"
          /\ \A b \in Batches \ awaited[e] : unit[<<j, q, b>>] = "none"
      BY <1>3, <3>1 DEF RegionInv
    <3> QED
      BY <1>3, <2>0, <3>1, <3>2, StaticOrDoneKeeps
  <2>4. CASE RegionFails(e)
    <3>1. region'[e] = "failed" /\ UNCHANGED <<unit, awaited>>
      BY <1>0, <1>3, <2>4 DEF RegionFails, TypeOK
    <3>2. unit[<<j, q, Static>>] = "none"
      BY <1>1, <1>3 DEF RegionInv, Units
    <3> QED
      BY <1>3, <3>1, <3>2 DEF RegionInv, LiveUnit
  <2> QED
    BY <2>1, <2>2, <2>3, <2>4 DEF RegionStep
<1>5. \A i \in Invocations, r \in RegionRoles : RegionInv(i, r)'
  <2>1. ASSUME NEW i \in Invocations, NEW r \in RegionRoles, <<i, r>> # e
        PROVE  RegionInv(i, r)'
    <3>1. RegionInv(i, r)
      BY RegionParts DEF IInv
    <3>2. /\ region'[<<i, r>>] = region[<<i, r>>]
          /\ awaited'[<<i, r>>] = awaited[<<i, r>>]
      BY <1>2, <2>1 DEF Regions
    <3>3. \A u \in Units : unit'[<<i, r, u>>] = unit[<<i, r, u>>]
      BY <1>4, <2>1 DEF Work
    <3> QED
      BY <1>3, <3>1, <3>2, <3>3, RegionFrame
  <2> QED
    BY <1>4, <2>1
<1>6. outcome[j] \in {"running", "failed"}
  BY <1>0, <1>1 DEF IInv, LiveMeansOpen
<1>7. RunningIsCurrent' /\ EachMessageHandedOnce'
  BY <1>1 DEF IInv, RunningIsCurrent, EachMessageHandedOnce, sends
<1>8. LiveMeansOpen'
  BY <1>1, <1>2, <1>4, <1>6 DEF IInv, LiveMeansOpen
<1>9. RegionsFollowHandler'
  BY <1>1, <1>2, <1>6 DEF IInv, RegionsFollowHandler
<1>10. CountersFollowUnit'
  BY <1>1, <1>4 DEF IInv, CountersFollowUnit, sends
<1>11. /\ NothingBeforeDiscovery' /\ OnlyAwaitedBatches' /\ StaticFollowsRegion'
       /\ DoneRegions' /\ StaticAfterBatches'
  BY <1>5 DEF RegionInv, NothingBeforeDiscovery, OnlyAwaitedBatches,
              StaticFollowsRegion, DoneRegions, StaticAfterBatches
<1> QED
  BY <1>7, <1>8, <1>9, <1>10, <1>11 DEF IInv

(* What a step of a unit, in the loop or on its thread, does to the        *)
(* states: the unit was live, and its region moves only with a static unit *)
(* that ends.                                                              *)
UnitMoves(w) ==
  /\ UNCHANGED <<running, outcome, awaited>>
  /\ unit[w] \in LiveUnit
  /\ unit'[w] \in LiveUnit \cup {"done", "failed"}
  /\ \A v \in Work : v # w => unit'[v] = unit[v]
  /\ IF w[3] = Static /\ unit'[w] \in {"done", "failed"}
     THEN /\ region'[<<w[1], w[2]>>] = unit'[w]
          /\ \A e \in Regions : e # <<w[1], w[2]>> => region'[e] = region[e]
     ELSE UNCHANGED region

(* ... and to the counters, which add up and agree with its state.         *)
CountersMove(w) ==
  /\ \A v \in Work : v # w =>
       /\ generated'[v] = generated[v] /\ left'[v] = left[v]
       /\ batch'[v] = batch[v] /\ handed'[v] = handed[v]
  /\ generated'[w] = handed'[w] + batch'[w] + left'[w]
  /\ unit'[w] # "sending" => batch'[w] = 0
  /\ unit'[w] = "done" => left'[w] = 0
  /\ unit'[w] # "fetching"

LEMMA FinishMoves ==
  ASSUME TypeOK, NEW w \in Work, NEW result \in {"done", "failed"},
         Finish(w, result)
  PROVE  /\ unit'[w] = result
         /\ \A v \in Work : v # w => unit'[v] = unit[v]
         /\ IF w[3] = Static
            THEN /\ region'[<<w[1], w[2]>>] = result
                 /\ \A e \in Regions : e # <<w[1], w[2]>> => region'[e] = region[e]
            ELSE UNCHANGED region
<1>1. <<w[1], w[2]>> \in Regions
  BY DEF Regions, Work
<1> QED
  BY <1>1 DEF Finish, TypeOK

LEMMA SendNextMoves ==
  ASSUME TypeOK, NEW w \in Work, NEW n \in Nat, SendNext(w, n)
  PROVE  /\ unit'[w] = "sending"
         /\ \A v \in Work : v # w =>
              unit'[v] = unit[v] /\ left'[v] = left[v] /\ batch'[v] = batch[v]
         /\ batch'[w] + left'[w] = n
         /\ batch'[w] \in Nat /\ left'[w] \in Nat
BY BatchSizeBounds, ScrapeAssumption DEF SendNext, TypeOK

LEMMA StepMoves ==
  ASSUME IInv, NEW w \in Work, UnitStep(w) \/ ThreadStep(w)
  PROVE  UnitMoves(w) /\ CountersMove(w)
<1>1. /\ TypeOK
      /\ generated[w] = handed[w] + batch[w] + left[w]
      /\ unit[w] = "fetching" =>
           generated[w] = 0 /\ left[w] = 0 /\ batch[w] = 0 /\ handed[w] = 0
      /\ unit[w] \notin {"sending", "killed"} => batch[w] = 0
  BY DEF IInv, EachMessageHandedOnce, CountersFollowUnit
<1>2. /\ generated[w] \in Nat /\ left[w] \in Nat
      /\ batch[w] \in Nat /\ handed[w] \in Nat
  BY <1>1, ScrapeAssumption DEF TypeOK
<1>3. ASSUME NEW n \in MessageCounts, Fetched(w, n)
      PROVE  UnitMoves(w) /\ CountersMove(w)
  <2>1. /\ n \in Nat /\ unit[w] = "fetching"
        /\ UNCHANGED <<running, outcome, awaited, handed>>
        /\ generated' = [generated EXCEPT ![w] = n]
    BY <1>3, ScrapeAssumption DEF Fetched
  <2>2. generated'[w] = n /\ \A v \in Work : v # w => generated'[v] = generated[v]
    BY <1>1, <2>1 DEF TypeOK
  <2>3. CASE n = 0
    <3>1. Finish(w, "done") /\ UNCHANGED <<left, batch>>
      BY <1>3, <2>3 DEF Fetched
    <3> QED
      BY <1>1, <2>1, <2>2, <2>3, <3>1, FinishMoves
         DEF UnitMoves, CountersMove, LiveUnit
  <2>4. CASE n # 0
    <3>1. SendNext(w, n) /\ UNCHANGED region
      BY <1>3, <2>4 DEF Fetched
    <3> QED
      BY <1>1, <2>1, <2>2, <3>1, SendNextMoves DEF UnitMoves, CountersMove, LiveUnit
  <2> QED
    BY <2>3, <2>4
<1>4. CASE FetchFails(w) \/ SendRaises(w)
  <2>1. /\ unit[w] \in {"fetching", "broken"} /\ Finish(w, "failed")
        /\ UNCHANGED <<running, outcome, awaited, sends>>
    BY <1>4 DEF FetchFails, SendRaises
  <2> QED
    BY <1>1, <2>1, FinishMoves DEF UnitMoves, CountersMove, LiveUnit, sends
<1>5. CASE SendReturns(w)
  <2>1. /\ unit[w] = "sent"
        /\ UNCHANGED <<running, outcome, awaited, generated, handed>>
    BY <1>5 DEF SendReturns
  <2>2. CASE left[w] > 0
    <3>1. SendNext(w, left[w]) /\ UNCHANGED region
      BY <1>5, <2>2 DEF SendReturns
    <3>2. batch[w] = 0 /\ generated[w] = handed[w] + left[w]
      BY <1>1, <1>2, <2>1
    <3>3. batch'[w] + left'[w] = left[w] /\ batch'[w] \in Nat /\ left'[w] \in Nat
      BY <1>1, <1>2, <3>1, SendNextMoves
    <3>4. generated'[w] = handed'[w] + batch'[w] + left'[w]
      BY <1>2, <2>1, <3>2, <3>3
    <3> QED
      BY <1>1, <1>2, <2>1, <3>1, <3>4, SendNextMoves
         DEF UnitMoves, CountersMove, LiveUnit
  <2>3. CASE ~(left[w] > 0)
    <3>1. Finish(w, "done") /\ UNCHANGED <<left, batch>>
      BY <1>5, <2>3 DEF SendReturns
    <3>2. left[w] = 0
      BY <1>2, <2>3
    <3> QED
      BY <1>1, <2>1, <3>1, <3>2, FinishMoves DEF UnitMoves, CountersMove, LiveUnit
  <2> QED
    BY <2>2, <2>3
<1>6. CASE ThreadStep(w)
  <2>1. PICK failed \in BOOLEAN, result \in {"sent", "broken"} :
          SendCall(w, failed, result)
    BY <1>6 DEF ThreadStep
  <2>2. /\ unit[w] = "sending" /\ unit' = [unit EXCEPT ![w] = result]
        /\ batch' = [batch EXCEPT ![w] = 0]
        /\ handed' = [handed EXCEPT ![w] = handed[w] + batch[w]]
        /\ UNCHANGED <<running, outcome, region, awaited, generated, left>>
    BY <2>1 DEF SendCall
  <2>3. UnitMoves(w)
    BY <1>1, <2>2 DEF UnitMoves, LiveUnit, TypeOK
  <2>4. handed'[w] = handed[w] + batch[w] /\ batch'[w] = 0 /\ unit'[w] = result
    BY <1>1, <2>2 DEF TypeOK
  <2>5. generated'[w] = handed'[w] + batch'[w] + left'[w]
    BY <1>1, <1>2, <2>2, <2>4
  <2> QED
    BY <1>1, <2>2, <2>3, <2>4, <2>5 DEF CountersMove, TypeOK
<1> QED
  BY <1>3, <1>4, <1>5, <1>6 DEF UnitStep

LEMMA UnitInvariance ==
  ASSUME IInv, TypeOK', NEW w \in Work, UnitMoves(w), CountersMove(w)
  PROVE  IInv'
<1>0. PICK j \in Invocations, q \in RegionRoles, u \in Units : w = <<j, q, u>>
  BY DEF Work
<1>1. /\ TypeOK
      /\ w[1] = j /\ w[2] = q /\ w[3] = u
      /\ <<j, q>> \in Regions
      /\ Static \notin Batches /\ Static \in Units /\ Batches \subseteq Units
      /\ \A i \in Invocations, r \in RegionRoles : RegionInv(i, r)
  BY <1>0, ScrapeAssumption, RegionParts DEF IInv, Regions, Units
<1>2. /\ UNCHANGED <<running, outcome, awaited>>
      /\ unit[w] \in LiveUnit /\ unit'[w] \in LiveUnit \cup {"done", "failed"}
      /\ \A v \in Work : v # w => unit'[v] = unit[v]
  BY DEF UnitMoves
<1>3. outcome[j] \in {"running", "failed"}
  BY <1>0, <1>1, <1>2 DEF IInv, LiveMeansOpen
<1>4. RunningIsCurrent'
  BY <1>2 DEF IInv, RunningIsCurrent
<1>5. \A e \in Regions :
        region'[e] # region[e] => e = <<j, q>> /\ region'[e] \in {"done", "failed"}
  BY <1>1, <1>2 DEF UnitMoves
<1>6. LiveMeansOpen'
  BY <1>1, <1>2, <1>3, <1>5 DEF IInv, LiveMeansOpen, LiveRegion
<1>7. RegionsFollowHandler'
  BY <1>1, <1>2, <1>3, <1>5 DEF IInv, RegionsFollowHandler
<1>8. CountersFollowUnit'
  <2>1. ASSUME NEW v \in Work, v # w
        PROVE  /\ unit'[v] \in {"none", "fetching"} =>
                    generated'[v] = 0 /\ left'[v] = 0 /\ batch'[v] = 0 /\ handed'[v] = 0
               /\ unit'[v] \notin {"sending", "killed"} => batch'[v] = 0
               /\ unit'[v] = "done" => left'[v] = 0
    BY <1>2, <2>1 DEF IInv, CountersFollowUnit, CountersMove
  <2>2. /\ unit'[w] \notin {"none", "fetching"}
        /\ unit'[w] \notin {"sending", "killed"} => batch'[w] = 0
        /\ unit'[w] = "done" => left'[w] = 0
    BY <1>2 DEF CountersMove, LiveUnit
  <2> QED
    BY <2>1, <2>2 DEF CountersFollowUnit
<1>9. EachMessageHandedOnce'
  BY DEF IInv, EachMessageHandedOnce, CountersMove
<1>10. ASSUME NEW i \in Invocations, NEW r \in RegionRoles
       PROVE  RegionInv(i, r)'
  <2>1. CASE <<i, r>> # <<j, q>>
    <3>1. /\ region'[<<i, r>>] = region[<<i, r>>]
          /\ \A v \in Units : unit'[<<i, r, v>>] = unit[<<i, r, v>>]
      BY <1>0, <1>2, <1>5, <2>1 DEF Regions, Work
    <3> QED
      BY <1>1, <1>2, <3>1, RegionFrame
  <2>2. CASE i = j /\ r = q /\ u = Static
    <3>1. /\ RegionInv(j, q) /\ unit[<<j, q, Static>>] \in LiveUnit
          /\ region[<<j, q>>] = "static" /\ q \in StaticRR
      BY <1>0, <1>1, <1>2, <2>2 DEF RegionInv, LiveUnit
    <3>2. \A b \in Batches : unit'[<<j, q, b>>] = unit[<<j, q, b>>]
      BY <1>0, <1>1, <1>2, <2>2 DEF Work
    <3>3. IF unit'[w] \in {"done", "failed"}
          THEN region'[<<j, q>>] = unit'[w]
          ELSE region'[<<j, q>>] = "static"
      BY <1>1, <2>2, <3>1 DEF UnitMoves
    <3>4. awaited[<<j, q>>] \subseteq Batches
      BY <1>1 DEF TypeOK
    <3>5. \A b \in Batches :
            unit'[<<j, q, b>>] = IF b \in awaited'[<<j, q>>] THEN "done" ELSE "none"
      BY <1>2, <3>1, <3>2 DEF RegionInv, LiveUnit
    <3> QED
      BY <1>0, <1>2, <2>2, <3>1, <3>3, <3>4, <3>5 DEF RegionInv, LiveUnit
  <2>3. CASE i = j /\ r = q /\ u # Static
    <3>1. /\ RegionInv(j, q) /\ u \in Batches /\ UNCHANGED region
          /\ unit'[<<j, q, Static>>] = unit[<<j, q, Static>>]
          /\ \A v \in Units : v # u => unit'[<<j, q, v>>] = unit[<<j, q, v>>]
      BY <1>0, <1>1, <1>2, <2>3 DEF UnitMoves, Units, Work
    <3>2. /\ unit[<<j, q, u>>] \notin {"none", "done"}
          /\ awaited[<<j, q>>] \subseteq Batches
      BY <1>0, <1>1, <1>2 DEF LiveUnit, TypeOK
    <3>3. u \in awaited[<<j, q>>]
      BY <3>1, <3>2 DEF RegionInv
    <3>4. region[<<j, q>>] \notin {"none", "setup", "discovering", "done"}
      <4>1. u \in Units
        BY <3>1 DEF Units
      <4>2. region[<<j, q>>] # "done"
        BY <3>1, <3>2, <3>3 DEF RegionInv
      <4>3. region[<<j, q>>] \notin {"none", "setup", "discovering"}
        BY <3>1, <3>2, <4>1 DEF RegionInv
      <4> QED
        BY <4>2, <4>3
    <3>5. unit[<<j, q, Static>>] = "none"
      BY <3>1, <3>2, <3>3 DEF RegionInv
    <3>6. region[<<j, q>>] # "static"
      BY <3>1, <3>5 DEF RegionInv, LiveUnit
    <3>7. \A b \in Batches \ awaited[<<j, q>>] : unit'[<<j, q, b>>] = "none"
      <4>1. ASSUME NEW b \in Batches \ awaited[<<j, q>>]
            PROVE  unit'[<<j, q, b>>] = "none"
        <5>1. unit[<<j, q, b>>] = "none"
          BY <3>1 DEF RegionInv
        <5>2. b # u /\ b \in Units
          BY <3>3 DEF Units
        <5> QED
          BY <3>1, <5>1, <5>2
      <4> QED
        BY <4>1
    <3> QED
      BY <1>2, <2>3, <3>1, <3>4, <3>5, <3>6, <3>7 DEF RegionInv, LiveUnit
  <2> QED
    BY <2>1, <2>2, <2>3
<1>11. /\ NothingBeforeDiscovery' /\ OnlyAwaitedBatches' /\ StaticFollowsRegion'
       /\ DoneRegions' /\ StaticAfterBatches'
  BY <1>10 DEF RegionInv, NothingBeforeDiscovery, OnlyAwaitedBatches,
               StaticFollowsRegion, DoneRegions, StaticAfterBatches
<1> QED
  BY <1>4, <1>6, <1>7, <1>8, <1>9, <1>11 DEF IInv

LEMMA InvStep == IInv /\ [Next]_vars => IInv'
<1> SUFFICES ASSUME IInv, [Next]_vars PROVE IInv'
  OBVIOUS
<1>1. TypeOK'
  BY TypeStep DEF IInv
<1>2. ASSUME NEW i \in Invocations, HandlerStep(i) PROVE IInv'
  BY <1>1, <1>2, HandlerInv
<1>3. CASE Kill
  BY <1>1, <1>3, KillInv
<1>4. ASSUME NEW e \in Regions, RegionStep(e) PROVE IInv'
  <2>1. PICK j \in Invocations, q \in RegionRoles : e = <<j, q>>
    BY DEF Regions
  <2> QED
    BY <1>1, <1>4, <2>1, RegionInvariance
<1>5. ASSUME NEW w \in Work, UnitStep(w) \/ ThreadStep(w) PROVE IInv'
  BY <1>1, <1>5, StepMoves, UnitInvariance
<1>6. CASE UNCHANGED vars \/ \E e \in Regions : StraysEnd(e)
  <2>1. UNCHANGED <<running, outcome, region, awaited, unit, sends>>
    BY <1>6 DEF vars, StraysEnd, sends
  <2> QED
    BY <1>1, <2>1 DEF sends, IInv, RunningIsCurrent, LiveMeansOpen,
         RegionsFollowHandler, NothingBeforeDiscovery, OnlyAwaitedBatches,
         StaticFollowsRegion, DoneRegions, StaticAfterBatches, CountersFollowUnit,
         EachMessageHandedOnce
<1> QED
  BY <1>2, <1>3, <1>4, <1>5, <1>6 DEF Next

(* The inductive invariant holds of every behaviour of the environment:    *)
(* handler, coroutines, pool threads and kills in any order.               *)
THEOREM InvCorrect == Spec => []IInv
BY InvInit, InvStep, PTL DEF Spec

(* Strays are left by the step in which their executor fails, and it stays *)
(* failed; so does its invocation, since a handler with a failed region    *)
(* can only raise.                                                         *)
LEMMA StraysStep == IInv /\ StraysHaveFailed /\ [Next]_vars => StraysHaveFailed'
<1> SUFFICES ASSUME IInv, StraysHaveFailed, [Next]_vars,
                    NEW e \in strays'
             PROVE  region'[e] = "failed" /\ outcome'[e[1]] \in {"running", "failed"}
  BY DEF StraysHaveFailed
<1>0. /\ TypeOK
      /\ strays \subseteq Regions
      /\ \A f \in Regions : f[1] \in Invocations /\ f[2] \in RegionRoles /\ <<f[1], f[2]>> = f
      /\ e \in strays => region[e] = "failed" /\ outcome[e[1]] \in {"running", "failed"}
  BY DEF IInv, TypeOK, Regions, StraysHaveFailed
<1>1. ASSUME NEW i \in Invocations, HandlerStep(i)
      PROVE  region'[e] = "failed" /\ outcome'[e[1]] \in {"running", "failed"}
  <2>1. e \in strays
    BY <1>1 DEF HandlerStep, Invoke, Reject, Return, Raise
  <2>2. CASE Invoke(i) \/ Reject(i)
    BY <1>0, <2>1, <2>2 DEF Invoke, Reject, NextInvocation, TypeOK
  <2>3. CASE Return(i)
    <3>1. e[1] # i
      BY <1>0, <2>1, <2>3 DEF Return, AllRegionsDone
    <3> QED
      BY <1>0, <2>1, <2>3, <3>1 DEF Return, TypeOK
  <2>4. CASE Raise(i)
    BY <1>0, <2>1, <2>4 DEF Raise, TypeOK
  <2> QED
    BY <1>1, <2>2, <2>3, <2>4 DEF HandlerStep
<1>2. CASE Kill
  BY <1>2 DEF Kill
<1>3. ASSUME NEW f \in Regions, RegionStep(f)
      PROVE  region'[e] = "failed" /\ outcome'[e[1]] \in {"running", "failed"}
  <2>1. region[f] \in LiveRegion /\ region[f] # "failed" /\ UNCHANGED outcome
    BY <1>3 DEF RegionStep, SetupDone, Discovered, BatchesGathered, RegionFails, LiveRegion
  <2>2. CASE e \in strays
    <3>1. e # f
      BY <1>0, <2>1, <2>2
    <3> QED
      BY <1>0, <1>3, <2>1, <2>2, <3>1
         DEF RegionStep, SetupDone, Discovered, BatchesGathered, RegionFails,
             StaticOrDone, TypeOK
  <2>3. CASE e \notin strays
    <3>1. e = f /\ RegionFails(f)
      BY <1>3, <2>3 DEF RegionStep, SetupDone, Discovered, BatchesGathered,
                        RegionFails, LeaveStrays
    <3>2. outcome[f[1]] \in {"running", "failed"}
      BY <2>1 DEF IInv, LiveMeansOpen
    <3> QED
      BY <1>0, <2>1, <3>1, <3>2 DEF RegionFails, TypeOK
  <2> QED
    BY <2>2, <2>3
<1>4. ASSUME NEW w \in Work, UnitStep(w) \/ ThreadStep(w)
      PROVE  region'[e] = "failed" /\ outcome'[e[1]] \in {"running", "failed"}
  <2>0. /\ UnitMoves(w) /\ UNCHANGED outcome
        /\ <<w[1], w[2]>> \in Regions
    BY <1>4, StepMoves DEF UnitMoves, Work, Regions
  <2>1. CASE e \in strays
    <3>1. w[3] = Static => e # <<w[1], w[2]>>
      <4>1. PICK i \in Invocations, r \in RegionRoles, u \in Units : w = <<i, r, u>>
        BY DEF Work
      <4>2. w[3] = Static => region[<<i, r>>] = "static"
        BY <2>0, <4>1 DEF UnitMoves, IInv, StaticFollowsRegion
      <4> QED
        BY <1>0, <2>1, <4>1, <4>2
    <3> QED
      BY <1>0, <2>0, <2>1, <3>1 DEF UnitMoves
  <2>2. CASE e \notin strays
    <3>1. FetchFails(w) /\ w[3] = Static /\ e = <<w[1], w[2]>>
      BY <1>4, <2>2 DEF UnitStep, ThreadStep, Fetched, FetchFails, SendReturns,
                        SendRaises, SendCall, LeaveStrays
    <3>2. region'[e] = "failed"
      BY <1>0, <2>0, <3>1 DEF FetchFails, Finish, TypeOK
    <3>3. outcome[w[1]] \in {"running", "failed"}
      BY <2>0 DEF UnitMoves, IInv, LiveMeansOpen
    <3> QED
      BY <2>0, <3>1, <3>2, <3>3
  <2> QED
    BY <2>1, <2>2
<1>5. CASE UNCHANGED vars \/ \E f \in Regions : StraysEnd(f)
  <2>1. UNCHANGED <<region, outcome>> /\ e \in strays
    BY <1>5 DEF vars, StraysEnd
  <2> QED
    BY <1>0, <2>1
<1> QED
  BY <1>1, <1>2, <1>3, <1>4, <1>5 DEF Next

LEMMA StraysCorrect == Spec => []StraysHaveFailed
<1>1. Init => StraysHaveFailed
  BY DEF Init, StraysHaveFailed
<1> QED
  BY <1>1, StraysStep, InvCorrect, PTL DEF Spec

-----------------------------------------------------------------------------
(* Every variable keeps its type, and no send_message_batch is given more  *)
(* than SendLimit entries.                                                 *)
THEOREM TypeCorrect == Spec => []TypeOK
<1>1. IInv => TypeOK
  BY DEF IInv
<1> QED
  BY <1>1, InvCorrect, PTL

(* send_messages neither drops nor repeats an entry, whoever else runs and *)
(* whatever fails (remaining[:10] and remaining[10:] of src/clients.py).   *)
THEOREM MessagesCorrect == Spec => []EachMessageHandedOnce
<1>1. IInv => EachMessageHandedOnce
  BY DEF IInv
<1> QED
  BY <1>1, InvCorrect, PTL

(* Static jobs come after all batches of their region ended well           *)
(* (RegionRoleExecutor.scrape_and_emit awaits the gather of the batches).  *)
THEOREM StaticCorrect == Spec => []StaticAfterBatches
<1>1. IInv => StaticAfterBatches
  BY DEF IInv
<1> QED
  BY <1>1, InvCorrect, PTL

(* The coroutines of other invocations than the running one belong to      *)
(* invocations that failed: gather leaves none behind when it succeeds.    *)
THEOREM OrphansCorrect == Spec => []OrphansComeFromFailures
<1>1. IInv /\ StraysHaveFailed => OrphansComeFromFailures
  <2> SUFFICES ASSUME IInv, StraysHaveFailed PROVE OrphansComeFromFailures
    OBVIOUS
  <2>1. \A i \in Invocations : outcome[i] = "running" => i = running
    BY DEF IInv, RunningIsCurrent
  <2>2. ASSUME NEW e \in Regions, region[e] \in LiveRegion, e[1] # running
        PROVE  outcome[e[1]] = "failed"
    BY <2>1, <2>2 DEF IInv, LiveMeansOpen, Regions
  <2>3. ASSUME NEW w \in Work, unit[w] \in LiveUnit, w[1] # running
        PROVE  outcome[w[1]] = "failed"
    BY <2>1, <2>3 DEF IInv, LiveMeansOpen, Work
  <2>4. ASSUME NEW e \in strays, e[1] # running
        PROVE  outcome[e[1]] = "failed"
    <3>1. e[1] \in Invocations
      BY DEF IInv, TypeOK, Regions
    <3> QED
      BY <2>1, <2>4, <3>1 DEF StraysHaveFailed
  <2> QED
    BY <2>2, <2>3, <2>4 DEF OrphansComeFromFailures
<1> QED
  BY <1>1, InvCorrect, StraysCorrect, PTL

(* As long as no invocation of an environment has failed, its executions   *)
(* do not overlap: the README's rule breaks by failures only.              *)
THEOREM OverlapCorrect == Spec => []OverlapNeedsFailure
<1>1. TypeOK /\ OrphansComeFromFailures => OverlapNeedsFailure
  <2> SUFFICES ASSUME TypeOK, OrphansComeFromFailures, \A i \in Invocations : outcome[i] # "failed"
               PROVE  NoOverlappingExecution
    BY DEF OverlapNeedsFailure
  <2>1. \A e \in Regions : e[1] \in Invocations
    BY DEF Regions
  <2>2. \A w \in Work : w[1] \in Invocations
    BY DEF Work
  <2>3. \A e \in strays : e[1] \in Invocations
    BY <2>1 DEF TypeOK
  <2> QED
    BY <2>1, <2>2, <2>3 DEF OrphansComeFromFailures, NoOverlappingExecution
<1> QED
  BY <1>1, TypeCorrect, OrphansCorrect, PTL

(* When the handler returns normally, all that was discovered and all that *)
(* was configured statically has been scraped and handed to SQS.           *)
LEMMA DoneIsHanded ==
  ASSUME IInv, NEW i \in Invocations, NEW r \in RegionRoles,
         region[<<i, r>>] = "done", NEW u \in Units
  PROVE  handed[<<i, r, u>>] = generated[<<i, r, u>>]
<1>1. unit[<<i, r, u>>] \in {"done", "none"}
  <2>1. CASE u = Static
    BY <2>1 DEF IInv, DoneRegions
  <2>2. CASE u \in awaited[<<i, r>>]
    BY <2>2 DEF IInv, DoneRegions
  <2>3. CASE u \in Batches \ awaited[<<i, r>>]
    BY <2>3 DEF IInv, OnlyAwaitedBatches
  <2> QED
    BY <2>1, <2>2, <2>3 DEF Units
<1>2. <<i, r, u>> \in Work
  BY DEF Work
<1>3. /\ handed[<<i, r, u>>] \in Nat /\ generated[<<i, r, u>>] \in Nat
  BY <1>2 DEF IInv, TypeOK
<1>4. batch[<<i, r, u>>] = 0 /\ left[<<i, r, u>>] = 0
  BY <1>1, <1>2 DEF IInv, CountersFollowUnit
<1> QED
  BY <1>2, <1>3, <1>4 DEF IInv, EachMessageHandedOnce

THEOREM SuccessCorrect == Spec => []SuccessIsComplete
<1>1. IInv => SuccessIsComplete
  <2> SUFFICES ASSUME IInv, NEW i \in Invocations, NEW r \in RegionRoles,
                      outcome[i] = "ok"
               PROVE  /\ \A b \in awaited[<<i, r>>] : unit[<<i, r, b>>] = "done"
                      /\ r \in StaticRR => unit[<<i, r, Static>>] = "done"
                      /\ \A u \in Units : handed[<<i, r, u>>] = generated[<<i, r, u>>]
    BY DEF SuccessIsComplete
  <2>1. region[<<i, r>>] = "done"
    BY DEF IInv, RegionsFollowHandler, Regions
  <2> QED
    BY <2>1, DoneIsHanded DEF IInv, DoneRegions
<1> QED
  BY <1>1, InvCorrect, PTL

-----------------------------------------------------------------------------
(* The environment implements its contract: initial states map to initial  *)
(* states, every step to a step of the ledger or a stutter.                *)
LEMMA ContractInit == Init => Contract!Init
BY DEF Init, Owed, Contract!Init

LEMMA ContractHandler ==
  ASSUME IInv, NEW i \in Invocations, HandlerStep(i)
  PROVE  Contract!Next
<1>1. UNCHANGED <<Owed, handed>>
  BY DEF HandlerStep, Invoke, Reject, Return, Raise, sends, Owed
<1>2. CASE Invoke(i)
  <2>1. outcome[i] = "none" /\ \A j \in Invocations : outcome[j] # "running"
    BY <1>2 DEF Invoke, NextInvocation, IInv, RunningIsCurrent, Invocations
  <2>2. Contract!Begin(i)
    BY <1>1, <1>2, <2>1 DEF Invoke, Contract!Begin
  <2> QED
    BY <2>2 DEF Contract!Next
<1>3. CASE Reject(i) \/ Raise(i)
  <2>1. Contract!Fail(i)
    BY <1>1, <1>3 DEF Reject, Raise, NextInvocation, Contract!Fail
  <2> QED
    BY <2>1 DEF Contract!Next
<1>4. CASE Return(i)
  <2>1. ASSUME NEW w \in Work, w[1] = i PROVE Owed[w] = 0
    <3>1. PICK r \in RegionRoles, u \in Units : w = <<i, r, u>>
      BY <2>1 DEF Work
    <3>2. region[<<i, r>>] = "done"
      BY <1>4 DEF Return, AllRegionsDone
    <3>3. handed[w] = generated[w]
      BY <3>1, <3>2, DoneIsHanded
    <3>4. /\ handed[w] \in Nat /\ batch[w] \in Nat /\ left[w] \in Nat
          /\ generated[w] = handed[w] + batch[w] + left[w]
      BY ScrapeAssumption DEF IInv, TypeOK, EachMessageHandedOnce
    <3> QED
      BY <3>3, <3>4 DEF Owed
  <2>2. Contract!Succeed(i)
    BY <1>1, <1>4, <2>1 DEF Return, Contract!Succeed
  <2> QED
    BY <2>2 DEF Contract!Next
<1> QED
  BY <1>2, <1>3, <1>4 DEF HandlerStep

LEMMA ContractKill ==
  ASSUME IInv, Kill
  PROVE  Contract!Next \/ UNCHANGED Contract!vars
<1>1. UNCHANGED <<Owed, handed>>
  BY DEF Kill, sends, Owed
<1>2. outcome' = [i \in Invocations |-> IF i = running THEN "killed" ELSE outcome[i]]
  BY DEF Kill
<1>3. CASE running = 0
  <2>1. outcome' = outcome
    BY <1>2, <1>3 DEF IInv, TypeOK, Invocations
  <2> QED
    BY <1>1, <2>1 DEF Contract!vars
<1>4. CASE running # 0
  <2>1. running \in Invocations
    BY <1>4, ScrapeAssumption DEF IInv, TypeOK, Invocations
  <2>2. outcome[running] = "running"
    BY <2>1 DEF IInv, RunningIsCurrent
  <2>3. outcome' = [outcome EXCEPT ![running] = "killed"]
    BY <1>2, <2>1 DEF IInv, TypeOK
  <2>4. Contract!Kill(running)
    BY <1>1, <2>2, <2>3 DEF Contract!Kill
  <2> QED
    BY <2>1, <2>4 DEF Contract!Next
<1> QED
  BY <1>3, <1>4

LEMMA ContractUnit ==
  ASSUME IInv, NEW w \in Work, UnitStep(w) \/ ThreadStep(w)
  PROVE  Contract!Next \/ UNCHANGED Contract!vars
<1>1. /\ TypeOK
      /\ unit[w] \in LiveUnit /\ UNCHANGED outcome
      /\ outcome[w[1]] \in {"running", "failed"}
  BY StepMoves DEF UnitMoves, IInv, LiveMeansOpen
<1>2. Contract!Open(w)
  BY <1>1 DEF Contract!Open
<1>3. /\ Owed \in [Work -> Nat] /\ Owed[w] = batch[w] + left[w]
      /\ handed[w] \in Nat /\ batch[w] \in Nat /\ left[w] \in Nat
  BY <1>1, ScrapeAssumption DEF TypeOK, Owed
<1>4. ASSUME NEW n \in MessageCounts, Fetched(w, n)
      PROVE  Contract!Produce(w)
  <2>1. /\ UNCHANGED handed /\ n \in Nat
        /\ Owed[w] = 0 /\ handed[w] = 0
    BY <1>3, <1>4, ScrapeAssumption DEF Fetched, IInv, CountersFollowUnit
  <2>2. /\ \A v \in Work \ {w} : batch'[v] = batch[v] /\ left'[v] = left[v]
        /\ batch'[w] + left'[w] \in Nat
    <3>1. CASE n = 0
      BY <1>1, <1>3, <1>4, <3>1 DEF Fetched
    <3>2. CASE n # 0
      BY <1>1, <1>4, <2>1, <3>2, BatchSizeBounds DEF Fetched, SendNext, TypeOK
    <3> QED
      BY <3>1, <3>2
  <2>3. /\ Owed'[w] \in Nat
        /\ Owed' = [Owed EXCEPT ![w] = Owed'[w]]
    BY <1>3, <2>2 DEF Owed
  <2> QED
    BY <1>1, <1>2, <2>1, <2>3 DEF Contract!Produce
<1>5. CASE FetchFails(w) \/ SendRaises(w)
  BY <1>1, <1>5 DEF FetchFails, SendRaises, sends, Owed, Contract!vars
<1>6. CASE SendReturns(w)
  <2>1. Owed' = Owed /\ UNCHANGED handed
    <3>1. CASE left[w] > 0
      <4>1. batch[w] = 0
        BY <1>6 DEF SendReturns, IInv, CountersFollowUnit
      <4>2. batch'[w] + left'[w] = left[w]
        BY <1>1, <1>3, <1>6, <3>1, BatchSizeBounds DEF SendReturns, SendNext, TypeOK
      <4>3. \A v \in Work \ {w} : batch'[v] = batch[v] /\ left'[v] = left[v]
        BY <1>1, <1>6, <3>1 DEF SendReturns, SendNext, TypeOK
      <4> QED
        BY <1>3, <1>6, <4>1, <4>2, <4>3 DEF SendReturns, Owed
    <3>2. CASE ~(left[w] > 0)
      BY <1>6, <3>2 DEF SendReturns, Owed
    <3> QED
      BY <3>1, <3>2
  <2> QED
    BY <1>1, <2>1 DEF Contract!vars
<1>7. CASE ThreadStep(w)
  <2>1. /\ handed' = [handed EXCEPT ![w] = handed[w] + batch[w]]
        /\ batch' = [batch EXCEPT ![w] = 0] /\ UNCHANGED left
    BY <1>7 DEF ThreadStep, SendCall
  <2>2. /\ \A v \in Work \ {w} : batch'[v] = batch[v] /\ left'[v] = left[v]
        /\ batch'[w] = 0 /\ left'[w] = left[w]
    BY <1>1, <2>1 DEF TypeOK
  <2>3. Owed' = [Owed EXCEPT ![w] = Owed[w] - batch[w]]
    <3>1. Owed' = [v \in Work |-> Owed'[v]]
      BY DEF Owed
    <3>2. \A v \in Work : Owed'[v] = IF v = w THEN Owed[w] - batch[w] ELSE Owed[v]
      BY <1>3, <2>2 DEF Owed
    <3> QED
      BY <1>3, <3>1, <3>2
  <2>4. batch[w] \in 0..Owed[w]
    BY <1>3
  <2> QED
    BY <1>1, <1>2, <2>1, <2>3, <2>4 DEF Contract!Hand, Contract!Next
<1> QED
  BY <1>4, <1>5, <1>6, <1>7 DEF UnitStep, Contract!Next

LEMMA ContractStep == IInv /\ [Next]_vars => [Contract!Next]_Contract!vars
<1> SUFFICES ASSUME IInv, [Next]_vars
             PROVE  Contract!Next \/ UNCHANGED Contract!vars
  OBVIOUS
<1>1. ASSUME NEW i \in Invocations, HandlerStep(i) PROVE Contract!Next
  BY <1>1, ContractHandler
<1>2. CASE Kill
  BY <1>2, ContractKill
<1>3. ASSUME NEW e \in Regions, RegionStep(e) PROVE UNCHANGED Contract!vars
  BY <1>3 DEF RegionStep, SetupDone, Discovered, BatchesGathered, RegionFails,
              sends, Owed, Contract!vars
<1>4. ASSUME NEW w \in Work, UnitStep(w) \/ ThreadStep(w)
      PROVE  Contract!Next \/ UNCHANGED Contract!vars
  BY <1>4, ContractUnit
<1>5. CASE UNCHANGED vars \/ \E e \in Regions : StraysEnd(e)
  BY <1>5 DEF vars, StraysEnd, sends, Owed, Contract!vars
<1> QED
  BY <1>1, <1>2, <1>3, <1>4, <1>5 DEF Next

(* Success is reported only for what was handed over, nothing is handed    *)
(* over twice, and nothing more is after a success or a kill, for every    *)
(* number of regions, batches, messages and invocations.                   *)
THEOREM ContractCorrect == Spec => ImplementsContract
BY InvCorrect, ContractInit, ContractStep, PTL
   DEF Spec, ImplementsContract, Contract!Spec

-----------------------------------------------------------------------------
(* A running invocation can always go on by itself.                        *)
LEMMA ProgressInit == Init => RunningRegions /\ AwaitedUnits
BY DEF Init, RunningRegions, AwaitedUnits, Regions

LEMMA ProgressStep ==
  IInv /\ RunningRegions /\ AwaitedUnits /\ [Next]_vars
    => RunningRegions' /\ AwaitedUnits'
<1> SUFFICES ASSUME IInv, RunningRegions, AwaitedUnits, [Next]_vars,
                    NEW i \in Invocations, NEW r \in RegionRoles
             PROVE  /\ outcome'[i] = "running" =>
                         region'[<<i, r>>] \in LiveRegion \cup {"done", "failed"}
                    /\ region'[<<i, r>>] = "batches" =>
                         \A b \in awaited'[<<i, r>>] :
                           unit'[<<i, r, b>>] \in LiveUnit \cup {"done", "failed"}
  BY DEF RunningRegions, AwaitedUnits
<1> DEFINE e == <<i, r>>
<1>1. /\ TypeOK /\ e \in Regions /\ e[1] = i /\ e[2] = r /\ awaited[e] \subseteq Batches
      /\ \A b \in Batches : <<i, r, b>> \in Work
      /\ outcome[i] = "running" => region[e] \in LiveRegion \cup {"done", "failed"}
      /\ region[e] = "batches" =>
           \A b \in awaited[e] : unit[<<i, r, b>>] \in LiveUnit \cup {"done", "failed"}
  BY DEF IInv, TypeOK, Regions, Work, Units, RunningRegions, AwaitedUnits
<1>2. ASSUME NEW j \in Invocations, HandlerStep(j)
      PROVE  /\ UNCHANGED <<awaited, unit>>
             /\ \/ /\ region'[e] = region[e]
                   /\ outcome'[i] = "running" => outcome[i] = "running"
                \/ region'[e] = "setup"
  BY <1>1, <1>2 DEF HandlerStep, Invoke, Reject, Return, Raise, TypeOK
<1>3. CASE Kill
  <2>1. outcome'[i] # "running"
    BY <1>3 DEF Kill, IInv, RunningIsCurrent
  <2>2. region'[e] \notin LiveRegion
    BY <1>1, <1>3 DEF Kill, LiveRegion
  <2> QED
    BY <2>1, <2>2 DEF LiveRegion
<1>4. ASSUME NEW f \in Regions, RegionStep(f)
      PROVE  /\ UNCHANGED outcome
             /\ f # e => region'[e] = region[e] /\ awaited'[e] = awaited[e]
             /\ region'[f] \in {"discovering", "batches", "static", "done", "failed"}
             /\ \A w \in Work : unit'[w] = unit[w] \/ unit'[w] = "fetching"
             /\ region'[f] = "batches" =>
                  \A b \in awaited'[f] : unit'[<<f[1], f[2], b>>] = "fetching"
  <2>1. /\ <<f[1], f[2], Static>> \in Work
        /\ \A b \in Batches : <<f[1], f[2], b>> \in Work
    BY DEF Regions, Work, Units
  <2>2. CASE SetupDone(f) \/ BatchesGathered(f) \/ RegionFails(f)
    BY <1>1, <2>1, <2>2 DEF SetupDone, BatchesGathered, RegionFails, StaticOrDone, TypeOK
  <2>3. ASSUME NEW D \in SUBSET Batches, Discovered(f, D)
        PROVE  /\ UNCHANGED outcome
               /\ f # e => region'[e] = region[e] /\ awaited'[e] = awaited[e]
               /\ region'[f] \in {"batches", "static", "done"}
               /\ \A w \in Work : unit'[w] = unit[w] \/ unit'[w] = "fetching"
               /\ region'[f] = "batches" =>
                    \A b \in awaited'[f] : unit'[<<f[1], f[2], b>>] = "fetching"
    <3>1. awaited' = [awaited EXCEPT ![f] = D] /\ UNCHANGED outcome
      BY <2>3 DEF Discovered
    <3>2. CASE D = {}
      BY <1>1, <2>1, <2>3, <3>1, <3>2 DEF Discovered, StaticOrDone, TypeOK
    <3>3. CASE D # {}
      <4>1. /\ region' = [region EXCEPT ![f] = "batches"]
            /\ unit' = [w \in Work |-> IF w[1] = f[1] /\ w[2] = f[2] /\ w[3] \in D
                                      THEN "fetching" ELSE unit[w]]
        BY <2>3, <3>3 DEF Discovered
      <4>2. awaited'[f] = D /\ region'[f] = "batches"
        BY <1>1, <3>1, <4>1 DEF TypeOK
      <4>3. \A b \in D : unit'[<<f[1], f[2], b>>] = "fetching"
        BY <2>1, <4>1
      <4> QED
        BY <1>1, <3>1, <4>1, <4>2, <4>3 DEF TypeOK
    <3> QED
      BY <3>2, <3>3
  <2> QED
    BY <1>4, <2>2, <2>3 DEF RegionStep
<1>5. ASSUME NEW w \in Work, UnitMoves(w)
      PROVE  /\ UNCHANGED <<outcome, awaited>>
             /\ region'[e] = region[e] \/ region'[e] \in {"done", "failed"}
             /\ \A v \in Work : unit'[v] = unit[v] \/ unit'[v] \in LiveUnit \cup {"done", "failed"}
  BY <1>1, <1>5 DEF UnitMoves
<1>6. CASE \E j \in Invocations : HandlerStep(j)
  BY <1>1, <1>2, <1>6 DEF LiveRegion
<1>7. CASE \E f \in Regions : RegionStep(f)
  <2>1. PICK f \in Regions : RegionStep(f)
    BY <1>7
  <2>2. CASE f = e
    BY <1>1, <1>4, <2>1, <2>2 DEF LiveRegion, LiveUnit
  <2>3. CASE f # e
    BY <1>1, <1>4, <2>1, <2>3 DEF LiveUnit
  <2> QED
    BY <2>2, <2>3
<1>8. CASE \E w \in Work : UnitStep(w) \/ ThreadStep(w)
  <2>1. PICK w \in Work : UnitMoves(w)
    BY <1>8, StepMoves
  <2> QED
    BY <1>1, <1>5, <2>1
<1>9. CASE UNCHANGED vars \/ \E f \in Regions : StraysEnd(f)
  <2>1. UNCHANGED <<outcome, region, awaited, unit>>
    BY <1>9 DEF vars, StraysEnd
  <2> QED
    BY <1>1, <2>1
<1> QED
  BY <1>3, <1>6, <1>7, <1>8, <1>9 DEF Next

(* What the invariant lacks for progress: the running invocation's regions *)
(* have not been forgotten, and a region that gathers has units to wait for. *)
THEOREM ProgressInv == Spec => [](IInv /\ RunningRegions /\ AwaitedUnits)
<1>1. Init => IInv /\ RunningRegions /\ AwaitedUnits
  BY InvInit, ProgressInit
<1>2. (IInv /\ RunningRegions /\ AwaitedUnits) /\ [Next]_vars
        => (IInv /\ RunningRegions /\ AwaitedUnits)'
  BY InvStep, ProgressStep
<1> QED
  BY <1>1, <1>2, PTL DEF Spec

(* run_until_complete never waits in vain: whatever fails, and whatever    *)
(* earlier invocations left in the loop, the running invocation has a      *)
(* coroutine of its own that can go on, or its result.                     *)
THEOREM RunningCanGo == Spec => []NeverStuck
<1>1. IInv /\ RunningRegions /\ AwaitedUnits => NeverStuck
  <2> SUFFICES ASSUME IInv, RunningRegions, AwaitedUnits,
                      NEW i \in Invocations, running = i, ~HandlerCanGo(i)
               PROVE  \E r \in RegionRoles :
                        RegionCanGo(<<i, r>>) \/ \E u \in Units : UnitCanGo(<<i, r, u>>)
    BY DEF NeverStuck
  <2>1. outcome[i] = "running"
    BY DEF IInv, RunningIsCurrent
  <2>2. PICK r \in RegionRoles : region[<<i, r>>] \notin {"done", "failed"}
    BY DEF HandlerCanGo, AllRegionsDone
  <2>3. region[<<i, r>>] \in LiveRegion
    BY <2>1, <2>2 DEF RunningRegions
  <2>4. CASE region[<<i, r>>] \in {"setup", "discovering"}
    BY <2>4 DEF RegionCanGo
  <2>5. CASE region[<<i, r>>] = "batches"
    <3>1. CASE \A b \in awaited[<<i, r>>] : unit[<<i, r, b>>] = "done"
      BY <2>5, <3>1 DEF RegionCanGo, BatchesDone
    <3>2. CASE \E b \in awaited[<<i, r>>] : unit[<<i, r, b>>] # "done"
      <4>1. PICK b \in awaited[<<i, r>>] : unit[<<i, r, b>>] # "done"
        BY <3>2
      <4>2. b \in Units
        BY DEF IInv, TypeOK, Regions, Units
      <4>3. unit[<<i, r, b>>] \in LiveUnit \cup {"failed"}
        BY <2>5, <4>1 DEF AwaitedUnits
      <4> QED
        BY <2>5, <4>2, <4>3 DEF RegionCanGo, UnitCanGo
    <3> QED
      BY <3>1, <3>2
  <2>6. CASE region[<<i, r>>] = "static"
    <3>1. unit[<<i, r, Static>>] \in LiveUnit /\ Static \in Units
      BY <2>6 DEF IInv, StaticFollowsRegion, Units
    <3> QED
      BY <3>1 DEF UnitCanGo
  <2> QED
    BY <2>3, <2>4, <2>5, <2>6 DEF LiveRegion
<1> QED
  BY <1>1, ProgressInv, PTL
=============================================================================
