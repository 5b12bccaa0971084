--------------------------- MODULE ScheduleProofs ---------------------------
(***************************************************************************)
(* Proofs about Schedule, for all configs, rates, jitters and timeouts:    *)
(* the batches are exact, each task's own window is read, and the windows  *)
(* of successive invocations neither lose a period nor read one twice.     *)
(***************************************************************************)
EXTENDS Schedule, TLAPS

(* The arithmetic of Window, for all times, periods, lengths and delays.   *)

LEMMA ProductMonotone ==
  ASSUME NEW p \in Nat, NEW x \in Nat, NEW y \in Nat, x <= y
  PROVE  x * p <= y * p
<1>1. PICK d \in Nat : y = x + d
  <2>1. y - x \in Nat /\ y = x + (y - x)
    OBVIOUS
  <2> QED
    BY <2>1
<1>2. y * p = x * p + d * p /\ d * p >= 0
  BY <1>1
<1>3. x * p \in Nat /\ d * p \in Nat
  OBVIOUS
<1> QED
  BY <1>2, <1>3

(* Two different multiples of a period are a period or more apart.         *)
LEMMA MultiplesApart ==
  ASSUME NEW p \in Nat, NEW x \in Nat, NEW y \in Nat, x * p < y * p
  PROVE  x * p + p <= y * p
<1>1. x * p \in Nat /\ y * p \in Nat
  OBVIOUS
<1>2. ~ (y <= x)
  <2>1. SUFFICES ASSUME y <= x PROVE FALSE
    OBVIOUS
  <2>2. y * p <= x * p
    BY <2>1, ProductMonotone
  <2> QED
    BY <1>1, <2>2
<1>3. x + 1 <= y /\ x + 1 \in Nat
  BY <1>2
<1>4. (x + 1) * p <= y * p
  BY <1>3, ProductMonotone
<1>5. (x + 1) * p = x * p + p
  OBVIOUS
<1> QED
  BY <1>4, <1>5

(* The beginning of the current period is at most t, and less than a       *)
(* period before.                                                          *)
LEMMA FloorBounds ==
  ASSUME NEW t \in Nat, NEW period \in Nat
  PROVE  /\ Floor(t, period) \in Nat
         /\ Floor(t, period) <= t
         /\ period = 0 => Floor(t, period) = t
         /\ period > 0 => t < Floor(t, period) + period
<1>1. CASE period = 0
  BY <1>1 DEF Floor
<1>2. CASE period > 0
  <2> DEFINE q == t \div period
             r == t % period
  <2>1. q \in Nat /\ r \in 0..(period - 1) /\ t = period * q + r
    BY <1>2, SMTT(30)
  <2>2. Floor(t, period) = q * period
    BY <1>2 DEF Floor
  <2> HIDE DEF q, r
  <2>3. q * period = period * q /\ q * period \in Nat
    BY <2>1
  <2> QED
    BY <1>2, <2>1, <2>2, <2>3
<1> QED
  BY <1>1, <1>2

(* And it is a multiple of the period.                                     *)
LEMMA FloorMultiple ==
  ASSUME NEW t \in Nat, NEW period \in Nat, period # 0
  PROVE  \E q \in Nat : Floor(t, period) = q * period
<1> DEFINE q == t \div period
<1>1. q \in Nat
  OBVIOUS
<1>2. Floor(t, period) = q * period
  BY DEF Floor
<1> HIDE DEF q
<1> QED
  BY <1>1, <1>2

LEMMA WholePeriods ==
  ASSUME NEW period \in Nat \ {0}, NEW length \in Nat, Divides(period, length)
  PROVE  \E m \in Nat : length = m * period
<1> DEFINE m == length \div period
<1>1. m \in Nat /\ length = period * m + (length % period)
  OBVIOUS
<1>2. length % period = 0
  BY DEF Divides
<1>3. m * period = period * m /\ period * m \in Nat
  BY <1>1
<1>4. length = m * period
  BY <1>1, <1>2, <1>3
<1> QED
  BY <1>1, <1>4

(* Windows of whole periods leave no gap when the second is asked for at   *)
(* most their length after the first, wherever in a period either is.      *)
THEOREM NoGap ==
  ASSUME NEW a \in Nat, NEW b \in Nat, NEW period \in Nat, NEW length \in Nat,
         Divides(period, length), b <= a + length
  PROVE  Floor(b, period) - length <= Floor(a, period)
<1>1. CASE period = 0
  BY <1>1, FloorBounds
<1>2. CASE period # 0
  <2>0. PICK x \in Nat : Floor(a, period) = x * period
    BY <1>2, FloorMultiple
  <2>1. PICK y \in Nat : Floor(b, period) = y * period
    BY <1>2, FloorMultiple
  <2>2. PICK m \in Nat : length = m * period
    BY <1>2, WholePeriods
  <2>3. (x + m) * period = x * period + m * period /\ x + m \in Nat
    OBVIOUS
  <2>4. a < x * period + period /\ y * period <= b
    BY <1>2, <2>0, <2>1, FloorBounds
  <2>5. /\ x * period \in Nat /\ y * period \in Nat
        /\ m * period \in Nat /\ (x + m) * period \in Nat
    BY <2>3
  <2>6. ~ ((x + m) * period < y * period)
    <3>1. SUFFICES ASSUME (x + m) * period < y * period PROVE FALSE
      OBVIOUS
    <3>2. (x + m) * period + period <= y * period
      BY <2>3, <3>1, MultiplesApart
    <3> QED
      BY <2>2, <2>3, <2>4, <2>5, <3>2
  <2> QED
    BY <2>0, <2>1, <2>2, <2>3, <2>5, <2>6
<1> QED
  BY <1>1, <1>2

(* Windows of whole periods do not overlap when the second is asked for    *)
(* their length or more after the first.                                   *)
THEOREM NoOverlap ==
  ASSUME NEW a \in Nat, NEW b \in Nat, NEW period \in Nat, NEW length \in Nat,
         Divides(period, length), a + length <= b
  PROVE  Floor(a, period) <= Floor(b, period) - length
<1>1. CASE period = 0
  BY <1>1, FloorBounds
<1>2. CASE period # 0
  <2>0. PICK x \in Nat : Floor(a, period) = x * period
    BY <1>2, FloorMultiple
  <2>1. PICK y \in Nat : Floor(b, period) = y * period
    BY <1>2, FloorMultiple
  <2>2. PICK m \in Nat : length = m * period
    BY <1>2, WholePeriods
  <2>3. (x + m) * period = x * period + m * period /\ x + m \in Nat
    OBVIOUS
  <2>4. b < y * period + period /\ x * period <= a
    BY <1>2, <2>0, <2>1, FloorBounds
  <2>5. /\ x * period \in Nat /\ y * period \in Nat
        /\ m * period \in Nat /\ (x + m) * period \in Nat
    BY <2>3
  <2>6. ~ (y * period < (x + m) * period)
    <3>1. SUFFICES ASSUME y * period < (x + m) * period PROVE FALSE
      OBVIOUS
    <3>2. y * period + period <= (x + m) * period
      BY <2>3, <3>1, MultiplesApart
    <3> QED
      BY <2>2, <2>3, <2>4, <2>5, <3>2
  <2> QED
    BY <2>0, <2>1, <2>2, <2>3, <2>5, <2>6
<1> QED
  BY <1>1, <1>2

(* What is a multiple of the period and not after t is not after the       *)
(* beginning of its period.                                                *)
LEMMA FloorLargest ==
  ASSUME NEW t \in Nat, NEW period \in Nat \ {0}, NEW q \in Nat, q * period <= t
  PROVE  q * period <= Floor(t, period)
<1>1. PICK y \in Nat : Floor(t, period) = y * period
  BY FloorMultiple
<1>2. t < y * period + period
  BY <1>1, FloorBounds
<1>3. q * period \in Nat /\ y * period \in Nat
  OBVIOUS
<1>4. ~ (y * period < q * period)
  <2>1. SUFFICES ASSUME y * period < q * period PROVE FALSE
    OBVIOUS
  <2>2. y * period + period <= q * period
    BY <2>1, MultiplesApart
  <2> QED
    BY <1>2, <1>3, <2>2
<1> QED
  BY <1>1, <1>3, <1>4

(* NoGap asks for no more than it needs: windows of whole periods that are *)
(* asked for more than their length apart can leave a gap, namely when the *)
(* first one is asked for at the end of a period.                          *)
THEOREM NoGapIsSharp ==
  ASSUME NEW period \in Nat \ {0}, NEW length \in Nat, NEW d \in Nat,
         Divides(period, length), length < d
  PROVE  \E a \in Nat : Floor(a, period) < Floor(a + d, period) - length
<1> DEFINE a == period - 1
<1>1. a \in Nat /\ a < period /\ a + d \in Nat /\ length + period <= a + d
  OBVIOUS
<1> HIDE DEF a
<1>2. PICK m \in Nat : length = m * period
  BY WholePeriods
<1>3. (m + 1) * period = length + period /\ m + 1 \in Nat
  BY <1>2
<1>4. (m + 1) * period <= Floor(a + d, period)
  <2> DEFINE q == m + 1
  <2>1. q \in Nat /\ q * period <= a + d
    BY <1>1, <1>3
  <2> HIDE DEF q
  <2>2. q * period <= Floor(a + d, period)
    BY <1>1, <2>1, FloorLargest
  <2> QED
    BY <2>2 DEF q
<1>5. Floor(a, period) <= a /\ Floor(a, period) \in Nat /\ Floor(a + d, period) \in Nat
  BY <1>1, FloorBounds
<1> QED
  BY <1>1, <1>3, <1>4, <1>5

(* And so does NoOverlap: less than their length apart, they can overlap,  *)
(* namely when the first one is asked for at the beginning of a period.    *)
THEOREM NoOverlapIsSharp ==
  ASSUME NEW period \in Nat, NEW length \in Nat, NEW d \in Nat, d < length
  PROVE  \E a \in Nat : Floor(a + d, period) - length < Floor(a, period)
<1>1. /\ Floor(0, period) \in Nat
      /\ Floor(0 + d, period) \in Nat /\ Floor(0 + d, period) <= 0 + d
  BY FloorBounds
<1> QED
  BY <1>1

-----------------------------------------------------------------------------
Active == {"discovering", "merging", "reading"}

(* What time it is: an invocation that goes on began when the schedule     *)
(* last fired, and is not beyond its timeout.                              *)
Timed ==
  /\ clock <= (IF phase \in Active THEN began + Timeout ELSE due + Jitter)
  /\ phase \in Active => /\ began <= clock
                         /\ due <= began + Rate
                         /\ began + Rate <= due + Jitter

(* When a window was asked for, in an invocation fired at time f.          *)
AskedIn(w, f) == w # Unread => f <= w.at /\ w.at <= f + Jitter + Timeout

Asked ==
  /\ phase = "cold" => tasks = {}
  /\ \A t \in tasks : AskedIn(now[t], due - Rate) /\ AskedIn(prev[t], due - Rate - Rate)

(* The batches while the shards are merged.                                *)
LongestOf(batch) ==
  batch.tasks # {} =>
    \E t \in batch.tasks : /\ batch.length = t.length
                           /\ \A u \in batch.tasks : u.length <= t.length

Batched ==
  /\ phase = "discovering" => batches = NoBatches(tasks)
  /\ phase \in {"merging", "reading"} =>
       \A k \in DOMAIN batches :
         /\ batches[k].tasks = {t \in found \ unmerged : Key(t) = k}
         /\ LongestOf(batches[k])
  /\ phase = "reading" => unmerged = {}

(* A task's window has the length of one of its companions.                *)
Fits(t, w) ==
  w # Unread =>
    \E u \in Companions(t) : /\ t.length <= u.length
                             /\ w.start = Start(w.at, t.period, u.length, t.delay)
                             /\ w.end = End(w.at, t.period, t.delay)

Fitting == \A t \in tasks : Fits(t, now[t]) /\ Fits(t, prev[t])

IInv == STypeOK /\ Timed /\ Asked /\ Batched /\ Fitting

-----------------------------------------------------------------------------
TaskTyped(t) == /\ t.static \in BOOLEAN
                /\ t.period \in Nat /\ t.length \in Nat /\ t.delay \in Nat

(* Every task of a plan has its types.                                     *)
LEMMA PlanTyped ==
  ASSUME NEW config \in Configs, NEW rr
  PROVE  \A t \in Plan(config, rr) : TaskTyped(t)
<1> SUFFICES ASSUME NEW t \in Plan(config, rr) PROVE TaskTyped(t)
  OBVIOUS
<1>1. PICK j \in DOMAIN config : 
        t \in {Task(config[j], j, copy, k) :
                 copy \in 1..Times(config[j], rr), k \in DOMAIN config[j].metrics}
  BY DEF Plan
<1>2. PICK copy \in 1..Times(config[j], rr), k \in DOMAIN config[j].metrics :
        t = Task(config[j], j, copy, k)
  BY <1>1
<1> DEFINE m == config[j].metrics[k]
<1>3. /\ config[j].static \in BOOLEAN
      /\ Field(m, "period") \in Nat /\ Field(m, "length") \in Nat
      /\ Field(m, "delay") \in Nat
  BY ConfigsAssumption
<1>4. /\ t.static = config[j].static /\ t.period = Field(m, "period")
      /\ t.length = Field(m, "length") /\ t.delay = Field(m, "delay")
  BY <1>2 DEF Task
<1> HIDE DEF m
<1> QED
  BY <1>3, <1>4 DEF TaskTyped

(* The empty batches and windows have their types.                         *)
LEMMA EmptyTyped ==
  ASSUME NEW T
  PROVE  /\ NoBatches(T) \in [{Key(t) : t \in T} -> [length : Nat, tasks : SUBSET T]]
         /\ NoWindows(T) \in [T -> Windows]
         /\ \A t \in T : NoWindows(T)[t] = Unread
  BY DEF NoBatches, NoWindows, Windows

(* The window that is asked for now is a window.                           *)
LEMMA AskTyped ==
  ASSUME NEW t, TaskTyped(t), clock \in Nat, NEW length \in Nat
  PROVE  /\ Ask(t, length) \in [at : Nat, start : Int, end : Int]
         /\ Ask(t, length) # Unread
         /\ Ask(t, length).at = clock
         /\ Ask(t, length).start = Start(clock, t.period, length, t.delay)
         /\ Ask(t, length).end = End(clock, t.period, t.delay)
<1>1. Floor(clock, t.period) \in Nat
  BY FloorBounds DEF TaskTyped
<1>2. /\ Start(clock, t.period, length, t.delay) \in Int
      /\ End(clock, t.period, t.delay) \in Int
  BY <1>1 DEF Start, End, TaskTyped
<1> QED
  BY <1>2, UnreadAssumption DEF Ask

LEMMA InitIInv == Init => IInv
<1> SUFFICES ASSUME Init PROVE IInv
  OBVIOUS
<1> USE ScheduleAssumption DEF Init
<1>1. STypeOK
  <2>1. clock \in Nat /\ due \in Nat /\ began \in Nat
    OBVIOUS
  <2>2. /\ batches \in [{Key(t) : t \in {}} -> [length : Nat, tasks : SUBSET {}]]
        /\ now \in [{} -> Windows] /\ prev \in [{} -> Windows]
    BY EmptyTyped
  <2> QED
    BY <2>1, <2>2 DEF STypeOK
<1>2. Timed
  BY DEF Timed, Active
<1>3. Asked /\ Batched /\ Fitting
  BY DEF Asked, Batched, Fitting
<1> QED
  BY <1>1, <1>2, <1>3 DEF IInv

(* The schedule fires in time: the invocation begins.                      *)
LEMMA FiresTimed ==
  ASSUME STypeOK, Timed, phase \notin Active, Fires,
         phase' = "discovering" \/ phase' = phase
  PROVE  Timed' /\ due' \in Nat /\ began' \in Nat /\ clock' \in Nat
  BY ScheduleAssumption DEF STypeOK, Timed, Fires, Active

LEMMA TickStep == ASSUME IInv, Tick PROVE IInv'
<1>1. STypeOK' /\ Timed'
  BY ScheduleAssumption DEF IInv, Tick, STypeOK, Timed, Active
<1>2. Asked'
  BY DEF IInv, Tick, Asked, AskedIn
<1>3. Batched'
  BY DEF IInv, Tick, Batched, LongestOf, NoBatches, Key
<1>4. Fitting'
  BY DEF IInv, Tick, Fitting, Fits, Companions, Key, Start, End, Floor
<1> QED
  BY <1>1, <1>2, <1>3, <1>4 DEF IInv

LEMMA ColdStep == ASSUME IInv, ColdStart PROVE IInv'
<1>0. PICK config \in Configs :
        \/ /\ ~ Parses(config)
           /\ UNCHANGED <<phase, tasks, unmerged, batches, found, now, prev>>
        \/ /\ Parses(config)
           /\ \E rr \in RegionRoles(config) : tasks' = Plan(config, rr)
           /\ phase' = "discovering"
           /\ unmerged' = {}
           /\ found' = {}
           /\ batches' = NoBatches(tasks')
           /\ now' = NoWindows(tasks')
           /\ prev' = NoWindows(tasks')
  BY DEF ColdStart
<1>1. phase \notin Active /\ Fires /\ phase = "cold"
  BY DEF ColdStart, Active
<1>2. Timed' /\ due' \in Nat /\ began' \in Nat /\ clock' \in Nat
  BY <1>0, <1>1, FiresTimed DEF IInv
<1>3. CASE UNCHANGED <<phase, tasks, unmerged, batches, found, now, prev>>
  <2>1. STypeOK'
    BY <1>2, <1>3 DEF IInv, STypeOK
  <2>2. tasks' = {} /\ phase' = "cold"
    BY <1>1, <1>3 DEF IInv, Asked
  <2>3. Asked' /\ Fitting'
    BY <2>2 DEF Asked, Fitting
  <2>4. Batched'
    BY <2>2 DEF Batched
  <2> QED
    BY <1>2, <2>1, <2>3, <2>4 DEF IInv
<1>4. CASE /\ \E rr \in RegionRoles(config) : tasks' = Plan(config, rr)
           /\ phase' = "discovering"
           /\ unmerged' = {}
           /\ found' = {}
           /\ batches' = NoBatches(tasks')
           /\ now' = NoWindows(tasks')
           /\ prev' = NoWindows(tasks')
  <2>1. \A t \in tasks' : TaskTyped(t)
    BY <1>4, PlanTyped
  <2>2. /\ batches' \in [{Key(t) : t \in tasks'} -> [length : Nat, tasks : SUBSET tasks']]
        /\ now' \in [tasks' -> Windows] /\ prev' \in [tasks' -> Windows]
        /\ \A t \in tasks' : now'[t] = Unread /\ prev'[t] = Unread
    BY <1>4, EmptyTyped
  <2>3. STypeOK'
    BY <1>2, <1>4, <2>1, <2>2 DEF STypeOK, TaskTyped, Key
  <2>4. Asked'
    BY <1>4, <2>2 DEF Asked, AskedIn
  <2>5. Batched'
    BY <1>4 DEF Batched, NoBatches, Key
  <2>6. Fitting'
    BY <2>2 DEF Fitting, Fits
  <2> QED
    BY <1>2, <2>3, <2>4, <2>5, <2>6 DEF IInv
<1> QED
  BY <1>0, <1>3, <1>4

(* The windows of this invocation become those of the one before.          *)
LEMMA WarmStep == ASSUME IInv, WarmStart PROVE IInv'
<1>1. phase \notin Active /\ Fires /\ tasks' = tasks /\ phase' = "discovering"
  BY DEF WarmStart, Active
<1>2. Timed' /\ due' \in Nat /\ began' \in Nat /\ clock' \in Nat
  BY <1>1, FiresTimed DEF IInv
<1>3. /\ batches' \in [{Key(t) : t \in tasks} -> [length : Nat, tasks : SUBSET tasks]]
      /\ now' \in [tasks -> Windows]
      /\ \A t \in tasks : now'[t] = Unread /\ prev'[t] = now[t]
  BY EmptyTyped DEF WarmStart
<1>4. STypeOK'
  BY <1>1, <1>2, <1>3 DEF IInv, STypeOK, WarmStart, Key
<1>5. Asked'
  <2>1. due' - Rate - Rate = due - Rate
    BY ScheduleAssumption DEF IInv, STypeOK, WarmStart, Fires
  <2> QED
    BY <1>1, <1>3, <2>1 DEF IInv, Asked, AskedIn
<1>6. Batched'
  BY <1>1 DEF WarmStart, Batched, NoBatches, Key
<1>7. Fitting'
  BY <1>1, <1>3 DEF IInv, Fitting, Fits, Companions, Key, Start, End, Floor
<1> QED
  BY <1>2, <1>4, <1>5, <1>6, <1>7 DEF IInv

(* Steps of an invocation that goes on without asking for a window.        *)
LEMMA WindowsKept ==
  ASSUME IInv, UNCHANGED <<clock, due, began, tasks, now, prev>>,
         phase \in Active, phase' \in Active
  PROVE  Timed' /\ Asked' /\ Fitting'
<1>1. Timed'
  BY DEF IInv, Timed, Active
<1>2. Asked'
  BY DEF IInv, Asked, AskedIn, Active
<1>3. Fitting'
  BY DEF IInv, Fitting, Fits, Companions, Key, Start, End, Floor
<1> QED
  BY <1>1, <1>2, <1>3

LEMMA DiscoveredStep == ASSUME IInv, Discovered PROVE IInv'
<1>1. Timed' /\ Asked' /\ Fitting'
  BY WindowsKept DEF Discovered, Active
<1>2. STypeOK'
  BY DEF IInv, STypeOK, Discovered, Key
<1>3. Batched'
  <2>1. batches' = NoBatches(tasks) /\ found' = unmerged' /\ phase' = "merging"
    BY DEF IInv, Batched, Discovered
  <2>2. \A k \in DOMAIN batches' : batches'[k].tasks = {}
    BY <2>1 DEF NoBatches
  <2> QED
    BY <2>1, <2>2 DEF Batched, LongestOf
<1> QED
  BY <1>1, <1>2, <1>3 DEF IInv

(* Merging a shard keeps the batch exact and its length the longest.       *)
LEMMA MergedLongest ==
  ASSUME NEW batch \in [length : Nat, tasks : SUBSET tasks], LongestOf(batch),
         NEW t \in tasks, NEW shard \in SUBSET tasks, t \in shard,
         STypeOK, \A u \in shard : u.length = t.length
  PROVE  /\ Merged(batch, shard, t.length) \in [length : Nat, tasks : SUBSET tasks]
         /\ Merged(batch, shard, t.length).tasks = batch.tasks \cup shard
         /\ LongestOf(Merged(batch, shard, t.length))
<1> DEFINE new == Merged(batch, shard, t.length)
<1>1. /\ new.tasks = batch.tasks \cup shard
      /\ new.length = IF batch.tasks = {} \/ batch.length < t.length
                      THEN t.length ELSE batch.length
      /\ new \in [length : Nat, tasks : SUBSET tasks]
  BY DEF Merged, STypeOK
<1>2. \A u \in tasks : u.length \in Nat
  BY DEF STypeOK
<1> SUFFICES LongestOf(new)
  BY <1>1
<1> HIDE DEF new
<1>3. CASE batch.tasks = {} \/ batch.length < t.length
  <2>1. t \in new.tasks /\ new.length = t.length
    BY <1>1, <1>3
  <2>2. \A u \in new.tasks : u.length <= t.length
    BY <1>1, <1>2, <1>3 DEF LongestOf
  <2> QED
    BY <2>1, <2>2 DEF LongestOf
<1>4. CASE ~ (batch.tasks = {} \/ batch.length < t.length)
  <2>1. PICK v \in batch.tasks : /\ batch.length = v.length
                                 /\ \A u \in batch.tasks : u.length <= v.length
    BY <1>4 DEF LongestOf
  <2>2. v \in new.tasks /\ new.length = v.length
    BY <1>1, <1>4, <2>1
  <2>3. \A u \in new.tasks : u.length <= v.length
    BY <1>1, <1>2, <1>4, <2>1
  <2> QED
    BY <2>2, <2>3 DEF LongestOf
<1> QED
  BY <1>3, <1>4

LEMMA MergeStep == ASSUME IInv, NEW t \in unmerged, MergeShard(t) PROVE IInv'
<1>1. Timed' /\ Asked' /\ Fitting'
  BY WindowsKept DEF MergeShard, Active
<1>2. /\ t \in tasks /\ Shard(t) \in SUBSET tasks /\ t \in Shard(t)
      /\ Shard(t) \subseteq unmerged
      /\ \A u \in Shard(t) : u.length = t.length /\ Key(u) = Key(t)
  BY DEF IInv, STypeOK, Shard
<1>3. /\ Key(t) \in DOMAIN batches
      /\ batches[Key(t)] \in [length : Nat, tasks : SUBSET tasks]
      /\ DOMAIN batches = {Key(u) : u \in tasks}
  BY <1>2 DEF IInv, STypeOK
<1>4. LongestOf(batches[Key(t)])
  BY <1>3 DEF IInv, Batched, MergeShard
<1>5. /\ Merged(batches[Key(t)], Shard(t), t.length) \in [length : Nat, tasks : SUBSET tasks]
      /\ Merged(batches[Key(t)], Shard(t), t.length).tasks = batches[Key(t)].tasks \cup Shard(t)
      /\ LongestOf(Merged(batches[Key(t)], Shard(t), t.length))
  BY <1>2, <1>3, <1>4, MergedLongest DEF IInv
<1>6. STypeOK'
  BY <1>2, <1>3, <1>5 DEF IInv, STypeOK, MergeShard, Key
<1>7. Batched'
  <2>1. SUFFICES ASSUME NEW k \in DOMAIN batches
                 PROVE  /\ batches'[k].tasks = {u \in found \ unmerged' : Key(u) = k}
                        /\ LongestOf(batches'[k])
    BY <1>3 DEF MergeShard, Batched, Key, LongestOf
  <2>2. /\ batches[k].tasks = {u \in found \ unmerged : Key(u) = k}
        /\ LongestOf(batches[k])
        /\ unmerged' = unmerged \ Shard(t)
        /\ unmerged \subseteq found
    BY DEF IInv, Batched, MergeShard, STypeOK
  <2>3. CASE k = Key(t)
    <3>1. batches'[k] = Merged(batches[Key(t)], Shard(t), t.length)
      BY <1>3, <2>3 DEF MergeShard
    <3> HIDE DEF Key
    <3>2. batches'[k].tasks = {u \in found \ unmerged' : Key(u) = k}
      BY <1>2, <1>5, <2>2, <2>3, <3>1
    <3> QED
      BY <1>5, <3>1, <3>2
  <2>4. CASE k # Key(t)
    <3>1. batches'[k] = batches[k]
      BY <1>3, <2>4 DEF MergeShard
    <3>2. {u \in found \ unmerged' : Key(u) = k} = {u \in found \ unmerged : Key(u) = k}
      BY <1>2, <2>2, <2>4
    <3> QED
      BY <2>2, <3>1, <3>2
  <2> QED
    BY <2>3, <2>4
<1> QED
  BY <1>1, <1>6, <1>7 DEF IInv

LEMMA AllMergedStep == ASSUME IInv, AllMerged PROVE IInv'
<1>1. Timed' /\ Asked' /\ Fitting'
  BY WindowsKept DEF AllMerged, Active
<1>2. STypeOK'
  BY DEF IInv, STypeOK, AllMerged, Key
<1>3. Batched'
  BY DEF IInv, Batched, AllMerged, LongestOf, Key
<1> QED
  BY <1>1, <1>2, <1>3 DEF IInv

(* A window asked for now is asked for in this invocation.                 *)
LEMMA AskedNow ==
  ASSUME STypeOK, Timed, phase \in Active
  PROVE  due - Rate <= clock /\ clock <= due - Rate + Jitter + Timeout
  BY ScheduleAssumption DEF STypeOK, Timed

LEMMA OpenBatchStep == ASSUME IInv, NEW k \in DOMAIN batches, OpenBatch(k) PROVE IInv'
<1> DEFINE B == batches[k].tasks
           L == batches[k].length
<1>1. /\ phase = "reading" /\ phase' = phase /\ clock' = clock /\ due' = due
      /\ began' = began /\ tasks' = tasks /\ unmerged' = unmerged
      /\ batches' = batches /\ found' = found /\ prev' = prev
      /\ now' = [t \in tasks |-> IF t \in B THEN Ask(t, L) ELSE now[t]]
  BY DEF OpenBatch
<1>2. /\ \A t \in tasks : TaskTyped(t)
      /\ clock \in Nat /\ L \in Nat /\ B \in SUBSET tasks
      /\ now \in [tasks -> Windows]
      /\ found \subseteq {t \in tasks : ~ t.static}
  BY DEF IInv, STypeOK, TaskTyped
<1>3. B = {t \in found : Key(t) = k} /\ LongestOf(batches[k])
  BY <1>1 DEF IInv, Batched
<1> HIDE DEF B, L
<1>4. Timed' /\ Batched'
  BY <1>1 DEF IInv, Timed, Batched, Active, LongestOf, Key
<1>5. \A t \in tasks : t \in B => now'[t] = Ask(t, L)
  BY <1>1
<1>6. \A t \in tasks : t \notin B => now'[t] = now[t]
  BY <1>1
<1>7. now' \in [tasks -> Windows]
  <2>1. \A t \in tasks : t \in B => Ask(t, L) \in Windows
    BY <1>2, AskTyped DEF Windows
  <2> QED
    BY <1>1, <1>2, <2>1
<1>8. STypeOK'
  BY <1>1, <1>7 DEF IInv, STypeOK, Key
<1>9. Asked'
  <2>1. ASSUME NEW t \in tasks PROVE AskedIn(now'[t], due - Rate)
    <3>1. CASE t \in B
      <4>1. now'[t].at = clock
        BY <1>2, <1>5, <3>1, AskTyped
      <4> QED
        BY <1>1, <4>1, AskedNow DEF IInv, AskedIn, Active
    <3>2. CASE t \notin B
      BY <1>1, <1>6, <3>2 DEF IInv, Asked
    <3> QED
      BY <3>1, <3>2
  <2> QED
    BY <1>1, <2>1 DEF IInv, Asked, AskedIn
<1>10. Fitting'
  <2>1. ASSUME NEW t \in tasks PROVE Fits(t, now'[t])
    <3>1. CASE t \in B
      <4>1. PICK u \in B : L = u.length /\ t.length <= u.length
        BY <1>3, <3>1 DEF LongestOf, B, L
      <4>2. u \in Companions(t)
        BY <1>2, <1>3, <3>1 DEF Companions
      <4>3. /\ now'[t].at = clock
            /\ now'[t].start = Start(clock, t.period, u.length, t.delay)
            /\ now'[t].end = End(clock, t.period, t.delay)
        BY <1>2, <1>5, <3>1, <4>1, AskTyped
      <4> QED
        BY <4>1, <4>2, <4>3 DEF Fits
    <3>2. CASE t \notin B
      BY <1>6, <3>2 DEF IInv, Fitting
    <3> QED
      BY <3>1, <3>2
  <2> QED
    BY <1>1, <2>1 DEF IInv, Fitting, Fits, Companions, Key, Start, End, Floor
<1> QED
  BY <1>4, <1>8, <1>9, <1>10 DEF IInv

LEMMA OpenStaticStep == ASSUME IInv, NEW s \in tasks, OpenStatic(s) PROVE IInv'
<1>1. /\ phase = "reading" /\ phase' = phase /\ clock' = clock /\ due' = due
      /\ began' = began /\ tasks' = tasks /\ unmerged' = unmerged
      /\ batches' = batches /\ found' = found /\ prev' = prev
      /\ now' = [now EXCEPT ![s] = Ask(s, s.length)]
      /\ s.static
  BY DEF OpenStatic
<1>2. TaskTyped(s) /\ clock \in Nat /\ s.length \in Nat /\ now \in [tasks -> Windows]
  BY DEF IInv, STypeOK, TaskTyped
<1>3. /\ Ask(s, s.length) \in Windows
      /\ Ask(s, s.length).at = clock
      /\ Ask(s, s.length).start = Start(clock, s.period, s.length, s.delay)
      /\ Ask(s, s.length).end = End(clock, s.period, s.delay)
  BY <1>2, AskTyped DEF Windows
<1>4. /\ now'[s] = Ask(s, s.length)
      /\ \A t \in tasks : t # s => now'[t] = now[t]
  BY <1>1, <1>2
<1>5. STypeOK'
  BY <1>1, <1>2, <1>3 DEF IInv, STypeOK, Key
<1>6. Timed' /\ Batched'
  BY <1>1 DEF IInv, Timed, Batched, Active, LongestOf, Key
<1>7. Asked'
  <2>1. AskedIn(now'[s], due - Rate)
    BY <1>1, <1>3, <1>4, AskedNow DEF IInv, AskedIn, Active
  <2> QED
    BY <1>1, <1>4, <2>1 DEF IInv, Asked, AskedIn
<1>8. Fitting'
  <2>1. Fits(s, now'[s])
    BY <1>1, <1>2, <1>3, <1>4 DEF Fits, Companions
  <2> QED
    BY <1>1, <1>4, <2>1 DEF IInv, Fitting, Fits, Companions, Key, Start, End, Floor
<1> QED
  BY <1>5, <1>6, <1>7, <1>8 DEF IInv

LEMMA OverStep == ASSUME IInv, Over PROVE IInv'
<1>1. STypeOK' /\ Timed'
  BY ScheduleAssumption DEF IInv, Over, STypeOK, Timed, Active, Key
<1>2. Asked' /\ Batched'
  BY DEF IInv, Over, Asked, AskedIn, Batched
<1>3. Fitting'
  BY DEF IInv, Over, Fitting, Fits, Companions, Key, Start, End, Floor
<1> QED
  BY <1>1, <1>2, <1>3 DEF IInv

LEMMA StutterStep == ASSUME IInv, UNCHANGED vars PROVE IInv'
<1>1. STypeOK' /\ Timed' /\ Asked'
  BY DEF IInv, vars, STypeOK, Timed, Active, Asked, AskedIn, Key
<1>2. Batched'
  BY DEF IInv, vars, Batched, LongestOf, NoBatches, Key
<1>3. Fitting'
  BY DEF IInv, vars, Fitting, Fits, Companions, Key, Start, End, Floor
<1> QED
  BY <1>1, <1>2, <1>3 DEF IInv

(* The inductive invariant: no step leaves it.                             *)
THEOREM Invariance == Spec => []IInv
<1>1. IInv /\ [Next]_vars => IInv'
  <2> SUFFICES ASSUME IInv, [Next]_vars PROVE IInv'
    OBVIOUS
  <2>1. CASE Tick
    BY <2>1, TickStep
  <2>2. CASE ColdStart
    BY <2>2, ColdStep
  <2>3. CASE WarmStart
    BY <2>3, WarmStep
  <2>4. CASE Discovered
    BY <2>4, DiscoveredStep
  <2>5. CASE \E t \in unmerged : MergeShard(t)
    BY <2>5, MergeStep
  <2>6. CASE AllMerged
    BY <2>6, AllMergedStep
  <2>7. CASE \E k \in DOMAIN batches : OpenBatch(k)
    BY <2>7, OpenBatchStep
  <2>8. CASE \E t \in tasks : OpenStatic(t)
    BY <2>8, OpenStaticStep
  <2>9. CASE Over
    BY <2>9, OverStep
  <2>10. CASE Ended \/ UNCHANGED vars
    BY <2>10, StutterStep DEF Ended
  <2> QED
    BY <2>1, <2>2, <2>3, <2>4, <2>5, <2>6, <2>7, <2>8, <2>9, <2>10 DEF Next
<1> QED
  BY InitIInv, <1>1, PTL DEF Spec

(* The types of the variables, for all configs.                            *)
THEOREM TypeCorrect == Spec => []STypeOK
<1>1. IInv => STypeOK
  BY DEF IInv
<1> QED
  BY <1>1, Invariance, PTL

(* get_batched_discovery_metrics: once all shards are merged, whatever     *)
(* their order, every task is in its batch and the longest length is kept. *)
THEOREM BatchesExact == Spec => []TasksInTheirBatches
<1>1. IInv => TasksInTheirBatches
  <2> SUFFICES ASSUME IInv, phase = "reading", NEW k \in DOMAIN batches
               PROVE  /\ batches[k].tasks = {t \in found : Key(t) = k}
                      /\ LongestOf(batches[k])
    BY DEF TasksInTheirBatches, LongestOf
  <2> QED
    BY DEF IInv, Batched
<1> QED
  BY <1>1, Invariance, PTL

(* A window starts where its length, delay and time say.                   *)
LEMMA FittingWindow ==
  ASSUME IInv, NEW t \in tasks, NEW w \in {now[t], prev[t]}, w # Unread
  PROVE  \E u \in Companions(t) :
           /\ u.length \in Nat /\ u.period = t.period /\ t.length <= u.length
           /\ w.start = Floor(w.at, t.period) - u.length - t.delay
           /\ w.end = Floor(w.at, t.period) - t.delay
           /\ w.at \in Nat /\ Floor(w.at, t.period) \in Nat
<1>1. PICK u \in Companions(t) : /\ t.length <= u.length
                                 /\ w.start = Start(w.at, t.period, u.length, t.delay)
                                 /\ w.end = End(w.at, t.period, t.delay)
  BY DEF IInv, Fitting, Fits
<1>2. u \in tasks /\ u.period = t.period
  BY DEF Companions, Key
<1>3. w \in [at : Nat, start : Int, end : Int]
  BY DEF IInv, STypeOK, Windows
<1>4. w.at \in Nat /\ t.period \in Nat /\ u.length \in Nat
  BY <1>2, <1>3 DEF IInv, STypeOK
<1>5. Floor(w.at, t.period) \in Nat
  BY <1>4, FloorBounds
<1> QED
  BY <1>1, <1>2, <1>4, <1>5 DEF Start, End

(* Alone or in a batch, a task's window covers that of its own request.    *)
THEOREM OwnWindowCovered == Spec => []OwnWindowIsRead
<1>1. IInv => OwnWindowIsRead
  <2> SUFFICES ASSUME IInv, NEW t \in tasks, now[t] # Unread
               PROVE  /\ now[t].start <= Start(now[t].at, t.period, t.length, t.delay)
                      /\ now[t].end = End(now[t].at, t.period, t.delay)
                      /\ t.static => now[t].start = Start(now[t].at, t.period, t.length, t.delay)
    BY DEF OwnWindowIsRead
  <2>1. PICK u \in Companions(t) :
          /\ u.length \in Nat /\ t.length <= u.length
          /\ now[t].start = Floor(now[t].at, t.period) - u.length - t.delay
          /\ now[t].end = Floor(now[t].at, t.period) - t.delay
          /\ Floor(now[t].at, t.period) \in Nat
    BY FittingWindow
  <2>2. t.length \in Nat /\ t.delay \in Nat
    BY DEF IInv, STypeOK
  <2>3. t.static => u = t
    BY DEF Companions
  <2> QED
    BY <2>1, <2>2, <2>3 DEF Start, End
<1> QED
  BY <1>1, Invariance, PTL

(* For every rate, jitter and timeout: a length of whole periods that      *)
(* covers their sum loses no period between successive invocations.        *)
THEOREM NothingLost == Spec => []NoPeriodIsLost
<1>1. IInv => NoPeriodIsLost
  <2> SUFFICES ASSUME IInv, NEW t \in tasks, now[t] # Unread, prev[t] # Unread,
                      Divides(t.period, t.length), t.length >= Rate + Jitter + Timeout
               PROVE  now[t].start <= prev[t].end
    BY DEF NoPeriodIsLost
  <2> DEFINE a == prev[t].at
             b == now[t].at
  <2>1. PICK u \in Companions(t) :
          /\ u.length \in Nat /\ t.length <= u.length
          /\ now[t].start = Floor(b, t.period) - u.length - t.delay
          /\ b \in Nat /\ Floor(b, t.period) \in Nat
    BY FittingWindow
  <2>2. /\ prev[t].end = Floor(a, t.period) - t.delay
        /\ a \in Nat /\ Floor(a, t.period) \in Nat
    BY FittingWindow
  <2>3. t.length \in Nat /\ t.delay \in Nat /\ t.period \in Nat /\ due \in Nat
    BY DEF IInv, STypeOK
  <2>4. b <= due - Rate + Jitter + Timeout /\ due - Rate - Rate <= a
    BY DEF IInv, Asked, AskedIn
  <2> HIDE DEF a, b
  <2>5. b <= a + t.length
    BY <2>1, <2>2, <2>3, <2>4, ScheduleAssumption
  <2>6. Floor(b, t.period) - t.length <= Floor(a, t.period)
    BY <2>1, <2>2, <2>3, <2>5, NoGap
  <2> QED
    BY <2>1, <2>2, <2>3, <2>6
<1> QED
  BY <1>1, Invariance, PTL

(* And lengths of whole periods that leave room for jitter and timeout     *)
(* within the rate report no period twice.                                 *)
THEOREM NothingTwice == Spec => []PeriodsAreReadOnce
<1>1. IInv => PeriodsAreReadOnce
  <2> SUFFICES ASSUME IInv, NEW t \in tasks, now[t] # Unread, prev[t] # Unread,
                      \A u \in Companions(t) : /\ Divides(u.period, u.length)
                                                /\ u.length + Jitter + Timeout <= Rate
               PROVE  prev[t].end <= now[t].start
    BY DEF PeriodsAreReadOnce
  <2> DEFINE a == prev[t].at
             b == now[t].at
  <2>1. PICK u \in Companions(t) :
          /\ u.length \in Nat /\ u.period = t.period
          /\ now[t].start = Floor(b, t.period) - u.length - t.delay
          /\ b \in Nat /\ Floor(b, t.period) \in Nat
    BY FittingWindow
  <2>2. /\ prev[t].end = Floor(a, t.period) - t.delay
        /\ a \in Nat /\ Floor(a, t.period) \in Nat
    BY FittingWindow
  <2>3. t.delay \in Nat /\ t.period \in Nat /\ due \in Nat
    BY DEF IInv, STypeOK
  <2>4. due - Rate <= b /\ a <= due - Rate - Rate + Jitter + Timeout
    BY DEF IInv, Asked, AskedIn
  <2>5. Divides(t.period, u.length) /\ u.length + Jitter + Timeout <= Rate
    BY <2>1
  <2> HIDE DEF a, b
  <2>6. a + u.length <= b
    BY <2>1, <2>2, <2>3, <2>4, <2>5, ScheduleAssumption
  <2>7. Floor(a, t.period) <= Floor(b, t.period) - u.length
    BY <2>1, <2>2, <2>3, <2>5, <2>6, NoOverlap
  <2> QED
    BY <2>1, <2>2, <2>3, <2>7
<1> QED
  BY <1>1, Invariance, PTL
=============================================================================
