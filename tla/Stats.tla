------------------------------- MODULE Stats -------------------------------
(***************************************************************************)
(* One ring of durations of stats.c, with those who record in it and the   *)
(* SIGUSR1 handler, which takes its average at any moment, on any thread,  *)
(* without a lock.                                                         *)
(*                                                                         *)
(* There are two such rings, and this module stands for either: workertime *)
(* in which every worker records once (stats_worker_time), as its last act *)
(* but one, and solvertime, in which every solver does (stats_solver_time, *)
(* the same code over a ring, a flag and a mutex of its own).  At most -m  *)
(* workers record at once, by default ten, and any number of solvers,      *)
(* whatever -m is.  stats_log averages workertime and then solvertime.     *)
(* The mutex is static in the function: it keeps writers apart and does    *)
(* not concern the reader.                                                 *)
(***************************************************************************)
EXTENDS Integers, FiniteSets

CONSTANTS
  Workers,             \* the threads that record a duration, once each
  ParallelOpts,        \* how many of them may be in the call at a time
  RINGBUFFERS,         \* size of the ring
  Intervals,           \* <<begin, end>> of a request, as struct timeval
  SumMod,              \* 2^64, the width of ring_average's sum
  IntMod,              \* 2^32, the width of an int
  None                 \* nobody, nothing

ASSUME ParallelAssumption == ParallelOpts \subseteq Nat \ {0}
ASSUME RingAssumption == RINGBUFFERS \in Nat \ {0}
ASSUME WorkersAssumption == IsFiniteSet(Workers) /\ None \notin Workers
ASSUME WidthAssumption == SumMod \in Nat \ {0} /\ IntMod \in Nat \ {0}

Timeval == [sec : Nat, msec : 0..999]

ASSUME IntervalsAssumption == Intervals \subseteq Timeval \X Timeval

\* Mutated form of l_time: seconds are turned into milliseconds.
l_time_ms(tv) == tv.msec + 1000 * tv.sec

\* tv_usec / 1000 + tv_sec
l_time(tv) == tv.msec + tv.sec

\* A wide number stored into an int.
AsInt(n) == LET low == n % IntMod IN IF 2 * low < IntMod THEN low ELSE low - IntMod

duration(iv) == AsInt(l_time(iv[2]) - l_time(iv[1]))

Durations == {duration(iv) : iv \in Intervals}

VARIABLES
  parallel,            \* how many threads may be in the call at a time
  rereads,             \* does the build read r->count anew at every use?
  proc,                \* "running" or "crashed"
  pc,                  \* where each worker is in stats_worker_time
  dur,                 \* its duration
  lock,                \* holder of the static mutex
  init,                \* the static flag
  count, index, val,   \* workertime
  clears,              \* history: how often the ring was cleared
  logpc,               \* where the SIGUSR1 handler is in ring_average
  seen, i, sum,        \* count as first read, i, sum
  logged               \* the average in the last line logged

ringVars == <<count, index, val>>
recVars  == <<pc, dur, lock, init, clears>>
logVars  == <<logpc, seen, i, sum, logged>>
fixedVars == <<parallel, rereads>>
vars == <<proc, recVars, ringVars, logVars, fixedVars>>

Slots == 0..(RINGBUFFERS - 1)
RecorderPCs == {"none", "test", "clear", "setinit", "record", "store", "count", "index", "done"}

\* Indices stay inside the ring, and what is logged is an int.
TypeOK ==
  /\ parallel \in ParallelOpts /\ rereads \in BOOLEAN
  /\ proc \in {"running", "crashed"}
  /\ pc \in [Workers -> RecorderPCs]
  /\ dur \in [Workers -> Durations \cup {None}]
  /\ lock \in Workers \cup {None}
  /\ init \in {0, 1}
  /\ count \in 0..RINGBUFFERS /\ index \in Slots /\ val \in [Slots -> Int]
  /\ clears \in Nat
  /\ logpc \in {"idle", "sum", "divide"}
  /\ seen \in 0..RINGBUFFERS /\ i \in 0..RINGBUFFERS /\ sum \in 0..(SumMod - 1)
  /\ logged \in Int \cup {None}

Init ==
  /\ parallel \in ParallelOpts /\ rereads \in BOOLEAN
  /\ proc = "running"
  /\ pc = [t \in Workers |-> "none"] /\ dur = [t \in Workers |-> None]
  /\ lock = None /\ init = 0 /\ clears = 0
  /\ count = 0 /\ index = 0 /\ val = [s \in Slots |-> 0]
  /\ logpc = "idle"
  /\ seen = 0 /\ i = 0 /\ sum = 0 /\ logged = None

At(t, p)   == proc = "running" /\ pc[t] = p
Goto(t, p) == pc' = [pc EXCEPT ![t] = p]

-----------------------------------------------------------------------------
(*                           stats_worker_time                             *)

InCall == {t \in Workers : pc[t] \notin {"none", "done"}}

\* A worker has served its client, or a solver its worker, and records that.
Enter(t) ==
  /\ At(t, "none")
  /\ Cardinality(InCall) < parallel
  /\ \E d \in Durations : dur' = [dur EXCEPT ![t] = d]
  /\ Goto(t, "test")
  /\ UNCHANGED <<proc, lock, init, clears, ringVars, logVars, fixedVars>>

\* if (init == 0), tested without the mutex
TestInit(t) ==
  /\ At(t, "test")
  /\ Goto(t, IF init = 0 THEN "clear" ELSE "record")
  /\ UNCHANGED <<proc, dur, lock, init, clears, ringVars, logVars, fixedVars>>

\* memset under the mutex
ClearRing(t) ==
  /\ At(t, "clear")
  /\ lock = None
  /\ count' = 0 /\ index' = 0 /\ val' = [s \in Slots |-> 0]
  /\ clears' = clears + 1
  /\ Goto(t, "setinit")
  /\ UNCHANGED <<proc, dur, lock, init, logVars, fixedVars>>

\* Mutated form of SetInit: the flag is never set.
SetInitMissing(t) ==
  /\ At(t, "setinit")
  /\ Goto(t, "record")
  /\ UNCHANGED <<proc, dur, lock, init, clears, ringVars, logVars, fixedVars>>

\* init = 1, after the unlock
SetInit(t) ==
  /\ At(t, "setinit")
  /\ init' = 1
  /\ Goto(t, "record")
  /\ UNCHANGED <<proc, dur, lock, clears, ringVars, logVars, fixedVars>>

\* Mutated form of RecordLock: the sample is stored without the mutex.
RecordUnlocked(t) ==
  /\ At(t, "record")
  /\ Goto(t, "store")
  /\ UNCHANGED <<proc, dur, lock, init, clears, ringVars, logVars, fixedVars>>

RecordLock(t) ==
  /\ At(t, "record")
  /\ lock = None
  /\ lock' = t
  /\ Goto(t, "store")
  /\ UNCHANGED <<proc, dur, init, clears, ringVars, logVars, fixedVars>>

\* workertime.val[workertime.index] = duration
StoreVal(t) ==
  /\ At(t, "store")
  /\ val' = [val EXCEPT ![index] = dur[t]]
  /\ Goto(t, "count")
  /\ UNCHANGED <<proc, dur, lock, init, clears, count, index, logVars, fixedVars>>

\* Mutated form of RaiseCount: count grows past the ring.
RaiseCountUnbounded(t) ==
  /\ At(t, "count")
  /\ count' = count + 1
  /\ Goto(t, "index")
  /\ UNCHANGED <<proc, dur, lock, init, clears, index, val, logVars, fixedVars>>

\* Mutated form of RaiseCount: the last place of the ring is not counted.
RaiseCountShort(t) ==
  /\ At(t, "count")
  /\ count' = IF count < RINGBUFFERS - 1 THEN count + 1 ELSE count
  /\ Goto(t, "index")
  /\ UNCHANGED <<proc, dur, lock, init, clears, index, val, logVars, fixedVars>>

\* if (workertime.count < RINGBUFFERS)
RaiseCount(t) ==
  /\ At(t, "count")
  /\ count' = IF count < RINGBUFFERS THEN count + 1 ELSE count
  /\ Goto(t, "index")
  /\ UNCHANGED <<proc, dur, lock, init, clears, index, val, logVars, fixedVars>>

\* The index moves on and the mutex is released.
AdvanceIndex(t) ==
  /\ At(t, "index")
  /\ index' = (index + 1) % RINGBUFFERS
  /\ lock' = None
  /\ Goto(t, "done")
  /\ UNCHANGED <<proc, dur, init, clears, count, val, logVars, fixedVars>>

stats_worker_time(t) ==
  \/ TestInit(t) \/ ClearRing(t) \/ SetInit(t)
  \/ RecordLock(t) \/ StoreVal(t) \/ RaiseCount(t) \/ AdvanceIndex(t)

-----------------------------------------------------------------------------
(*       ring_average, called by stats_log in the handler, ring by ring    *)

recorderUnchanged == UNCHANGED <<recVars, ringVars, fixedVars>>

\* r->count as a use after the first one reads it.
CountNow == IF rereads THEN count ELSE seen

\* if (!r->count) return 0
AverageOfNone ==
  /\ proc = "running" /\ logpc = "idle"
  /\ count = 0
  /\ logged' = 0
  /\ UNCHANGED <<proc, logpc, seen, i, sum>> /\ recorderUnchanged

\* Mutated form of AverageStart: sum keeps its value from the last call.
AverageStartDirty ==
  /\ proc = "running" /\ logpc = "idle"
  /\ count # 0
  /\ seen' = count
  /\ i' = 0
  /\ logpc' = "sum"
  /\ UNCHANGED <<proc, sum, logged>> /\ recorderUnchanged

AverageStart ==
  /\ proc = "running" /\ logpc = "idle"
  /\ count # 0
  /\ seen' = count
  /\ i' = 0 /\ sum' = 0
  /\ logpc' = "sum"
  /\ UNCHANGED <<proc, logged>> /\ recorderUnchanged

\* sum += r->val[i]: an int added to an unsigned long long
AverageAdd ==
  /\ proc = "running" /\ logpc = "sum"
  /\ i < CountNow
  /\ sum' = (sum + val[i]) % SumMod
  /\ i' = i + 1
  /\ UNCHANGED <<proc, logpc, seen, logged>> /\ recorderUnchanged

AverageLoopEnd ==
  /\ proc = "running" /\ logpc = "sum"
  /\ i >= CountNow
  /\ logpc' = "divide"
  /\ UNCHANGED <<proc, seen, i, sum, logged>> /\ recorderUnchanged

\* return sum / r->count, an int: a division by zero ends the process.
AverageDivide ==
  /\ proc = "running" /\ logpc = "divide"
  /\ IF CountNow = 0
     THEN proc' = "crashed" /\ UNCHANGED <<logpc, logged>>
     ELSE logged' = AsInt(sum \div CountNow) /\ logpc' = "idle" /\ proc' = proc
  /\ UNCHANGED <<seen, i, sum>> /\ recorderUnchanged

ring_average ==
  \/ AverageOfNone \/ AverageStart \/ AverageAdd \/ AverageLoopEnd \/ AverageDivide

-----------------------------------------------------------------------------
Ended == proc = "crashed" /\ UNCHANGED vars

Next ==
  \/ \E t \in Workers : Enter(t) \/ stats_worker_time(t)
  \/ ring_average
  \/ Ended

Spec == Init /\ [][Next]_vars

-----------------------------------------------------------------------------
(* The test of init outside the mutex clears the ring more than once, but  *)
(* at most once for each worker that can be in the call at the same time:  *)
(* all that saw init = 0 were in it before the first of them set the flag. *)
ClearsBounded == clears <= parallel

(* Until the ring is cleared a second time, however many threads record at *)
(* once, it holds a sample for every call, up to its size.                 *)
Recorded == Cardinality({t \in Workers : pc[t] \in {"index", "done"}})
SamplesKept ==
  clears <= 1 => count = IF Recorded < RINGBUFFERS THEN Recorded ELSE RINGBUFFERS

(* When no duration is negative, and until the ring is cleared a second    *)
(* time, the average that is logged lies between zero and the longest      *)
(* duration, even if several threads store samples while ring_average runs.*)
AverageWithin ==
  clears <= 1 /\ (\A d \in Durations : d >= 0) =>
    logged = None \/ logged = 0 \/ \E d \in Durations : 0 <= logged /\ logged <= d

-----------------------------------------------------------------------------
(*             The ring as a window over the newest samples                *)

\* While a sample is being stored (val written, count or index not yet),
\* the window already has it.
Storing == \E t \in Workers : pc[t] = "index"
Stored  == \E t \in Workers : pc[t] = "count"
WinCount == IF Stored /\ count < RINGBUFFERS THEN count + 1 ELSE count
WinIndex == IF Stored \/ Storing THEN (index + 1) % RINGBUFFERS ELSE index

Window ==
  [k \in 1..WinCount |-> val[(WinIndex - WinCount + k - 1) % RINGBUFFERS]]

Ring == INSTANCE SampleWindow WITH
  Samples <- Durations, window <- Window

(* Every state of the ring is that of a window over the newest samples,    *)
(* whatever workers record at once: no sample is lost or stored twice, but *)
(* for those that a late memset clears.                                    *)
ImplementsSampleWindow == Ring!Spec

-----------------------------------------------------------------------------
(*            What a test of the program says and does not hold            *)

(* ring_average divides by a count that it has found not to be zero:       *)
(* "if (!r || !r->count)" (stats.c:175).                                   *)
CountStaysPositive == logpc = "divide" => CountNow # 0
=============================================================================
