---------------------------- MODULE StatsProofs ----------------------------
(***************************************************************************)
(* The safety of the duration statistics for any number of threads, any    *)
(* ring size and all durations.                                            *)
(*                                                                         *)
(* The inductive invariant counts the threads that may still clear the     *)
(* ring, and says that nothing is recorded before the first has, and that  *)
(* a count found positive stays positive until a second one does. The      *)
(* average needs a bound on every partial sum, the window that those who   *)
(* store and count have the lock.                                          *)
(***************************************************************************)
EXTENDS Stats, FiniteSetTheorems, SequenceTheorems, TLAPS

Clearing == {t \in Workers : pc[t] = "clear"}
Setting  == {t \in Workers : pc[t] = "setinit"}
Sampled  == {t \in Workers : pc[t] \in {"index", "done"}}

Measured == \A t \in Workers : pc[t] # "none" => dur[t] \in Durations

ClearsCounted ==
  /\ Cardinality(InCall) <= parallel
  /\ clears + Cardinality(Clearing) <= parallel
  /\ init = 0 => /\ clears = Cardinality(Setting)
                 /\ \A t \in Workers : pc[t] \in {"none", "test", "clear", "setinit"}

ClearedOnce ==
  /\ clears = 0 => init = 0
  /\ init = 0 => count = 0
  /\ clears <= 1 => /\ logpc # "idle" => count # 0 /\ seen # 0
                    /\ proc = "running"

IInv == TypeOK /\ Measured /\ ClearsCounted /\ ClearedOnce /\ SamplesKept

-----------------------------------------------------------------------------
USE DEF fixedVars

LEMMA ParallelNat == TypeOK => parallel \in Nat \ {0}
BY ParallelAssumption DEF TypeOK

LEMMA ModRange ==
  ASSUME NEW n \in Int, NEW m \in Nat \ {0}
  PROVE  n % m \in 0..(m - 1)
OBVIOUS

LEMMA DivInt ==
  ASSUME NEW n \in Int, NEW m \in Nat \ {0}
  PROVE  n \div m \in Int
OBVIOUS

LEMMA AsIntInt ==
  ASSUME NEW n \in Int
  PROVE  AsInt(n) \in Int
BY ModRange, WidthAssumption DEF AsInt

LEMMA DurationsInt == Durations \subseteq Int
<1> SUFFICES ASSUME NEW iv \in Intervals
             PROVE  duration(iv) \in Int
  BY DEF Durations
<1>1. iv[1] \in Timeval /\ iv[2] \in Timeval
  BY IntervalsAssumption
<1>2. \A tv \in Timeval : l_time(tv) \in Int
  BY DEF Timeval, l_time
<1> QED
  BY <1>1, <1>2, AsIntInt DEF duration

(* A set of workers, and one that gains or loses a member.                 *)
LEMMA WorkerSets ==
  ASSUME NEW S \in SUBSET Workers
  PROVE  /\ IsFiniteSet(S) /\ Cardinality(S) \in Nat
         /\ (Cardinality(S) = 0) <=> (S = {})
         /\ \A t \in Workers \ S : Cardinality(S \cup {t}) = Cardinality(S) + 1
         /\ \A t \in S : Cardinality(S \ {t}) = Cardinality(S) - 1
<1>1. IsFiniteSet(S)
  BY WorkersAssumption, FS_Subset
<1> QED
  BY <1>1, FS_CardinalityType, FS_EmptySet, FS_AddElement, FS_RemoveElement

(* The initial states satisfy the invariant.                               *)
LEMMA InitInv == Init => IInv
<1> SUFFICES ASSUME Init PROVE IInv
  OBVIOUS
<1>1. TypeOK
  BY RingAssumption, WidthAssumption DEF Init, TypeOK, Slots, RecorderPCs
<1>2. InCall = {} /\ Clearing = {} /\ Setting = {} /\ Sampled = {}
  BY DEF Init, InCall, Clearing, Setting, Sampled
<1>3. Cardinality({}) = 0
  BY FS_EmptySet
<1>4. ClearsCounted
  BY <1>2, <1>3, ParallelAssumption DEF Init, ClearsCounted
<1>5. Measured /\ ClearedOnce
  BY <1>2 DEF Init, Measured, ClearedOnce
<1>6. SamplesKept
  BY <1>2, <1>3, RingAssumption DEF Init, SamplesKept, Recorded, Sampled
<1> QED
  BY <1>1, <1>4, <1>5, <1>6 DEF IInv

LEMMA EnterKeeps ==
  ASSUME IInv, NEW t \in Workers, Enter(t)
  PROVE  IInv'
<1>1. TypeOK' /\ Measured'
  BY DEF Enter, At, Goto, IInv, TypeOK, Measured, RecorderPCs, ringVars, logVars
<1>2. /\ InCall' = InCall \cup {t} /\ t \notin InCall
      /\ Clearing' = Clearing /\ Setting' = Setting /\ Sampled' = Sampled
  BY DEF Enter, At, Goto, IInv, TypeOK, InCall, Clearing, Setting, Sampled
<1>3. Cardinality(InCall') <= parallel
  <2>1. InCall \in SUBSET Workers /\ t \in Workers \ InCall
    BY <1>2 DEF InCall
  <2>2. Cardinality(InCall \cup {t}) = Cardinality(InCall) + 1 /\ Cardinality(InCall) \in Nat
    BY <2>1, WorkerSets
  <2>3. Cardinality(InCall) < parallel
    BY DEF Enter
  <2> QED
    BY <1>2, <2>2, <2>3, ParallelNat DEF IInv
<1>4. ClearsCounted'
  BY <1>2, <1>3 DEF Enter, At, Goto, IInv, TypeOK, ClearsCounted
<1>5. ClearedOnce'
  BY DEF Enter, IInv, ClearedOnce, ringVars, logVars
<1>6. SamplesKept'
  BY <1>2 DEF Enter, IInv, SamplesKept, Recorded, Sampled, ringVars
<1> QED
  BY <1>1, <1>4, <1>5, <1>6 DEF IInv

LEMMA RecorderKeeps ==
  ASSUME IInv, NEW t \in Workers, stats_worker_time(t)
  PROVE  IInv'
<1> USE DEF At, Goto
<1>1. CASE TestInit(t)
  <2>1. TypeOK' /\ Measured'
    BY <1>1 DEF TestInit, IInv, TypeOK, Measured, RecorderPCs, ringVars, logVars
  <2>2. InCall' = InCall /\ Setting' = Setting /\ Sampled' = Sampled /\ t \in InCall
    BY <1>1 DEF TestInit, IInv, TypeOK, InCall, Setting, Sampled
  <2>3. ClearsCounted'
    <3>1. CASE init = 0
      <4>1. Clearing' = Clearing \cup {t} /\ t \notin Clearing
        BY <1>1, <3>1 DEF TestInit, IInv, TypeOK, Clearing
      <4>2. Cardinality(Clearing') = Cardinality(Clearing) + 1
        BY <4>1, WorkerSets DEF Clearing
      <4>3. Clearing' \cap Setting = {} /\ Clearing' \cup Setting \subseteq InCall
        BY <1>1, <3>1, <4>1 DEF TestInit, Clearing, Setting, InCall
      <4>4. /\ IsFiniteSet(Clearing') /\ IsFiniteSet(Setting)
            /\ IsFiniteSet(InCall) /\ IsFiniteSet({})
            /\ Cardinality({}) = 0
        <5>1. /\ Clearing \in SUBSET Workers /\ Setting \in SUBSET Workers
              /\ InCall \in SUBSET Workers /\ Clearing \cup {t} \in SUBSET Workers
              /\ {} \in SUBSET Workers
          BY DEF Clearing, Setting, InCall
        <5> QED
          BY <4>1, <5>1, WorkerSets
      <4>5. Cardinality(Clearing' \cup Setting) = Cardinality(Clearing') + Cardinality(Setting)
        <5>1. Cardinality(Clearing' \cap Setting) = 0
          BY <4>3, <4>4
        <5>2. Cardinality(Clearing' \cup Setting)
                = Cardinality(Clearing') + Cardinality(Setting) - Cardinality(Clearing' \cap Setting)
          BY <4>4, FS_Union
        <5>3. Cardinality(Clearing') \in Nat /\ Cardinality(Setting) \in Nat
          BY <4>4, FS_CardinalityType
        <5> QED
          BY <5>1, <5>2, <5>3
      <4>6. Cardinality(Clearing' \cup Setting) <= Cardinality(InCall)
        BY <4>3, <4>4, FS_Subset
      <4>7. clears' + Cardinality(Clearing') <= parallel
        BY <1>1, <3>1, <4>4, <4>5, <4>6, FS_CardinalityType, ParallelAssumption
           DEF TestInit, IInv, TypeOK, ClearsCounted
      <4> QED
        BY <1>1, <2>2, <3>1, <4>7 DEF TestInit, IInv, TypeOK, ClearsCounted
    <3>2. CASE init # 0
      <4>1. Clearing' = Clearing
        BY <1>1, <3>2 DEF TestInit, IInv, TypeOK, Clearing
      <4> QED
        BY <1>1, <2>2, <3>2, <4>1 DEF TestInit, IInv, ClearsCounted
    <3> QED
      BY <3>1, <3>2
  <2>4. ClearedOnce'
    BY <1>1, <2>2 DEF TestInit, IInv, TypeOK, ClearedOnce, Clearing, InCall, ringVars, logVars
  <2>5. SamplesKept'
    BY <1>1, <2>2 DEF TestInit, IInv, SamplesKept, Recorded, Sampled, ringVars
  <2> QED
    BY <2>1, <2>3, <2>4, <2>5 DEF IInv
<1>2. CASE ClearRing(t)
  <2>1. TypeOK' /\ Measured'
    BY <1>2, RingAssumption
       DEF ClearRing, IInv, TypeOK, Measured, RecorderPCs, Slots, logVars
  <2>2. /\ InCall' = InCall /\ Sampled' = Sampled
        /\ Clearing' = Clearing \ {t} /\ t \in Clearing
        /\ Setting' = Setting \cup {t} /\ t \notin Setting
    BY <1>2 DEF ClearRing, IInv, TypeOK, InCall, Sampled, Clearing, Setting
  <2>3. /\ Cardinality(Clearing') = Cardinality(Clearing) - 1
        /\ Cardinality(Setting') = Cardinality(Setting) + 1
        /\ Cardinality(Clearing) \in Nat /\ Cardinality(Setting) \in Nat
    BY <2>2, WorkerSets DEF Clearing, Setting
  <2>4. ClearsCounted'
    BY <1>2, <2>2, <2>3, ParallelAssumption DEF ClearRing, IInv, TypeOK, ClearsCounted
  <2>5. clears' <= 1 => init = 0 /\ Sampled = {} /\ logpc = "idle" /\ count = 0
    BY <1>2, <2>2 DEF ClearRing, IInv, TypeOK, ClearsCounted, ClearedOnce, Sampled
  <2>6. ClearedOnce'
    BY <1>2, <2>5 DEF ClearRing, IInv, TypeOK, ClearedOnce, logVars
  <2>7. SamplesKept'
    BY <1>2, <2>2, <2>5, FS_EmptySet, RingAssumption DEF ClearRing, SamplesKept, Recorded, Sampled
  <2> QED
    BY <2>1, <2>4, <2>6, <2>7 DEF IInv
<1>3. CASE SetInit(t)
  <2>1. TypeOK' /\ Measured'
    BY <1>3 DEF SetInit, IInv, TypeOK, Measured, RecorderPCs, ringVars, logVars
  <2>2. InCall' = InCall /\ Sampled' = Sampled /\ Clearing' = Clearing /\ t \in InCall
    BY <1>3 DEF SetInit, IInv, TypeOK, InCall, Sampled, Clearing
  <2>3. ClearsCounted'
    BY <1>3, <2>2 DEF SetInit, IInv, ClearsCounted
  <2>4. clears # 0
    <3>1. Cardinality(Setting) # 0
      BY <1>3, WorkerSets DEF SetInit, Setting
    <3> QED
      BY <3>1 DEF IInv, TypeOK, ClearsCounted, ClearedOnce
  <2>5. ClearedOnce'
    BY <1>3, <2>4 DEF SetInit, IInv, ClearedOnce, ringVars, logVars
  <2>6. SamplesKept'
    BY <1>3, <2>2 DEF SetInit, IInv, SamplesKept, Recorded, Sampled, ringVars
  <2> QED
    BY <2>1, <2>3, <2>5, <2>6 DEF IInv
<1>4. CASE RecordLock(t) \/ StoreVal(t)
  <2>1. TypeOK' /\ Measured'
    BY <1>4, DurationsInt DEF RecordLock, StoreVal, IInv, TypeOK, Measured, RecorderPCs,
           ringVars, logVars
  <2>2. InCall' = InCall /\ Sampled' = Sampled /\ Clearing' = Clearing /\ Setting' = Setting
    BY <1>4 DEF RecordLock, StoreVal, IInv, TypeOK, InCall, Sampled, Clearing, Setting
  <2>3. init # 0
    BY <1>4 DEF RecordLock, StoreVal, IInv, ClearsCounted
  <2>4. ClearsCounted' /\ ClearedOnce' /\ SamplesKept'
    BY <1>4, <2>2, <2>3 DEF RecordLock, StoreVal, IInv, ClearsCounted, ClearedOnce, SamplesKept,
           Recorded, Sampled, ringVars, logVars
  <2> QED
    BY <2>1, <2>4 DEF IInv
<1>5. CASE RaiseCount(t)
  <2>1. TypeOK' /\ Measured'
    BY <1>5, RingAssumption DEF RaiseCount, IInv, TypeOK, Measured, RecorderPCs, logVars
  <2>2. /\ InCall' = InCall /\ Clearing' = Clearing /\ Setting' = Setting
        /\ Sampled' = Sampled \cup {t} /\ t \notin Sampled
    BY <1>5 DEF RaiseCount, IInv, TypeOK, InCall, Sampled, Clearing, Setting
  <2>3. init = 1
    BY <1>5 DEF RaiseCount, IInv, TypeOK, ClearsCounted
  <2>4. ClearsCounted' /\ ClearedOnce'
    BY <1>5, <2>2, <2>3, RingAssumption
       DEF RaiseCount, IInv, TypeOK, ClearsCounted, ClearedOnce, logVars
  <2>5. Cardinality(Sampled') = Cardinality(Sampled) + 1 /\ Cardinality(Sampled) \in Nat
    BY <2>2, WorkerSets DEF Sampled
  <2>6. SamplesKept'
    BY <1>5, <2>5, RingAssumption DEF RaiseCount, IInv, SamplesKept, Recorded, Sampled
  <2> QED
    BY <2>1, <2>4, <2>6 DEF IInv
<1>6. CASE AdvanceIndex(t)
  <2>1. (index + 1) % RINGBUFFERS \in Slots
    BY ModRange, RingAssumption DEF IInv, TypeOK, Slots
  <2>2. TypeOK' /\ Measured'
    BY <1>6, <2>1 DEF AdvanceIndex, IInv, TypeOK, Measured, RecorderPCs, logVars
  <2>3. /\ InCall' = InCall \ {t} /\ t \in InCall
        /\ Sampled' = Sampled /\ Clearing' = Clearing /\ Setting' = Setting
    BY <1>6 DEF AdvanceIndex, IInv, TypeOK, InCall, Sampled, Clearing, Setting
  <2>4. Cardinality(InCall') <= parallel
    BY <2>3, WorkerSets, ParallelNat DEF IInv, ClearsCounted, InCall
  <2>5. init # 0
    BY <1>6 DEF AdvanceIndex, IInv, ClearsCounted
  <2>6. ClearsCounted' /\ ClearedOnce' /\ SamplesKept'
    BY <1>6, <2>3, <2>4, <2>5 DEF AdvanceIndex, IInv, ClearsCounted, ClearedOnce, SamplesKept,
           Recorded, Sampled, logVars
  <2> QED
    BY <2>2, <2>6 DEF IInv
<1> QED
  BY <1>1, <1>2, <1>3, <1>4, <1>5, <1>6 DEF stats_worker_time

LEMMA LoggerKeeps ==
  ASSUME IInv, ring_average
  PROVE  IInv'
<1>1. /\ InCall' = InCall /\ Clearing' = Clearing /\ Setting' = Setting /\ Sampled' = Sampled
      /\ recorderUnchanged
  BY DEF ring_average, AverageOfNone, AverageStart, AverageAdd, AverageLoopEnd, AverageDivide,
         recorderUnchanged, recVars, InCall, Clearing, Setting, Sampled
<1>2. Measured' /\ ClearsCounted' /\ SamplesKept'
  BY <1>1 DEF recorderUnchanged, recVars, ringVars, IInv, Measured, ClearsCounted, SamplesKept,
         Recorded, Sampled
<1>3. CountNow \in 0..RINGBUFFERS
  BY DEF CountNow, IInv, TypeOK
<1>4. CASE AverageOfNone \/ AverageStart \/ AverageLoopEnd
  <2>1. TypeOK'
    BY <1>1, <1>4, RingAssumption, WidthAssumption
       DEF AverageOfNone, AverageStart, AverageLoopEnd, recorderUnchanged, recVars, ringVars,
           IInv, TypeOK
  <2>2. ClearedOnce'
    BY <1>1, <1>4 DEF AverageOfNone, AverageStart, AverageLoopEnd, recorderUnchanged, recVars,
           ringVars, IInv, ClearedOnce
  <2> QED
    BY <1>2, <2>1, <2>2 DEF IInv
<1>5. CASE AverageAdd
  <2>1. i \in Slots /\ i + 1 \in 0..RINGBUFFERS
    BY <1>3, <1>5, RingAssumption DEF AverageAdd, IInv, TypeOK, Slots
  <2>2. (sum + val[i]) % SumMod \in 0..(SumMod - 1)
    <3>1. sum + val[i] \in Int
      BY <2>1, WidthAssumption DEF IInv, TypeOK
    <3> QED
      BY <3>1, ModRange, WidthAssumption
  <2>3. TypeOK' /\ ClearedOnce'
    BY <1>1, <1>5, <2>1, <2>2 DEF AverageAdd, recorderUnchanged, recVars, ringVars, IInv, TypeOK,
           ClearedOnce
  <2> QED
    BY <1>2, <2>3 DEF IInv
<1>6. CASE AverageDivide
  <2>1. CountNow # 0 => AsInt(sum \div CountNow) \in Int
    BY <1>3, AsIntInt, DivInt, RingAssumption DEF IInv, TypeOK
  <2>2. TypeOK'
    BY <1>1, <1>6, <2>1 DEF AverageDivide, recorderUnchanged, recVars, ringVars, IInv, TypeOK
  <2>3. ClearedOnce'
    BY <1>1, <1>6 DEF AverageDivide, CountNow, recorderUnchanged, recVars, ringVars, IInv, ClearedOnce
  <2> QED
    BY <1>2, <2>2, <2>3 DEF IInv
<1> QED
  BY <1>4, <1>5, <1>6 DEF ring_average

(* Every step keeps the invariant.                                         *)
LEMMA NextInv == IInv /\ [Next]_vars => IInv'
<1>1. ASSUME IInv, UNCHANGED vars PROVE IInv'
  BY <1>1 DEF vars, recVars, ringVars, logVars, IInv, TypeOK, Measured, ClearsCounted,
         ClearedOnce, SamplesKept, Recorded, InCall, Clearing, Setting
<1> QED
  BY <1>1, EnterKeeps, RecorderKeeps, LoggerKeeps DEF Next, Ended

LEMMA Invariant == Spec => []IInv
BY InitInv, NextInv, PTL DEF Spec

(* The indices of the ring and of the reader stay inside the ring.         *)
THEOREM TypeCorrect == Spec => []TypeOK
<1>1. IInv => TypeOK
  BY DEF IInv
<1> QED
  BY <1>1, Invariant, PTL

(* The unprotected test of init lets no more threads clear the ring than   *)
(* can be in the call at once.                                             *)
THEOREM ClearsAreBounded == Spec => []ClearsBounded
<1>1. IInv => ClearsBounded
  BY WorkerSets, ParallelAssumption DEF IInv, TypeOK, ClearsCounted, ClearsBounded, Clearing
<1> QED
  BY <1>1, Invariant, PTL

(* However many threads record at once, no sample is lost until the ring   *)
(* is cleared a second time.                                               *)
THEOREM NoSampleLost == Spec => []SamplesKept
<1>1. IInv => SamplesKept
  BY DEF IInv
<1> QED
  BY <1>1, Invariant, PTL

-----------------------------------------------------------------------------
(*                              The average                                *)
(*                                                                         *)
(* One duration bounds what is in the ring, every logged average, and,     *)
(* times the number of samples added, the sum.                             *)

\* The ring was cleared once, and no duration is negative.
Honest == clears <= 1 /\ \A d \in Durations : d >= 0

Bounds(D) ==
  /\ \A s \in Slots : 0 <= val[s] /\ val[s] <= D
  /\ logpc # "idle" => 0 <= sum /\ sum <= i * D
  /\ logged # None => 0 <= logged /\ logged <= D

Averaged ==
  Honest => /\ logpc # "idle" => i <= CountNow
            /\ \E D \in Durations \cup {0} : Bounds(D)

(* A duration is an int, and zero is one.                                  *)
LEMMA BoundIsInt ==
  ASSUME NEW D \in Durations \cup {0}
  PROVE  D \in Int /\ 2 * D < IntMod
<1>1. \A n \in Int : 2 * AsInt(n) < IntMod
  <2> SUFFICES ASSUME NEW n \in Int
               PROVE  2 * AsInt(n) < IntMod
    OBVIOUS
  <2>1. n % IntMod \in 0..(IntMod - 1) /\ IntMod \in Nat \ {0}
    BY ModRange, WidthAssumption
  <2> QED
    BY <2>1 DEF AsInt
<1>2. ASSUME NEW iv \in Intervals
      PROVE  l_time(iv[2]) - l_time(iv[1]) \in Int
  <2>1. iv[1] \in Timeval /\ iv[2] \in Timeval
    BY IntervalsAssumption
  <2>2. \A tv \in Timeval : l_time(tv) \in Int
    BY DEF Timeval, l_time
  <2> QED
    BY <2>1, <2>2
<1> QED
  BY <1>1, <1>2, DurationsInt, WidthAssumption DEF Durations, duration

LEMMA ModIsLess ==
  ASSUME NEW n \in Nat, NEW m \in Nat \ {0}
  PROVE  n % m \in Nat /\ n % m <= n
OBVIOUS

LEMMA TimesGrows ==
  ASSUME NEW n \in Nat, NEW D \in Nat, NEW E \in Nat, D <= E
  PROVE  /\ n * D \in Nat /\ n * E \in Nat /\ n * D <= n * E
         /\ (n + 1) * D = n * D + D
OBVIOUS

(* The mean of n numbers that are at most D is at most D.                  *)
LEMMA MeanIsWithin ==
  ASSUME NEW n \in Nat \ {0}, NEW D \in Nat, NEW s \in Nat, s <= n * D
  PROVE  s \div n \in Nat /\ s \div n <= D
OBVIOUS

LEMMA AsIntWithin ==
  ASSUME NEW n \in Nat, NEW D \in Nat, n <= D, 2 * D < IntMod
  PROVE  0 <= AsInt(n) /\ AsInt(n) <= D
<1>1. n % IntMod \in Nat /\ n % IntMod <= n
  BY ModIsLess, WidthAssumption
<1> QED
  BY <1>1, WidthAssumption DEF AsInt

LEMMA AveragedInit == Init => Averaged
<1> SUFFICES ASSUME Init PROVE Averaged
  OBVIOUS
<1>1. Bounds(0)
  BY DEF Init, Bounds
<1> QED
  BY <1>1 DEF Init, Averaged

(* The recorders put durations in the ring and take none out while it is   *)
(* being read.                                                             *)
LEMMA RecorderAverages ==
  ASSUME IInv, Averaged, Honest, Honest', NEW t \in Workers, Enter(t) \/ stats_worker_time(t)
  PROVE  Averaged'
<1>1. UNCHANGED <<logVars, rereads>>
  BY DEF Enter, stats_worker_time, TestInit, ClearRing, SetInit, RecordLock, StoreVal,
         RaiseCount, AdvanceIndex
<1>2. PICK D \in Durations \cup {0} : Bounds(D)
  BY DEF Averaged
<1>3. logpc' # "idle" => i' <= CountNow'
  <2> SUFFICES ASSUME logpc # "idle"
               PROVE  i <= CountNow'
    BY <1>1 DEF logVars
  <2>0. i \in Nat /\ seen \in Nat /\ count \in Nat /\ RINGBUFFERS \in Nat
    BY RingAssumption DEF IInv, TypeOK
  <2>1. i <= CountNow
    BY DEF Averaged
  <2>2. count' \in Nat /\ count <= count'
    <3>1. ~ClearRing(t)
      BY DEF ClearRing, IInv, TypeOK, ClearedOnce, Honest
    <3>2. CASE RaiseCount(t)
      BY <2>0, <3>2 DEF RaiseCount
    <3>3. CASE ~RaiseCount(t)
      BY <2>0, <3>1, <3>3 DEF Enter, stats_worker_time, TestInit, SetInit, RecordLock, StoreVal,
         AdvanceIndex, ringVars
    <3> QED
      BY <3>2, <3>3
  <2> QED
    BY <1>1, <2>0, <2>1, <2>2 DEF CountNow, logVars
<1>4. CASE StoreVal(t)
  <2>1. dur[t] \in Durations /\ val \in [Slots -> Int] /\ index \in Slots
    BY <1>4 DEF StoreVal, At, IInv, Measured, TypeOK
  <2>2. PICK E \in Durations \cup {0} : D <= E /\ dur[t] <= E
    BY <2>1, BoundIsInt
  <2>3. D \in Nat /\ E \in Nat /\ 0 <= dur[t] /\ dur[t] \in Int
    BY <2>1, BoundIsInt DEF Honest
  <2>4. \A s \in Slots : 0 <= val'[s] /\ val'[s] <= E
    <3>1. val' = [val EXCEPT ![index] = dur[t]]
      BY <1>4 DEF StoreVal
    <3>2. \A s \in Slots : val[s] \in Int /\ 0 <= val[s] /\ val[s] <= D
      BY <1>2, <2>1 DEF Bounds
    <3> QED
      BY <2>1, <2>2, <2>3, <3>1, <3>2
  <2>5. logpc' # "idle" => 0 <= sum' /\ sum' <= i' * E
    <3>1. i \in Nat /\ sum \in Nat
      BY WidthAssumption DEF IInv, TypeOK
    <3>2. i * D \in Nat /\ i * E \in Nat /\ i * D <= i * E
      BY <2>2, <2>3, <3>1, TimesGrows
    <3>3. logpc # "idle" => sum <= i * D
      BY <1>2 DEF Bounds
    <3> QED
      BY <1>1, <3>1, <3>2, <3>3 DEF logVars
  <2>6. logged' # None => 0 <= logged' /\ logged' <= E
    BY <1>1, <1>2, <2>2, <2>3 DEF logVars, Bounds, IInv, TypeOK
  <2>7. Bounds(E)'
    BY <2>4, <2>5, <2>6 DEF Bounds
  <2> QED
    BY <1>3, <2>7 DEF Averaged
<1>5. CASE ~StoreVal(t)
  <2>1. val' = val \/ val' = [s \in Slots |-> 0]
    BY <1>5 DEF Enter, stats_worker_time, TestInit, ClearRing, SetInit, RecordLock, RaiseCount,
       AdvanceIndex, ringVars
  <2>2. D \in Nat
    BY BoundIsInt DEF Honest
  <2>3. Bounds(D)'
    BY <1>1, <1>2, <2>1, <2>2 DEF Bounds, logVars
  <2> QED
    BY <1>3, <2>3 DEF Averaged
<1> QED
  BY <1>4, <1>5

(* The sum of the samples read, and then their mean, stay in bounds.       *)
LEMMA LoggerAverages ==
  ASSUME IInv, Averaged, Honest, ring_average
  PROVE  Averaged'
<1>1. /\ UNCHANGED ringVars /\ rereads' = rereads
  BY DEF ring_average, AverageOfNone, AverageStart, AverageAdd, AverageLoopEnd, AverageDivide,
         recorderUnchanged
<1>2. PICK D \in Durations \cup {0} : Bounds(D)
  BY DEF Averaged
<1>3. /\ D \in Nat /\ 2 * D < IntMod
      /\ i \in Nat /\ sum \in Nat /\ seen \in Nat /\ count \in Nat
      /\ SumMod \in Nat \ {0}
  BY BoundIsInt, WidthAssumption, RingAssumption DEF IInv, TypeOK, Honest
<1>4. CASE AverageOfNone
  <2>1. Bounds(D)'
    BY <1>1, <1>2, <1>3, <1>4 DEF AverageOfNone, Bounds, ringVars
  <2>2. logpc' = "idle"
    BY <1>4 DEF AverageOfNone
  <2> QED
    BY <2>1, <2>2 DEF Averaged
<1>5. CASE AverageStart
  <2>1. i' * D = 0 /\ sum' = 0 /\ i' = 0
    BY <1>3, <1>5 DEF AverageStart
  <2>2. Bounds(D)'
    BY <1>1, <1>2, <1>3, <1>5, <2>1 DEF AverageStart, Bounds, ringVars
  <2>3. i' <= CountNow'
    BY <1>1, <1>3, <1>5, <2>1 DEF AverageStart, CountNow, ringVars
  <2> QED
    BY <2>2, <2>3 DEF Averaged
<1>6. CASE AverageAdd
  <2>1. i < CountNow /\ CountNow <= RINGBUFFERS /\ CountNow \in Nat /\ i' = i + 1
    BY <1>6, RingAssumption DEF AverageAdd, CountNow, IInv, TypeOK
  <2>2. i \in Slots /\ val[i] \in Nat /\ val[i] <= D
    <3>1. i \in Slots
      BY <1>3, <2>1, RingAssumption DEF Slots
    <3>2. val[i] \in Int
      BY <3>1 DEF IInv, TypeOK
    <3> QED
      BY <1>2, <3>1, <3>2 DEF Bounds
  <2>3. sum <= i * D
    BY <1>2, <1>6 DEF AverageAdd, Bounds
  <2>4. i * D \in Nat /\ (i + 1) * D = i * D + D
    BY <1>3, TimesGrows
  <2>5. sum' \in Nat /\ sum' <= (i + 1) * D
    <3>1. sum' = (sum + val[i]) % SumMod
      BY <1>6 DEF AverageAdd
    <3>2. sum + val[i] \in Nat
      BY <1>3, <2>2
    <3>3. sum' \in Nat /\ sum' <= sum + val[i]
      BY <1>3, <3>1, <3>2, ModIsLess
    <3> QED
      BY <1>3, <2>2, <2>3, <2>4, <3>3
  <2>6. Bounds(D)'
    BY <1>1, <1>2, <1>6, <2>1, <2>5 DEF AverageAdd, Bounds, ringVars
  <2>7. i' <= CountNow'
    BY <1>1, <1>3, <1>6, <2>1 DEF AverageAdd, CountNow, ringVars
  <2> QED
    BY <2>6, <2>7 DEF Averaged
<1>7. CASE AverageLoopEnd
  <2>1. Bounds(D)'
    BY <1>1, <1>2, <1>7 DEF AverageLoopEnd, Bounds, ringVars
  <2>2. i' <= CountNow'
    BY <1>1, <1>7 DEF AverageLoopEnd, CountNow, ringVars, Averaged
  <2> QED
    BY <2>1, <2>2 DEF Averaged
<1>8. CASE AverageDivide
  <2>1. CountNow \in Nat \ {0} /\ i <= CountNow /\ sum <= i * D
    BY <1>2, <1>3, <1>8 DEF AverageDivide, CountNow, IInv, ClearedOnce, Honest, Averaged, Bounds
  <2>2. sum <= CountNow * D
    <3>1. i * D \in Nat /\ CountNow * D \in Nat /\ i * D <= CountNow * D
      BY <1>3, <2>1
    <3> QED
      BY <1>3, <2>1, <3>1
  <2>3. sum \div CountNow \in Nat /\ sum \div CountNow <= D
    BY <1>3, <2>1, <2>2, MeanIsWithin
  <2>4. 0 <= AsInt(sum \div CountNow) /\ AsInt(sum \div CountNow) <= D
    BY <1>3, <2>3, AsIntWithin
  <2>5. Bounds(D)' /\ logpc' = "idle"
    BY <1>1, <1>2, <1>8, <2>1, <2>4 DEF AverageDivide, Bounds, ringVars
  <2> QED
    BY <2>5 DEF Averaged
<1> QED
  BY <1>4, <1>5, <1>6, <1>7, <1>8 DEF ring_average

LEMMA AveragedNext == IInv /\ Averaged /\ [Next]_vars => Averaged'
<1> SUFFICES ASSUME IInv, Averaged, [Next]_vars
             PROVE  Averaged'
  OBVIOUS
<1>1. Honest' => Honest
  BY DEF Next, Enter, stats_worker_time, TestInit, ClearRing, SetInit, RecordLock, StoreVal,
         RaiseCount, AdvanceIndex, ring_average, AverageOfNone, AverageStart, AverageAdd,
         AverageLoopEnd, AverageDivide, recorderUnchanged, recVars, Ended, vars, Honest, IInv, TypeOK
<1>2. CASE ~Honest'
  BY <1>2 DEF Averaged
<1> SUFFICES ASSUME Honest'
             PROVE  Averaged'
  BY <1>2
<1>3. CASE UNCHANGED vars
  <2>1. PICK D \in Durations \cup {0} : Bounds(D)
    BY <1>1 DEF Averaged
  <2>2. Bounds(D)'
    BY <1>3, <2>1 DEF vars, ringVars, logVars, Bounds
  <2> QED
    BY <1>1, <1>3, <2>2 DEF Averaged, vars, ringVars, logVars, fixedVars, CountNow
<1>4. CASE \E t \in Workers : Enter(t) \/ stats_worker_time(t)
  BY <1>1, <1>4, RecorderAverages
<1>5. CASE ring_average
  BY <1>1, <1>5, LoggerAverages
<1> QED
  BY <1>3, <1>4, <1>5 DEF Next, Ended

(* Until the ring is cleared a second time, and with clocks that do not go *)
(* back, the average that is logged is no longer than the longest request, *)
(* whatever is recorded while ring_average runs, and by however many.      *)
THEOREM AverageIsWithin == Spec => []AverageWithin
<1>1. IInv /\ Averaged => AverageWithin
  BY DurationsInt DEF Averaged, Bounds, Honest, AverageWithin, IInv, TypeOK
<1>2. Spec => []Averaged
  BY AveragedInit, AveragedNext, Invariant, PTL DEF Spec
<1> QED
  BY <1>1, <1>2, Invariant, PTL

-----------------------------------------------------------------------------
(*                              The window                                 *)
(*                                                                         *)
(* Whoever is between the two calls on the mutex holds it, so at most one  *)
(* sample is being stored, and none while the ring is cleared.             *)

Storers == {t \in Workers : pc[t] \in {"store", "count", "index"}}

Exclusive == \A t \in Storers : lock = t

LEMMA ExclusiveNext ==
  ASSUME IInv, Exclusive, [Next]_vars
  PROVE  Exclusive'
<1>0. pc \in [Workers -> RecorderPCs] /\ None \notin Workers
  BY WorkersAssumption DEF IInv, TypeOK
<1>1. CASE \E t \in Workers : Enter(t) \/ TestInit(t) \/ ClearRing(t) \/ SetInit(t)
  BY <1>0, <1>1 DEF Enter, TestInit, ClearRing, SetInit, Goto, Exclusive, Storers
<1>2. CASE \E t \in Workers : RecordLock(t) \/ StoreVal(t) \/ RaiseCount(t) \/ AdvanceIndex(t)
  BY <1>0, <1>2 DEF RecordLock, StoreVal, RaiseCount, AdvanceIndex, At, Goto, Exclusive, Storers
<1>3. CASE ring_average \/ UNCHANGED vars
  BY <1>3 DEF ring_average, AverageOfNone, AverageStart, AverageAdd, AverageLoopEnd,
         AverageDivide, recorderUnchanged, vars, recVars, Exclusive, Storers
<1> QED
  BY <1>1, <1>2, <1>3 DEF Next, Ended, stats_worker_time

(* What the index and the places before it are, modulo the size of a ring. *)
LEMMA ModNear ==
  ASSUME NEW n \in Int, NEW m \in Nat \ {0}, -m <= n, n <= m
  PROVE  n % m = IF n < 0 THEN n + m ELSE IF n = m THEN 0 ELSE n
OBVIOUS

\* The place of the k-th of c samples, when the next one goes to x.
Place(x, c, k) == (x - c + k - 1) % RINGBUFFERS

LEMMA PlaceIs ==
  ASSUME NEW x \in Slots, NEW c \in 0..RINGBUFFERS, NEW k \in 1..(c + 1)
  PROVE  /\ Place(x, c, k) = IF x - c + k - 1 < 0 THEN x - c + k - 1 + RINGBUFFERS
                                                  ELSE x - c + k - 1
         /\ Place(x, c, k) \in Slots
<1>1. x - c + k - 1 \in Int /\ -RINGBUFFERS <= x - c + k - 1 /\ x - c + k - 1 < RINGBUFFERS
  BY RingAssumption DEF Slots
<1>2. Place(x, c, k) = IF x - c + k - 1 < 0 THEN x - c + k - 1 + RINGBUFFERS
                       ELSE IF x - c + k - 1 = RINGBUFFERS THEN 0 ELSE x - c + k - 1
  BY <1>1, ModNear, RingAssumption DEF Place
<1> QED
  BY <1>1, <1>2, RingAssumption DEF Slots

LEMMA WindowIs ==
  /\ Window = [k \in 1..WinCount |-> val[Place(WinIndex, WinCount, k)]]
  /\ Window' = [k \in 1..WinCount' |-> val'[Place(WinIndex', WinCount', k)]]
BY DEF Window, Place

LEMMA NextIndex ==
  ASSUME NEW x \in Slots
  PROVE  (x + 1) % RINGBUFFERS = IF x + 1 = RINGBUFFERS THEN 0 ELSE x + 1
<1>1. /\ x + 1 \in Int /\ -RINGBUFFERS <= x + 1 /\ x + 1 <= RINGBUFFERS /\ ~(x + 1 < 0)
      /\ RINGBUFFERS \in Nat \ {0}
  BY RingAssumption DEF Slots
<1> DEFINE n == x + 1
<1> HIDE DEF n
<1>2. n % RINGBUFFERS = IF n < 0 THEN n + RINGBUFFERS ELSE IF n = RINGBUFFERS THEN 0 ELSE n
  BY <1>1, ModNear DEF n
<1> QED
  BY <1>1, <1>2 DEF n

(* The samples of the window, between two calls.                           *)
LEMMA WindowType ==
  ASSUME NEW c \in 0..RINGBUFFERS, NEW x \in Slots, val \in [Slots -> Int],
         NEW w, w = [k \in 1..c |-> val[Place(x, c, k)]]
  PROVE  w \in Seq(Int) /\ Len(w) = c
<1>1. c \in Nat /\ \A k \in 1..c : k \in 1..(c + 1)
  BY RingAssumption
<1>2. \A k \in 1..c : Place(x, c, k) \in Slots
  BY <1>1, PlaceIs
<1>3. \A k \in 1..c : val[Place(x, c, k)] \in Int
  BY <1>2
<1> QED
  BY <1>1, <1>3

(* The sample that is stored is the newest in the window, and in a full    *)
(* ring it takes the place of the oldest.                                  *)
LEMMA StoreRecords ==
  ASSUME IInv, Exclusive, NEW t \in Workers, StoreVal(t)
  PROVE  Ring!Record
<1> DEFINE c == count
           x == index
           d == dur[t]
           a == Append(Window, d)
           b == IF c < RINGBUFFERS THEN c + 1 ELSE c
           y == (x + 1) % RINGBUFFERS
<1>0. /\ c \in 0..RINGBUFFERS /\ x \in Slots /\ val \in [Slots -> Int] /\ RINGBUFFERS \in Nat \ {0}
      /\ pc \in [Workers -> RecorderPCs]
  BY RingAssumption DEF IInv, TypeOK
<1>1. d \in Durations /\ d \in Int
  BY DurationsInt DEF StoreVal, At, IInv, Measured
<1>2. /\ pc[t] = "store" /\ pc' = [pc EXCEPT ![t] = "count"]
      /\ val' = [val EXCEPT ![x] = d] /\ count' = c /\ index' = x
  BY DEF StoreVal, At, Goto
<1>3. ~Stored /\ ~Storing
  BY <1>2 DEF Exclusive, Storers, Stored, Storing
<1>4. Stored' /\ (Stored \/ Storing)'
  BY <1>0, <1>2 DEF Stored
<1>5. Window = [k \in 1..c |-> val[Place(x, c, k)]]
  BY <1>3, WindowIs DEF WinCount, WinIndex
<1>6. Window' = [k \in 1..b |-> val'[Place(y, b, k)]]
  <2>1. WinCount' = b /\ WinIndex' = y
    BY <1>2, <1>4 DEF WinCount, WinIndex
  <2> QED
    BY <2>1, WindowIs
<1>7. y = IF x + 1 = RINGBUFFERS THEN 0 ELSE x + 1
  BY <1>0, NextIndex
<1>8. y \in Slots /\ b \in 1..RINGBUFFERS /\ b <= c + 1 /\ c <= b /\ c \in Nat /\ b \in Nat
  BY <1>0, <1>7 DEF Slots
<1>9. val' \in [Slots -> Int] /\ val'[x] = d /\ \A s \in Slots \ {x} : val'[s] = val[s]
  BY <1>0, <1>1, <1>2
<1>10. Window \in Seq(Int) /\ Len(Window) = c /\ \A k \in 1..c : Window[k] = val[Place(x, c, k)]
  BY <1>0, <1>5, WindowType
<1>11. /\ a \in Seq(Int) /\ Len(a) = c + 1 /\ a[c + 1] = d
       /\ \A k \in 1..c : a[k] = val[Place(x, c, k)]
  BY <1>1, <1>10
<1>12. Window' \in Seq(Int) /\ Len(Window') = b /\ \A k \in 1..b : Window'[k] = val'[Place(y, b, k)]
  <2>1. \A k \in 1..b : Place(y, b, k) \in Slots
    BY <1>8, PlaceIs
  <2>2. \A k \in 1..b : val'[Place(y, b, k)] \in Int
    BY <1>9, <2>1
  <2> QED
    BY <1>6, <1>8, <2>2
<1> HIDE DEF y, b, a, d
<1>13. ASSUME NEW k \in 1..b
       PROVE  Window'[k] = a[k + (c + 1 - b)]
  <2> DEFINE j == k + (c + 1 - b)
  <2>0. /\ j \in 1..(c + 1) /\ (k = b <=> j = c + 1) /\ k \in 1..(b + 1) /\ k \in Nat
        /\ j = k + (c + 1 - b) /\ (c = RINGBUFFERS => j > 1)
    BY <1>0, <1>8 DEF b
  <2> HIDE DEF j
  <2>1. Place(y, b, k) = Place(x, c, j)
    <3>1. Place(y, b, k) = IF y - b + k - 1 < 0 THEN y - b + k - 1 + RINGBUFFERS
                                               ELSE y - b + k - 1
      BY <1>0, <1>8, <2>0, PlaceIs
    <3>2. Place(x, c, j) = IF x - c + j - 1 < 0 THEN x - c + j - 1 + RINGBUFFERS
                                               ELSE x - c + j - 1
      BY <1>0, <2>0, PlaceIs
    <3>3. x - c + j - 1 = x - b + k
      BY <1>0, <1>8, <2>0 DEF Slots
    <3>4. x + 1 - b + k - 1 = x - b + k
      BY <1>0, <1>8, <2>0 DEF Slots
    <3>5. CASE x + 1 # RINGBUFFERS
      BY <1>0, <1>7, <1>8, <2>0, <3>1, <3>2, <3>3, <3>5 DEF Slots
    <3>6. CASE x + 1 = RINGBUFFERS
      <4>1. y = 0 /\ x = RINGBUFFERS - 1
        BY <1>0, <1>7, <3>6 DEF Slots
      <4>2. y - b + k - 1 < 0 /\ x - b + k >= 0
        BY <1>0, <1>8, <2>0, <4>1 DEF Slots
      <4>3. y - b + k - 1 + RINGBUFFERS = x - b + k
        BY <1>0, <1>8, <2>0, <4>1
      <4> QED
        BY <3>1, <3>2, <3>3, <4>2, <4>3, <1>0, <1>8, <2>0 DEF Slots
    <3> QED
      BY <3>5, <3>6
  <2>2. CASE j = c + 1
    <3>1. Place(x, c, j) = x
      BY <1>0, <1>8, <2>2, PlaceIs DEF Slots
    <3> QED
      BY <1>9, <1>11, <1>12, <2>0, <2>1, <2>2, <3>1
  <2>3. CASE j # c + 1
    <3>1. j \in 1..c
      BY <1>8, <2>0, <2>3
    <3>2. Place(x, c, j) # x /\ Place(x, c, j) \in Slots
      <4>1. c <= RINGBUFFERS /\ 1 <= j /\ j <= c /\ (c = RINGBUFFERS => j > 1)
        BY <1>0, <2>0, <3>1
      <4>2. Place(x, c, j) = IF x - c + j - 1 < 0 THEN x - c + j - 1 + RINGBUFFERS
                                                 ELSE x - c + j - 1
        BY <1>0, <2>0, PlaceIs
      <4>3. Place(x, c, j) \in Slots
        BY <1>0, <2>0, PlaceIs
      <4>4. x \in Int /\ c \in Int /\ j \in Int /\ RINGBUFFERS \in Int
        BY <1>0, <2>0, <3>1, RingAssumption DEF Slots
      <4>5. x - c + j - 1 # x
        BY <4>1, <4>4
      <4>6. x - c + j - 1 + RINGBUFFERS # x
        BY <4>1, <4>4
      <4> QED
        BY <4>2, <4>3, <4>5, <4>6
    <3>3. Window'[k] = val'[Place(x, c, j)]
      BY <1>12, <2>1
    <3>4. val'[Place(x, c, j)] = val[Place(x, c, j)]
      BY <1>9, <3>2
    <3>5. a[j] = val[Place(x, c, j)]
      BY <1>11, <3>1
    <3> QED
      BY <2>0, <3>3, <3>4, <3>5
  <2> QED
    BY <2>2, <2>3
<1>14. Window' = SubSeq(a, IF Len(a) > RINGBUFFERS THEN 2 ELSE 1, Len(a))
  <2> DEFINE f == IF Len(a) > RINGBUFFERS THEN 2 ELSE 1
  <2>1. f = c + 2 - b /\ f \in Int
    BY <1>0, <1>11 DEF b
  <2>2. \A k \in f..Len(a) : a[k] \in Int
    BY <1>8, <1>11, <2>1
  <2>3. /\ SubSeq(a, f, Len(a)) \in Seq(Int)
        /\ Len(SubSeq(a, f, Len(a))) = IF f <= Len(a) THEN Len(a) - f + 1 ELSE 0
        /\ \A k \in 1..(Len(a) - f + 1) : SubSeq(a, f, Len(a))[k] = a[f + k - 1]
    BY <1>8, <1>11, <2>1, <2>2, SubSeqProperties
  <2> HIDE DEF f
  <2>4. Len(SubSeq(a, f, Len(a))) = b /\ \A k \in 1..b : SubSeq(a, f, Len(a))[k] = a[k + (c + 1 - b)]
    <3>1. Len(a) - f + 1 = b /\ f <= Len(a)
      BY <1>8, <1>11, <2>1
    <3>2. \A k \in 1..b : f + k - 1 = k + (c + 1 - b)
      BY <1>8, <2>1
    <3> QED
      BY <2>3, <3>1, <3>2
  <2>5. Window' = SubSeq(a, f, Len(a))
    <3> DEFINE u == SubSeq(a, f, Len(a))
               w == Window'
    <3>1. /\ u \in Seq(Int) /\ w \in Seq(Int) /\ Len(w) = Len(u)
          /\ \A k \in 1..Len(w) : w[k] = u[k]
      BY <1>12, <1>13, <2>3, <2>4
    <3> HIDE DEF u, w
    <3>2. w = u
      BY <3>1, SeqEqual
    <3> QED
      BY <3>2 DEF u, w
  <2> QED
    BY <2>5 DEF f
<1> QED
  BY <1>1, <1>14 DEF Ring!Record, Ring!Newest, a, d

LEMMA WindowStays ==
  ASSUME WinCount' = WinCount, WinIndex' = WinIndex, val' = val
  PROVE  Window' = Window
BY WindowIs

(* The count and then the index follow; the window has the sample already. *)
LEMMA OthersStutter ==
  ASSUME IInv, Exclusive, [Next]_vars, ~ \E t \in Workers : ClearRing(t) \/ StoreVal(t)
  PROVE  Window' = Window
<1>0. pc \in [Workers -> RecorderPCs]
  BY DEF IInv, TypeOK
<1>1. CASE \E t \in Workers : Enter(t) \/ TestInit(t) \/ SetInit(t) \/ RecordLock(t)
  <2>1. Stored' = Stored /\ Storing' = Storing
    BY <1>0, <1>1 DEF Enter, TestInit, SetInit, RecordLock, At, Goto, Stored, Storing
  <2>2. UNCHANGED ringVars
    BY <1>1 DEF Enter, TestInit, SetInit, RecordLock
  <2> QED
    BY <2>1, <2>2, WindowStays DEF WinCount, WinIndex, ringVars
<1>2. CASE \E t \in Workers : RaiseCount(t)
  <2>1. PICK t \in Workers : RaiseCount(t)
    BY <1>2
  <2>2. pc[t] = "count" /\ pc' = [pc EXCEPT ![t] = "index"]
    BY <2>1 DEF RaiseCount, At, Goto
  <2>3. \A u \in Workers \ {t} : pc[u] \notin {"count", "index"}
    BY <2>2 DEF Exclusive, Storers
  <2>4. Stored /\ ~Storing /\ ~Stored' /\ Storing'
    BY <1>0, <2>2, <2>3 DEF Stored, Storing
  <2>5. /\ count' = IF count < RINGBUFFERS THEN count + 1 ELSE count
        /\ index' = index /\ val' = val
    BY <2>1 DEF RaiseCount
  <2> QED
    BY <2>4, <2>5, WindowStays DEF WinCount, WinIndex
<1>3. CASE \E t \in Workers : AdvanceIndex(t)
  <2>1. PICK t \in Workers : AdvanceIndex(t)
    BY <1>3
  <2>2. pc[t] = "index" /\ pc' = [pc EXCEPT ![t] = "done"]
    BY <2>1 DEF AdvanceIndex, At, Goto
  <2>3. \A u \in Workers \ {t} : pc[u] \notin {"count", "index"}
    BY <2>2 DEF Exclusive, Storers
  <2>4. ~Stored /\ Storing /\ ~Stored' /\ ~Storing'
    BY <1>0, <2>2, <2>3 DEF Stored, Storing
  <2>5. index' = (index + 1) % RINGBUFFERS /\ count' = count /\ val' = val
    BY <2>1 DEF AdvanceIndex
  <2> QED
    BY <2>4, <2>5, WindowStays DEF WinCount, WinIndex
<1>4. CASE ring_average \/ UNCHANGED vars
  <2>1. UNCHANGED <<pc, ringVars>>
    BY <1>4 DEF ring_average, AverageOfNone, AverageStart, AverageAdd, AverageLoopEnd,
           AverageDivide, recorderUnchanged, vars, recVars
  <2> QED
    BY <2>1, WindowStays DEF WinCount, WinIndex, Stored, Storing, ringVars
<1> QED
  BY <1>1, <1>2, <1>3, <1>4 DEF Next, Ended, stats_worker_time

(* However many workers record at once, the ring is at every moment the    *)
(* window over the newest samples: no sample is lost, stored twice or out  *)
(* of order, but for those that a late memset clears.                      *)
THEOREM RingIsWindow == Spec => ImplementsSampleWindow
<1>1. Init => Ring!Init
  <2> SUFFICES ASSUME Init PROVE Window = <<>>
    BY DEF Ring!Init
  <2>1. WinCount = 0
    BY DEF Init, WinCount, Stored
  <2> QED
    BY <2>1 DEF Window
<1>2. Init => Exclusive
  BY DEF Init, Exclusive, Storers
<1>3. IInv /\ Exclusive /\ [Next]_vars => Exclusive'
  BY ExclusiveNext
<1>4. IInv /\ Exclusive /\ [Next]_vars => [Ring!Next]_Window
  <2> SUFFICES ASSUME IInv, Exclusive, [Next]_vars
               PROVE  Ring!Next \/ Window' = Window
    OBVIOUS
  <2>1. CASE \E t \in Workers : StoreVal(t)
    BY <2>1, StoreRecords DEF Ring!Next
  <2>2. CASE \E t \in Workers : ClearRing(t)
    <3>1. PICK t \in Workers : ClearRing(t)
      BY <2>2
    <3>2. lock = None /\ None \notin Workers /\ pc' = [pc EXCEPT ![t] = "setinit"] /\ count' = 0
      BY <3>1, WorkersAssumption DEF ClearRing, Goto
    <3>3. ~Stored'
      BY <3>2 DEF Exclusive, Storers, Stored, IInv, TypeOK
    <3>4. WinCount' = 0
      BY <3>2, <3>3 DEF WinCount
    <3>5. Window' = [k \in 1..0 |-> val'[Place(WinIndex', 0, k)]]
      BY <3>4, WindowIs
    <3>6. Window' = <<>>
      BY <3>5
    <3> QED
      BY <3>6 DEF Ring!Next, Ring!Clear
  <2>3. CASE ~ \E t \in Workers : ClearRing(t) \/ StoreVal(t)
    BY <2>3, OthersStutter
  <2> QED
    BY <2>1, <2>2, <2>3
<1> QED
  BY <1>1, <1>2, <1>3, <1>4, Invariant, PTL DEF Spec, ImplementsSampleWindow, Ring!Spec
=============================================================================
