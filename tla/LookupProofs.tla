---------------------------- MODULE LookupProofs ----------------------------
(***************************************************************************)
(* The safety of the fork and join inside a worker for every number of     *)
(* RBLs, all weights and thresholds and every set of faults.               *)
(*                                                                         *)
(* The inductive invariant says who holds the mutex on the worker's stack  *)
(* and who the lock of the manager, how far the worker has got with its    *)
(* resdata, that the counter counts the solvers that have not answered,    *)
(* and that after the join nobody is left who could use the stack. With    *)
(* what the worker has collected so far (RInv) it gives the refinement of  *)
(* PolicyRequest, by one lemma per process.                                *)
(***************************************************************************)
EXTENDS Lookup, Sums, ThrMgrProofs

\* Where the worker is inside the loop that starts the solvers, and where it
\* is when the join is behind it.
Forking == {"create", "spawn", "register", "created"}
Joined  == {"collect", "answer", "close", "done"}

\* The RBLs whose solver the worker has counted, started and registered.
Counted(t)    == t <= resdata_cnt \/ (t = resdata_cnt + 1 /\ wpc \in Forking)
Started(t)    == t <= resdata_cnt \/ (t = resdata_cnt + 1 /\ wpc \in {"register", "created"})
Registered(t) == t <= resdata_cnt \/ (t = resdata_cnt + 1 /\ wpc = "created")

LockHeld == SearchersHold /\ (wpc \in {"spawn", "register"} => lock = Creator)

MutexHeld ==
  /\ wpc \in Forking \cup {"join", "collect"} => resolvers_ = Worker
  /\ \A t \in Threads : pc[t] \in {"count", "signal", "unlock"} => resolvers_ = t

Numbered ==
  /\ wpc \in Forking => resdata_cnt < MaxTid
  /\ \A t \in Threads : Started(t) \/ pc[t] = "none"
  /\ \A t \in Known : Registered(t)

Accounted ==
  \A t \in Threads :
    pc[t] \in {"resolve", "lock", "count", "signal", "unlock", "unreg", "search"} =>
      t \in Known \/ (wpc = "register" /\ t = resdata_cnt + 1)

Progress ==
  /\ \A t \in Threads : resdata[t] = "freed" <=> t <= collected
  /\ \A t \in Threads : resdata[t] = "none" <=> ~Counted(t)
  /\ collected <= resdata_cnt
  /\ wpc \notin Joined => collected = 0 /\ score = 0 /\ res_ready = "live"
  /\ wpc \in {"join", "wait", "woken"} => resdata_cnt = MaxTid
  /\ wpc = "collect" => ~err
  /\ wpc = "read" \/ err => resdata_cnt = 0
  /\ err => wpc \in {"answer", "close", "done"}
  /\ ~err /\ wpc \in Joined => Unanswered = {} /\ Attached = {}

PeakSeen == cancel = {} => nthreads <= max_solvers

IInv ==
  /\ TypeOK /\ ManagerInv
  /\ LockHeld /\ MutexHeld /\ Numbered /\ Accounted /\ Progress
  /\ ResolversCounted /\ NoLostWakeup /\ PeakSeen
-----------------------------------------------------------------------------
(* The values that lock, resolvers_ and the links take differ.             *)
LEMMA Apart ==
  /\ Worker \notin Threads /\ Creator \notin Threads /\ Nobody \notin Threads
  /\ NULL \notin Threads /\ Worker # Nobody /\ Creator # Nobody
  /\ MaxTid \in Nat /\ \A t \in Threads : t \in Nat /\ t # 0 /\ t <= MaxTid
BY MaxTidAssumption DEF Worker, Creator, Nobody, NULL, Threads

(* The number of the next RBL is that of a thread.                         *)
LEMMA NextRbl ==
  ASSUME TypeOK, resdata_cnt < MaxTid
  PROVE  resdata_cnt + 1 \in Threads
BY MaxTidAssumption DEF TypeOK, Threads

(* A weight is a score.                                                    *)
LEMMA WeightIsNat == \A t \in Threads : Weight[t] \in Nat
BY WeightAssumption

(* The pending solvers can be counted.                                     *)
LEMMA PendingFinite == IsFiniteSet(Pending) /\ Cardinality(Pending) \in Nat
<1>1. IsFiniteSet(Threads)
  BY FS_Interval, MaxTidAssumption DEF Threads
<1>2. Pending \in SUBSET Threads
  BY DEF Pending, Unanswered
<1> QED
  BY <1>1, <1>2, FS_Subset, FS_CardinalityType

(* The worker waits for a solver that still uses its stack.                *)
LEMMA Waits ==
  ASSUME IInv, NEW t \in Attached
  PROVE  /\ wpc \notin Joined /\ ~err /\ wpc # "read"
         /\ resdata[t] = "live" /\ res_ready = "live"
<1>1. t \in Threads /\ Counted(t) /\ (resdata_cnt # 0 \/ wpc \in Forking)
  BY Apart DEF IInv, TypeOK, Attached, Numbered, Started, Counted, Forking
<1>2. wpc \notin Joined /\ ~err
  BY <1>1 DEF IInv, Progress, Joined, Forking
<1> QED
  BY <1>1, <1>2, Apart DEF IInv, TypeOK, Progress, Joined, Forking, Counted

-----------------------------------------------------------------------------
(* The steps of the worker keep the invariant.                             *)
LEMMA WorkerKeeps ==
  ASSUME IInv, WorkerStep \/ SpuriousWakeup
  PROVE  IInv'
<1>1. CASE ReadRequest
  <2>1. ManagerInv'
    BY <1>1, Apart, ManagerFrame
       DEF ReadRequest, IInv, ManagerInv, MgrTypeOK, mgrVars, thrVars, listVars
  <2>2. (TypeOK /\ LockHeld /\ MutexHeld)'
    BY <1>1, <2>1, Apart
       DEF ReadRequest, IInv, ManagerInv, TypeOK, LockHeld, SearchersHold, MutexHeld, MoreRbls,
           Numbered, Progress, At, Goto, Forking, Joined, Counted, Started, Registered, Known,
           Attached, Unanswered, WorkerPCs, SolverPCs, ExitPCs, mgrVars, listVars, thrVars,
           syncVars, dataVars, accVars, statVars
  <2>3. (Numbered /\ Accounted)'
    BY <1>1, <2>1, Apart
       DEF ReadRequest, IInv, ManagerInv, TypeOK, Numbered, Accounted, MoreRbls, At, Goto,
           Forking, Joined, Counted, Started, Registered, Known, Attached, Unanswered,
           WorkerPCs, SolverPCs, ExitPCs, mgrVars, listVars, thrVars, syncVars, dataVars,
           accVars, statVars
  <2>4. (Progress /\ NoLostWakeup /\ PeakSeen)'
    BY <1>1, <2>1, Apart
       DEF ReadRequest, IInv, ManagerInv, TypeOK, MutexHeld, Numbered, Progress, NoLostWakeup,
           PeakSeen, MoreRbls, At, Goto, Forking, Joined, Counted, Started, Registered, Known,
           Attached, Unanswered, WorkerPCs, SolverPCs, ExitPCs, mgrVars, listVars, thrVars,
           syncVars, dataVars, accVars, statVars
  <2>5. Pending' = Pending /\ resolvers' = resolvers
    BY <1>1 DEF ReadRequest, IInv, TypeOK, Progress, Numbered, Pending, At, Goto, Forking,
       Joined, Counted, Started, Registered, Known, Attached, Unanswered, WorkerPCs, SolverPCs,
       ExitPCs, mgrVars, listVars, thrVars, syncVars, dataVars, accVars, statVars
  <2>6. ResolversCounted'
    BY <2>5 DEF IInv, ResolversCounted
  <2> QED
    BY <2>1, <2>2, <2>3, <2>4, <2>6 DEF IInv
<1>2. CASE ForkLock
  <2> DEFINE t == resdata_cnt + 1
  <2>0. t \in Threads /\ ~Started(t) /\ ~Counted(t) /\ t \in Unanswered
    <3>1. t \in Threads /\ ~Started(t) /\ ~Counted(t)
      BY <1>2, NextRbl DEF ForkLock, At, MoreRbls, IInv, TypeOK, Started, Counted, Forking
    <3> QED
      BY <3>1 DEF IInv, Numbered, Unanswered
  <2>1. ManagerInv'
    BY <1>2, Apart, ManagerFrame
       DEF ForkLock, IInv, ManagerInv, MgrTypeOK, mgrVars, thrVars, listVars
  <2>2. TypeOK' /\ LockHeld' /\ MutexHeld'
    <3>t. UNCHANGED <<pc, proc, err, res_ready, resdata_cnt, accVars, statVars>>
      BY <1>2 DEF ForkLock, thrVars
    <3>d. resdata' \in [Threads -> {"none", "live", "freed"}]
      <4>1. resdata \in [Threads -> {"none", "live", "freed"}]
        BY DEF IInv, TypeOK
      <4>2. resdata' = [resdata EXCEPT ![t] = "live"]
        BY <1>2 DEF ForkLock
      <4> QED
        BY <2>0, <4>1, <4>2, Zenon
    <3>s. rscore' \in [Threads -> Nat]
      <4>1. rscore \in [Threads -> Nat] /\ 0 \in Nat
        BY DEF IInv, TypeOK
      <4>2. rscore' = [rscore EXCEPT ![t] = 0]
        BY <1>2 DEF ForkLock
      <4> QED
        BY <2>0, <4>1, <4>2, Zenon
    <3>r. /\ resolvers' \in Int /\ resolvers_' \in Threads \cup {Worker, Nobody}
          /\ wpc' \in WorkerPCs
      BY <1>2, <3>t DEF ForkLock, IInv, TypeOK, WorkerPCs
    <3>1. TypeOK'
      <4>1. /\ pc' \in [Threads -> SolverPCs] /\ proc' \in {"running", "crashed"}
            /\ err' \in BOOLEAN /\ res_ready' \in {"live", "destroyed"}
            /\ resdata_cnt' \in Nat /\ resdata_cnt' <= MaxTid
        BY <3>t DEF IInv, TypeOK
      <4>2. /\ collected' \in Nat /\ collected' <= MaxTid /\ score' \in Nat /\ reply' \in Seq(Threads)
            /\ questions' \in [Threads -> Nat] /\ positive' \in [Threads -> Nat]
            /\ num_solvers' \in Nat /\ now_solvers' \in Nat /\ max_solvers' \in Nat
        BY <3>t DEF IInv, TypeOK, accVars, statVars
      <4> QED
        BY <2>1, <3>d, <3>s, <3>r, <4>1, <4>2 DEF ManagerInv, TypeOK
    <3>2. LockHeld' /\ MutexHeld'
      BY <1>2, Apart
         DEF ForkLock, IInv, LockHeld, SearchersHold, MutexHeld, mgrVars, thrVars, Forking
    <3> QED
      BY <3>1, <3>2
  <2>3. (Numbered /\ Accounted)'
    BY <1>2, <2>1, Apart
       DEF ForkLock, IInv, ManagerInv, TypeOK, Numbered, Accounted, MoreRbls, At, Goto, Forking,
           Joined, Counted, Started, Registered, Known, Attached, Unanswered, WorkerPCs,
           SolverPCs, ExitPCs, mgrVars, listVars, thrVars, syncVars, dataVars, accVars, statVars
  <2>4. (Progress /\ NoLostWakeup /\ PeakSeen)'
    BY <1>2, <2>1, Apart
       DEF ForkLock, IInv, ManagerInv, TypeOK, MutexHeld, Numbered, Progress, NoLostWakeup,
           PeakSeen, MoreRbls, At, Goto, Forking, Joined, Counted, Started, Registered, Known,
           Attached, Unanswered, WorkerPCs, SolverPCs, ExitPCs, mgrVars, listVars, thrVars,
           syncVars, dataVars, accVars, statVars
  <2>5. Pending' = Pending \cup {t} /\ t \notin Pending /\ resolvers' = resolvers + 1
    <3>1. Unanswered' = Unanswered /\ resdata[t] # "live"
      BY <1>2, <2>0 DEF ForkLock, IInv, Progress, Unanswered, thrVars
    <3>2. /\ resdata' = [resdata EXCEPT ![t] = "live"] /\ resolvers' = resolvers + 1
          /\ resdata \in [Threads -> {"none", "live", "freed"}]
      BY <1>2 DEF ForkLock, IInv, TypeOK
    <3> QED
      BY <2>0, <3>1, <3>2 DEF Pending, Unanswered
  <2>6. ResolversCounted'
    BY <2>5, PendingFinite, FS_AddElement DEF IInv, ResolversCounted
  <2> QED
    BY <2>1, <2>2, <2>3, <2>4, <2>6 DEF IInv
<1>3. CASE CreateLock
  <2>1. ManagerInv'
    BY <1>3, Apart, ManagerFrame
       DEF CreateLock, IInv, ManagerInv, MgrTypeOK, mgrVars, thrVars, listVars
  <2>2. (TypeOK /\ LockHeld /\ MutexHeld)'
    BY <1>3, <2>1, Apart
       DEF CreateLock, IInv, ManagerInv, TypeOK, LockHeld, SearchersHold, MutexHeld, MoreRbls,
           Numbered, Progress, At, Goto, Forking, Joined, Counted, Started, Registered, Known,
           Attached, Unanswered, WorkerPCs, SolverPCs, ExitPCs, mgrVars, listVars, thrVars,
           syncVars, dataVars, accVars, statVars
  <2>3. (Numbered /\ Accounted)'
    BY <1>3, <2>1, Apart
       DEF CreateLock, IInv, ManagerInv, TypeOK, Numbered, Accounted, MoreRbls, At, Goto,
           Forking, Joined, Counted, Started, Registered, Known, Attached, Unanswered,
           WorkerPCs, SolverPCs, ExitPCs, mgrVars, listVars, thrVars, syncVars, dataVars,
           accVars, statVars
  <2>4. (Progress /\ NoLostWakeup /\ PeakSeen)'
    BY <1>3, <2>1, Apart
       DEF CreateLock, IInv, ManagerInv, TypeOK, MutexHeld, Numbered, Progress, NoLostWakeup,
           PeakSeen, MoreRbls, At, Goto, Forking, Joined, Counted, Started, Registered, Known,
           Attached, Unanswered, WorkerPCs, SolverPCs, ExitPCs, mgrVars, listVars, thrVars,
           syncVars, dataVars, accVars, statVars
  <2>5. Pending' = Pending /\ resolvers' = resolvers
    BY <1>3 DEF CreateLock, IInv, TypeOK, Progress, Numbered, Pending, At, Goto, Forking,
       Joined, Counted, Started, Registered, Known, Attached, Unanswered, WorkerPCs, SolverPCs,
       ExitPCs, mgrVars, listVars, thrVars, syncVars, dataVars, accVars, statVars
  <2>6. ResolversCounted'
    BY <2>5 DEF IInv, ResolversCounted
  <2> QED
    BY <2>1, <2>2, <2>3, <2>4, <2>6 DEF IInv
<1>4. CASE Spawn
  <2>1. ManagerInv'
    BY <1>4, Apart, ManagerFrame
       DEF Spawn, IInv, ManagerInv, MgrTypeOK, mgrVars, thrVars, listVars
  <2>2. (TypeOK /\ LockHeld /\ MutexHeld)'
    BY <1>4, <2>1, Apart
       DEF Spawn, IInv, ManagerInv, TypeOK, LockHeld, SearchersHold, MutexHeld, MoreRbls,
           Numbered, Progress, At, Goto, Forking, Joined, Counted, Started, Registered, Known,
           Attached, Unanswered, WorkerPCs, SolverPCs, ExitPCs, mgrVars, listVars, thrVars,
           syncVars, dataVars, accVars, statVars
  <2>3. (Numbered /\ Accounted)'
    BY <1>4, <2>1, Apart
       DEF Spawn, IInv, ManagerInv, TypeOK, Numbered, Accounted, MoreRbls, At, Goto, Forking,
           Joined, Counted, Started, Registered, Known, Attached, Unanswered, WorkerPCs,
           SolverPCs, ExitPCs, mgrVars, listVars, thrVars, syncVars, dataVars, accVars, statVars
  <2>4. (Progress /\ NoLostWakeup /\ PeakSeen)'
    BY <1>4, <2>1, Apart
       DEF Spawn, IInv, ManagerInv, TypeOK, MutexHeld, Numbered, Progress, NoLostWakeup, PeakSeen,
           MoreRbls, At, Goto, Forking, Joined, Counted, Started, Registered, Known, Attached,
              Unanswered, WorkerPCs, SolverPCs, ExitPCs, mgrVars, listVars, thrVars, syncVars,
              dataVars, accVars, statVars
  <2>5. Pending' = Pending /\ resolvers' = resolvers
    BY <1>4 DEF Spawn, IInv, TypeOK, Progress, Numbered, Pending, At, Goto, Forking, Joined,
       Counted, Started, Registered, Known, Attached, Unanswered, WorkerPCs, SolverPCs, ExitPCs,
       mgrVars, listVars, thrVars, syncVars, dataVars, accVars, statVars
  <2>6. ResolversCounted'
    BY <2>5 DEF IInv, ResolversCounted
  <2> QED
    BY <2>1, <2>2, <2>3, <2>4, <2>6 DEF IInv
<1>5. CASE SpawnFails
  <2>1. ManagerInv'
    BY <1>5, Apart, ManagerFrame
       DEF SpawnFails, IInv, ManagerInv, MgrTypeOK, mgrVars, thrVars, listVars
  <2>2. (TypeOK /\ LockHeld /\ MutexHeld)'
    BY <1>5, <2>1, Apart
       DEF SpawnFails, IInv, ManagerInv, TypeOK, LockHeld, SearchersHold, MutexHeld, MoreRbls,
           Numbered, Progress, At, Goto, Forking, Joined, Counted, Started, Registered, Known,
           Attached, Unanswered, WorkerPCs, SolverPCs, ExitPCs, mgrVars, listVars, thrVars,
           syncVars, dataVars, accVars, statVars
  <2>3. (Numbered /\ Accounted)'
    BY <1>5, <2>1, Apart
       DEF SpawnFails, IInv, ManagerInv, TypeOK, Numbered, Accounted, MoreRbls, At, Goto,
           Forking, Joined, Counted, Started, Registered, Known, Attached, Unanswered,
           WorkerPCs, SolverPCs, ExitPCs, mgrVars, listVars, thrVars, syncVars, dataVars,
           accVars, statVars
  <2>4. (Progress /\ NoLostWakeup /\ PeakSeen)'
    BY <1>5, <2>1, Apart
       DEF SpawnFails, IInv, ManagerInv, TypeOK, MutexHeld, Numbered, Progress, NoLostWakeup,
           PeakSeen, MoreRbls, At, Goto, Forking, Joined, Counted, Started, Registered, Known,
           Attached, Unanswered, WorkerPCs, SolverPCs, ExitPCs, mgrVars, listVars, thrVars,
           syncVars, dataVars, accVars, statVars
  <2>5. Pending' = Pending /\ resolvers' = resolvers
    BY <1>5 DEF SpawnFails, IInv, TypeOK, Progress, Numbered, Pending, At, Goto, Forking,
       Joined, Counted, Started, Registered, Known, Attached, Unanswered, WorkerPCs, SolverPCs,
       ExitPCs, mgrVars, listVars, thrVars, syncVars, dataVars, accVars, statVars
  <2>6. ResolversCounted'
    BY <2>5 DEF IInv, ResolversCounted
  <2> QED
    BY <2>1, <2>2, <2>3, <2>4, <2>6 DEF IInv
<1>6. CASE Register
  <2> DEFINE t == resdata_cnt + 1
  <2>0. t \in Threads /\ t \notin cancel /\ \A n \in nodes : n < t
    <3>1. t \in Threads /\ ~Registered(t)
      BY <1>6, NextRbl DEF Register, At, IInv, TypeOK, Numbered, Registered, Forking
    <3>2. t \notin Known /\ \A n \in Known : n <= resdata_cnt
      BY <1>6, <3>1 DEF Register, At, IInv, Numbered, Registered
    <3> QED
      BY <3>1, <3>2 DEF IInv, TypeOK, ManagerInv, MgrTypeOK, Known, Threads
  <2>1. ManagerInv' /\ nodes' = nodes \cup {t} /\ nthreads' = nthreads + 1
    BY <1>6, <2>0, Apart, RegisterManager DEF Register, IInv, thrVars
  <2>2. (TypeOK /\ LockHeld /\ MutexHeld)'
    BY <1>6, <2>1, Apart
       DEF Register, stats_solver_thr, MgrTypeOK, IInv, ManagerInv, TypeOK, LockHeld,
           SearchersHold, MutexHeld, MoreRbls, Numbered, Progress, At, Goto, Forking, Joined,
           Counted, Started, Registered, Known, Attached, Unanswered, WorkerPCs, SolverPCs,
           ExitPCs, mgrVars, listVars, thrVars, syncVars, dataVars, accVars, statVars
  <2>3. (Numbered /\ Accounted)'
    BY <1>6, <2>1, Apart
       DEF Register, stats_solver_thr, MgrTypeOK, IInv, ManagerInv, TypeOK, Numbered, Accounted,
           MoreRbls, At, Goto, Forking, Joined, Counted, Started, Registered, Known, Attached,
           Unanswered, WorkerPCs, SolverPCs, ExitPCs, mgrVars, listVars, thrVars, syncVars,
           dataVars, accVars, statVars
  <2>4. (Progress /\ NoLostWakeup /\ PeakSeen)'
    BY <1>6, <2>1, Apart
       DEF Register, stats_solver_thr, MgrTypeOK, IInv, ManagerInv, TypeOK, MutexHeld, Numbered,
           Progress, NoLostWakeup, PeakSeen, MoreRbls, At, Goto, Forking, Joined, Counted,
           Started, Registered, Known, Attached, Unanswered, WorkerPCs, SolverPCs, ExitPCs,
           mgrVars, listVars, thrVars, syncVars, dataVars, accVars, statVars
  <2>5. Pending' = Pending /\ resolvers' = resolvers
    BY <1>6 DEF Register, stats_solver_thr, MgrTypeOK, IInv, TypeOK, Progress, Numbered,
       Pending, At, Goto, Forking, Joined, Counted, Started, Registered, Known, Attached,
       Unanswered, WorkerPCs, SolverPCs, ExitPCs, mgrVars, listVars, thrVars, syncVars,
       dataVars, accVars, statVars
  <2>6. ResolversCounted'
    BY <2>5 DEF IInv, ResolversCounted
  <2> QED
    BY <2>1, <2>2, <2>3, <2>4, <2>6 DEF IInv
<1>7. CASE RegisterFailure
  <2> DEFINE t == resdata_cnt + 1
  <2>0. t \in Threads /\ t \notin Known
    <3>1. t \in Threads /\ ~Registered(t)
      BY <1>7, NextRbl DEF RegisterFailure, At, IInv, TypeOK, Numbered, Registered, Forking
    <3>2. t \notin Known /\ \A n \in Known : n <= resdata_cnt
      BY <1>7, <3>1 DEF RegisterFailure, At, IInv, Numbered, Registered
    <3> QED
      BY <3>1, <3>2 DEF IInv, TypeOK, ManagerInv, MgrTypeOK, Known, Threads
  <2>1. ManagerInv'
    BY <1>7, <2>0, Apart, FailManager DEF RegisterFailure, IInv
  <2>2. (TypeOK /\ LockHeld /\ MutexHeld)'
    BY <1>7, <2>1, Apart
       DEF RegisterFailure, RegisterFails, IInv, ManagerInv, TypeOK, LockHeld, SearchersHold,
           MutexHeld, MoreRbls, Numbered, Progress, At, Goto, Forking, Joined, Counted, Started,
           Registered, Known, Attached, Unanswered, WorkerPCs, SolverPCs, ExitPCs, mgrVars,
           listVars, thrVars, syncVars, dataVars, accVars, statVars
  <2>3. (Numbered /\ Accounted)'
    BY <1>7, <2>1, Apart
       DEF RegisterFailure, RegisterFails, IInv, ManagerInv, TypeOK, Numbered, Accounted,
           MoreRbls, At, Goto, Forking, Joined, Counted, Started, Registered, Known, Attached,
           Unanswered, WorkerPCs, SolverPCs, ExitPCs, mgrVars, listVars, thrVars, syncVars,
           dataVars, accVars, statVars
  <2>4. (Progress /\ NoLostWakeup /\ PeakSeen)'
    BY <1>7, <2>1, Apart
       DEF RegisterFailure, RegisterFails, IInv, ManagerInv, TypeOK, MutexHeld, Numbered,
           Progress, NoLostWakeup, PeakSeen, MoreRbls, At, Goto, Forking, Joined, Counted,
           Started, Registered, Known, Attached, Unanswered, WorkerPCs, SolverPCs, ExitPCs,
           mgrVars, listVars, thrVars, syncVars, dataVars, accVars, statVars
  <2>5. Pending' = Pending /\ resolvers' = resolvers
    BY <1>7 DEF RegisterFailure, RegisterFails, IInv, TypeOK, Progress, Numbered, Pending, At,
       Goto, Forking, Joined, Counted, Started, Registered, Known, Attached, Unanswered,
       WorkerPCs, SolverPCs, ExitPCs, mgrVars, listVars, thrVars, syncVars, dataVars, accVars,
       statVars
  <2>6. ResolversCounted'
    BY <2>5 DEF IInv, ResolversCounted
  <2> QED
    BY <2>1, <2>2, <2>3, <2>4, <2>6 DEF IInv
<1>8. CASE ForkUnlock
  <2>1. ManagerInv'
    BY <1>8, Apart, ManagerFrame
       DEF ForkUnlock, IInv, ManagerInv, MgrTypeOK, mgrVars, thrVars, listVars
  <2>a. /\ wpc = "created" /\ wpc' = "loop" /\ resdata_cnt' = resdata_cnt + 1
        /\ resdata_cnt \in Nat /\ resdata_cnt < MaxTid
        /\ UNCHANGED <<nodes, cancel, pc>>
    BY <1>8 DEF ForkUnlock, At, IInv, TypeOK, Numbered, Forking, mgrVars, thrVars
  <2>2. TypeOK' /\ LockHeld' /\ MutexHeld'
    <3>1. TypeOK'
      BY <1>8, <2>1, <2>a, Apart
         DEF ForkUnlock, IInv, ManagerInv, TypeOK, WorkerPCs, thrVars, dataVars, accVars, statVars
    <3>2. LockHeld' /\ MutexHeld'
      BY <1>8, Apart
         DEF ForkUnlock, At, IInv, LockHeld, SearchersHold, MutexHeld, mgrVars, thrVars, Forking
    <3> QED
      BY <3>1, <3>2
  <2>3. Numbered' /\ Accounted'
    <3>1. \A u \in Threads : Registered(u) => Registered(u)'
      BY <2>a, Apart DEF Registered
    <3>2. \A u \in Threads : Started(u) => Started(u)'
      BY <2>a, Apart DEF Started
    <3>3. Known \subseteq Threads /\ Known' = Known
      BY <2>a DEF IInv, ManagerInv, MgrTypeOK, Known
    <3> QED
      BY <2>a, <3>1, <3>2, <3>3 DEF IInv, Numbered, Accounted, Forking
  <2>b. \A u \in Threads : Counted(u)' <=> Counted(u)
    BY <2>a, Apart DEF Counted, Forking
  <2>4. Progress' /\ NoLostWakeup' /\ PeakSeen'
    <3>1. Progress'
      BY <1>8, <2>a, <2>b DEF ForkUnlock, IInv, TypeOK, Progress, Joined, dataVars, accVars
    <3>2. NoLostWakeup' /\ PeakSeen'
      BY <1>8, <2>a DEF ForkUnlock, IInv, NoLostWakeup, PeakSeen, mgrVars, statVars
    <3> QED
      BY <3>1, <3>2
  <2>5. Pending' = Pending /\ resolvers' = resolvers
    BY <1>8 DEF ForkUnlock, IInv, TypeOK, Progress, Numbered, Pending, At, Goto, Forking,
       Joined, Counted, Started, Registered, Known, Attached, Unanswered, WorkerPCs, SolverPCs,
       ExitPCs, mgrVars, listVars, thrVars, syncVars, dataVars, accVars, statVars
  <2>6. ResolversCounted'
    BY <2>5 DEF IInv, ResolversCounted
  <2> QED
    BY <2>1, <2>2, <2>3, <2>4, <2>6 DEF IInv
<1>9. CASE JoinLock
  <2>1. ManagerInv'
    BY <1>9, Apart, ManagerFrame
       DEF JoinLock, IInv, ManagerInv, MgrTypeOK, mgrVars, thrVars, listVars
  <2>2. (TypeOK /\ LockHeld /\ MutexHeld)'
    BY <1>9, <2>1, Apart
       DEF JoinLock, IInv, ManagerInv, TypeOK, LockHeld, SearchersHold, MutexHeld, MoreRbls,
           Numbered, Progress, At, Goto, Forking, Joined, Counted, Started, Registered, Known,
           Attached, Unanswered, WorkerPCs, SolverPCs, ExitPCs, mgrVars, listVars, thrVars,
           syncVars, dataVars, accVars, statVars
  <2>3. (Numbered /\ Accounted)'
    BY <1>9, <2>1, Apart
       DEF JoinLock, IInv, ManagerInv, TypeOK, Numbered, Accounted, MoreRbls, At, Goto, Forking,
           Joined, Counted, Started, Registered, Known, Attached, Unanswered, WorkerPCs,
           SolverPCs, ExitPCs, mgrVars, listVars, thrVars, syncVars, dataVars, accVars, statVars
  <2>a. resdata_cnt = MaxTid
    BY <1>9, ThresholdAssumption, MaxTidAssumption
       DEF JoinLock, At, MoreRbls, IInv, TypeOK, Progress, Joined
  <2>4. Progress' /\ NoLostWakeup' /\ PeakSeen'
    <3>1. /\ wpc = "loop" /\ wpc' = "join"
          /\ UNCHANGED <<pc, err, resdata_cnt, res_ready, dataVars, accVars>>
      BY <1>9 DEF JoinLock, At, thrVars
    <3>2. Progress'
      BY <2>a, <3>1 DEF IInv, Progress, Counted, Forking, Joined, dataVars, accVars
    <3>3. NoLostWakeup' /\ PeakSeen'
      BY <1>9, <3>1 DEF JoinLock, IInv, NoLostWakeup, PeakSeen, mgrVars, thrVars, statVars
    <3> QED
      BY <3>2, <3>3
  <2>5. Pending' = Pending /\ resolvers' = resolvers
    BY <1>9 DEF JoinLock, IInv, TypeOK, Progress, Numbered, Pending, At, Goto, Forking, Joined,
       Counted, Started, Registered, Known, Attached, Unanswered, WorkerPCs, SolverPCs, ExitPCs,
       mgrVars, listVars, thrVars, syncVars, dataVars, accVars, statVars
  <2>6. ResolversCounted'
    BY <2>5 DEF IInv, ResolversCounted
  <2> QED
    BY <2>1, <2>2, <2>3, <2>4, <2>6 DEF IInv
<1>10. CASE JoinWait
  <2>1. ManagerInv'
    BY <1>10, Apart, ManagerFrame
       DEF JoinWait, IInv, ManagerInv, MgrTypeOK, mgrVars, thrVars, listVars
  <2>2. (TypeOK /\ LockHeld /\ MutexHeld)'
    BY <1>10, <2>1, Apart
       DEF JoinWait, IInv, ManagerInv, TypeOK, LockHeld, SearchersHold, MutexHeld, MoreRbls,
           Numbered, Progress, At, Goto, Forking, Joined, Counted, Started, Registered, Known,
           Attached, Unanswered, WorkerPCs, SolverPCs, ExitPCs, mgrVars, listVars, thrVars,
           syncVars, dataVars, accVars, statVars
  <2>3. (Numbered /\ Accounted)'
    BY <1>10, <2>1, Apart
       DEF JoinWait, IInv, ManagerInv, TypeOK, Numbered, Accounted, MoreRbls, At, Goto, Forking,
           Joined, Counted, Started, Registered, Known, Attached, Unanswered, WorkerPCs,
           SolverPCs, ExitPCs, mgrVars, listVars, thrVars, syncVars, dataVars, accVars, statVars
  <2>4. (Progress /\ NoLostWakeup /\ PeakSeen)'
    BY <1>10, <2>1, Apart
       DEF JoinWait, IInv, ManagerInv, TypeOK, MutexHeld, Numbered, Progress, NoLostWakeup,
           PeakSeen, MoreRbls, At, Goto, Forking, Joined, Counted, Started, Registered, Known,
           Attached, Unanswered, WorkerPCs, SolverPCs, ExitPCs, mgrVars, listVars, thrVars,
           syncVars, dataVars, accVars, statVars
  <2>5. Pending' = Pending /\ resolvers' = resolvers
    BY <1>10 DEF JoinWait, IInv, TypeOK, Progress, Numbered, Pending, At, Goto, Forking, Joined,
       Counted, Started, Registered, Known, Attached, Unanswered, WorkerPCs, SolverPCs, ExitPCs,
       mgrVars, listVars, thrVars, syncVars, dataVars, accVars, statVars
  <2>6. ResolversCounted'
    BY <2>5 DEF IInv, ResolversCounted
  <2> QED
    BY <2>1, <2>2, <2>3, <2>4, <2>6 DEF IInv
<1>11. CASE SpuriousWakeup
  <2>1. ManagerInv'
    BY <1>11, Apart, ManagerFrame
       DEF SpuriousWakeup, IInv, ManagerInv, MgrTypeOK, mgrVars, thrVars, listVars
  <2>2. (TypeOK /\ LockHeld /\ MutexHeld)'
    BY <1>11, <2>1, Apart
       DEF SpuriousWakeup, IInv, ManagerInv, TypeOK, LockHeld, SearchersHold, MutexHeld,
           MoreRbls, Numbered, Progress, At, Goto, Forking, Joined, Counted, Started,
           Registered, Known, Attached, Unanswered, WorkerPCs, SolverPCs, ExitPCs, mgrVars,
           listVars, thrVars, syncVars, dataVars, accVars, statVars
  <2>3. (Numbered /\ Accounted)'
    BY <1>11, <2>1, Apart
       DEF SpuriousWakeup, IInv, ManagerInv, TypeOK, Numbered, Accounted, MoreRbls, At, Goto,
           Forking, Joined, Counted, Started, Registered, Known, Attached, Unanswered,
           WorkerPCs, SolverPCs, ExitPCs, mgrVars, listVars, thrVars, syncVars, dataVars,
           accVars, statVars
  <2>4. (Progress /\ NoLostWakeup /\ PeakSeen)'
    BY <1>11, <2>1, Apart
       DEF SpuriousWakeup, IInv, ManagerInv, TypeOK, MutexHeld, Numbered, Progress,
           NoLostWakeup, PeakSeen, MoreRbls, At, Goto, Forking, Joined, Counted, Started,
           Registered, Known, Attached, Unanswered, WorkerPCs, SolverPCs, ExitPCs, mgrVars,
           listVars, thrVars, syncVars, dataVars, accVars, statVars
  <2>5. Pending' = Pending /\ resolvers' = resolvers
    BY <1>11 DEF SpuriousWakeup, IInv, TypeOK, Progress, Numbered, Pending, At, Goto, Forking,
       Joined, Counted, Started, Registered, Known, Attached, Unanswered, WorkerPCs, SolverPCs,
       ExitPCs, mgrVars, listVars, thrVars, syncVars, dataVars, accVars, statVars
  <2>6. ResolversCounted'
    BY <2>5 DEF IInv, ResolversCounted
  <2> QED
    BY <2>1, <2>2, <2>3, <2>4, <2>6 DEF IInv
<1>12. CASE Relock
  <2>1. ManagerInv'
    BY <1>12, Apart, ManagerFrame
       DEF Relock, IInv, ManagerInv, MgrTypeOK, mgrVars, thrVars, listVars
  <2>2. (TypeOK /\ LockHeld /\ MutexHeld)'
    BY <1>12, <2>1, Apart
       DEF Relock, IInv, ManagerInv, TypeOK, LockHeld, SearchersHold, MutexHeld, MoreRbls,
           Numbered, Progress, At, Goto, Forking, Joined, Counted, Started, Registered, Known,
           Attached, Unanswered, WorkerPCs, SolverPCs, ExitPCs, mgrVars, listVars, thrVars,
           syncVars, dataVars, accVars, statVars
  <2>3. (Numbered /\ Accounted)'
    BY <1>12, <2>1, Apart
       DEF Relock, IInv, ManagerInv, TypeOK, Numbered, Accounted, MoreRbls, At, Goto, Forking,
           Joined, Counted, Started, Registered, Known, Attached, Unanswered, WorkerPCs,
           SolverPCs, ExitPCs, mgrVars, listVars, thrVars, syncVars, dataVars, accVars, statVars
  <2>4. (Progress /\ NoLostWakeup /\ PeakSeen)'
    BY <1>12, <2>1, Apart
       DEF Relock, IInv, ManagerInv, TypeOK, MutexHeld, Numbered, Progress, NoLostWakeup,
           PeakSeen, MoreRbls, At, Goto, Forking, Joined, Counted, Started, Registered, Known,
           Attached, Unanswered, WorkerPCs, SolverPCs, ExitPCs, mgrVars, listVars, thrVars,
           syncVars, dataVars, accVars, statVars
  <2>5. Pending' = Pending /\ resolvers' = resolvers
    BY <1>12 DEF Relock, IInv, TypeOK, Progress, Numbered, Pending, At, Goto, Forking, Joined,
       Counted, Started, Registered, Known, Attached, Unanswered, WorkerPCs, SolverPCs, ExitPCs,
       mgrVars, listVars, thrVars, syncVars, dataVars, accVars, statVars
  <2>6. ResolversCounted'
    BY <2>5 DEF IInv, ResolversCounted
  <2> QED
    BY <2>1, <2>2, <2>3, <2>4, <2>6 DEF IInv
<1>13. CASE JoinDone
  <2>1. ManagerInv'
    BY <1>13, Apart, ManagerFrame
       DEF JoinDone, IInv, ManagerInv, MgrTypeOK, mgrVars, thrVars, listVars
  <2>2. (TypeOK /\ LockHeld /\ MutexHeld)'
    BY <1>13, <2>1, Apart
       DEF JoinDone, IInv, ManagerInv, TypeOK, LockHeld, SearchersHold, MutexHeld, MoreRbls,
           Numbered, Progress, At, Goto, Forking, Joined, Counted, Started, Registered, Known,
           Attached, Unanswered, WorkerPCs, SolverPCs, ExitPCs, mgrVars, listVars, thrVars,
           syncVars, dataVars, accVars, statVars
  <2>3. (Numbered /\ Accounted)'
    BY <1>13, <2>1, Apart
       DEF JoinDone, IInv, ManagerInv, TypeOK, Numbered, Accounted, MoreRbls, At, Goto, Forking,
           Joined, Counted, Started, Registered, Known, Attached, Unanswered, WorkerPCs,
           SolverPCs, ExitPCs, mgrVars, listVars, thrVars, syncVars, dataVars, accVars, statVars
  <2>a. /\ wpc = "join" /\ wpc' = "collect" /\ resolvers = 0 /\ score' = 0
        /\ UNCHANGED <<pc, err, resolvers, resdata_cnt, dataVars, collected>>
    BY <1>13 DEF JoinDone, At, thrVars
  <2>b. Unanswered = {}
    <3>1. Pending = {}
      BY <2>a, PendingFinite, FS_EmptySet DEF IInv, ResolversCounted
    <3>2. \A u \in Threads : resdata[u] = "live"
      BY <2>a, Apart DEF IInv, TypeOK, Progress, Counted, Joined
    <3> QED
      BY <3>1, <3>2 DEF Pending, Unanswered
  <2>c. Attached = {}
    <3>1. \A u \in Threads : pc[u] \notin {"signal", "unlock"}
      BY <2>a, Apart DEF IInv, MutexHeld
    <3> QED
      BY <2>b, <3>1 DEF Attached, Unanswered
  <2>4. Progress' /\ NoLostWakeup' /\ PeakSeen'
    <3>1. Unanswered' = {} /\ Attached' = {}
      BY <2>a, <2>b, <2>c DEF Unanswered, Attached
    <3>2. Progress'
      BY <2>a, <3>1 DEF IInv, Progress, Counted, Forking, Joined, dataVars
    <3>3. NoLostWakeup' /\ PeakSeen'
      BY <1>13, <2>a DEF JoinDone, IInv, NoLostWakeup, PeakSeen, mgrVars, thrVars, statVars
    <3> QED
      BY <3>2, <3>3
  <2>5. Pending' = Pending /\ resolvers' = resolvers
    BY <1>13 DEF JoinDone, IInv, TypeOK, Progress, Numbered, Pending, At, Goto, Forking, Joined,
       Counted, Started, Registered, Known, Attached, Unanswered, WorkerPCs, SolverPCs, ExitPCs,
       mgrVars, listVars, thrVars, syncVars, dataVars, accVars, statVars
  <2>6. ResolversCounted'
    BY <2>5 DEF IInv, ResolversCounted
  <2> QED
    BY <2>1, <2>2, <2>3, <2>4, <2>6 DEF IInv
<1>14. CASE Collect
  <2>1. ManagerInv'
    BY <1>14, Apart, ManagerFrame
       DEF Collect, IInv, ManagerInv, MgrTypeOK, mgrVars, thrVars, listVars
  <2>2. TypeOK' /\ LockHeld' /\ MutexHeld'
    <3> DEFINE i == collected + 1
    <3>1. i \in Threads /\ i <= MaxTid /\ i \in Nat
      BY <1>14, MaxTidAssumption DEF Collect, IInv, TypeOK, Threads
    <3>2. reply' \in Seq(Threads)
      BY <1>14, <3>1 DEF Collect, IInv, TypeOK
    <3>3. score' \in Nat /\ collected' \in Nat /\ collected' <= MaxTid
      BY <1>14, <3>1 DEF Collect, IInv, TypeOK
    <3>4. questions' \in [Threads -> Nat] /\ positive' \in [Threads -> Nat]
      <4>1. questions[i] + 1 \in Nat /\ \A k \in {0, 1} : positive[i] + k \in Nat
        BY <3>1 DEF IInv, TypeOK
      <4>2. PICK k \in {0, 1} : positive' = [positive EXCEPT ![i] = positive[i] + k]
        BY <1>14 DEF Collect
      <4>3. questions' = [questions EXCEPT ![i] = questions[i] + 1]
        BY <1>14 DEF Collect
      <4>4. questions \in [Threads -> Nat] /\ positive \in [Threads -> Nat]
        BY DEF IInv, TypeOK
      <4> QED
        BY <3>1, <4>1, <4>2, <4>3, <4>4, Zenon
    <3>5. resdata' \in [Threads -> {"none", "live", "freed"}]
      <4>1. resdata \in [Threads -> {"none", "live", "freed"}]
        BY DEF IInv, TypeOK
      <4>2. resdata' = [resdata EXCEPT ![i] = "freed"]
        BY <1>14 DEF Collect
      <4> QED
        BY <3>1, <4>1, <4>2, Zenon
    <3>6. UNCHANGED <<pc, proc, wpc, err, syncVars, rscore, resdata_cnt, statVars>>
      BY <1>14 DEF Collect, thrVars
    <3>7. TypeOK'
      <4>1. /\ pc' \in [Threads -> SolverPCs] /\ proc' \in {"running", "crashed"}
            /\ wpc' \in WorkerPCs /\ err' \in BOOLEAN
            /\ resolvers' \in Int /\ resolvers_' \in Threads \cup {Worker, Nobody}
            /\ res_ready' \in {"live", "destroyed"}
        BY <3>6 DEF IInv, TypeOK, syncVars
      <4>2. /\ rscore' \in [Threads -> Nat] /\ resdata_cnt' \in Nat /\ resdata_cnt' <= MaxTid
            /\ num_solvers' \in Nat /\ now_solvers' \in Nat /\ max_solvers' \in Nat
        BY <3>6 DEF IInv, TypeOK, statVars
      <4> QED
        BY <2>1, <3>2, <3>3, <3>4, <3>5, <4>1, <4>2 DEF ManagerInv, TypeOK
    <3>8. LockHeld' /\ MutexHeld'
      BY <1>14, <3>6 DEF Collect, IInv, LockHeld, SearchersHold, MutexHeld, mgrVars, syncVars
    <3> QED
      BY <3>7, <3>8
  <2>3. (Numbered /\ Accounted)'
    BY <1>14, <2>1, Apart
       DEF Collect, IInv, ManagerInv, TypeOK, Numbered, Accounted, MoreRbls, At, Goto, Forking,
           Joined, Counted, Started, Registered, Known, Attached, Unanswered, WorkerPCs,
           SolverPCs, ExitPCs, mgrVars, listVars, thrVars, syncVars, dataVars, accVars, statVars
  <2>4. (Progress /\ NoLostWakeup /\ PeakSeen)'
    BY <1>14, <2>1, Apart
       DEF Collect, IInv, ManagerInv, TypeOK, MutexHeld, Numbered, Progress, NoLostWakeup,
           PeakSeen, MoreRbls, At, Goto, Forking, Joined, Counted, Started, Registered, Known,
           Attached, Unanswered, WorkerPCs, SolverPCs, ExitPCs, mgrVars, listVars, thrVars,
           syncVars, dataVars, accVars, statVars
  <2>5. Pending' = Pending /\ resolvers' = resolvers
    BY <1>14 DEF Collect, IInv, TypeOK, Progress, Numbered, Pending, At, Goto, Forking, Joined,
       Counted, Started, Registered, Known, Attached, Unanswered, WorkerPCs, SolverPCs, ExitPCs,
       mgrVars, listVars, thrVars, syncVars, dataVars, accVars, statVars
  <2>6. ResolversCounted'
    BY <2>5 DEF IInv, ResolversCounted
  <2> QED
    BY <2>1, <2>2, <2>3, <2>4, <2>6 DEF IInv
<1>15. CASE CollectEnd
  <2>1. ManagerInv'
    BY <1>15, Apart, ManagerFrame
       DEF CollectEnd, IInv, ManagerInv, MgrTypeOK, mgrVars, thrVars, listVars
  <2>2. (TypeOK /\ LockHeld /\ MutexHeld)'
    BY <1>15, <2>1, Apart
       DEF CollectEnd, IInv, ManagerInv, TypeOK, LockHeld, SearchersHold, MutexHeld, MoreRbls,
           Numbered, Progress, At, Goto, Forking, Joined, Counted, Started, Registered, Known,
           Attached, Unanswered, WorkerPCs, SolverPCs, ExitPCs, mgrVars, listVars, thrVars,
           syncVars, dataVars, accVars, statVars
  <2>3. (Numbered /\ Accounted)'
    BY <1>15, <2>1, Apart
       DEF CollectEnd, IInv, ManagerInv, TypeOK, Numbered, Accounted, MoreRbls, At, Goto,
           Forking, Joined, Counted, Started, Registered, Known, Attached, Unanswered,
           WorkerPCs, SolverPCs, ExitPCs, mgrVars, listVars, thrVars, syncVars, dataVars,
           accVars, statVars
  <2>4. (Progress /\ NoLostWakeup /\ PeakSeen)'
    BY <1>15, <2>1, Apart
       DEF CollectEnd, IInv, ManagerInv, TypeOK, MutexHeld, Numbered, Progress, NoLostWakeup,
           PeakSeen, MoreRbls, At, Goto, Forking, Joined, Counted, Started, Registered, Known,
           Attached, Unanswered, WorkerPCs, SolverPCs, ExitPCs, mgrVars, listVars, thrVars,
           syncVars, dataVars, accVars, statVars
  <2>5. Pending' = Pending /\ resolvers' = resolvers
    BY <1>15 DEF CollectEnd, IInv, TypeOK, Progress, Numbered, Pending, At, Goto, Forking,
       Joined, Counted, Started, Registered, Known, Attached, Unanswered, WorkerPCs, SolverPCs,
       ExitPCs, mgrVars, listVars, thrVars, syncVars, dataVars, accVars, statVars
  <2>6. ResolversCounted'
    BY <2>5 DEF IInv, ResolversCounted
  <2> QED
    BY <2>1, <2>2, <2>3, <2>4, <2>6 DEF IInv
<1>16. CASE Answer
  <2>1. ManagerInv'
    BY <1>16, Apart, ManagerFrame
       DEF Answer, IInv, ManagerInv, MgrTypeOK, mgrVars, thrVars, listVars
  <2>2. (TypeOK /\ LockHeld /\ MutexHeld)'
    BY <1>16, <2>1, Apart
       DEF Answer, IInv, ManagerInv, TypeOK, LockHeld, SearchersHold, MutexHeld, MoreRbls,
           Numbered, Progress, At, Goto, Forking, Joined, Counted, Started, Registered, Known,
           Attached, Unanswered, WorkerPCs, SolverPCs, ExitPCs, mgrVars, listVars, thrVars,
           syncVars, dataVars, accVars, statVars
  <2>3. (Numbered /\ Accounted)'
    BY <1>16, <2>1, Apart
       DEF Answer, IInv, ManagerInv, TypeOK, Numbered, Accounted, MoreRbls, At, Goto, Forking,
           Joined, Counted, Started, Registered, Known, Attached, Unanswered, WorkerPCs,
           SolverPCs, ExitPCs, mgrVars, listVars, thrVars, syncVars, dataVars, accVars, statVars
  <2>4. (Progress /\ NoLostWakeup /\ PeakSeen)'
    BY <1>16, <2>1, Apart
       DEF Answer, IInv, ManagerInv, TypeOK, MutexHeld, Numbered, Progress, NoLostWakeup,
           PeakSeen, MoreRbls, At, Goto, Forking, Joined, Counted, Started, Registered, Known,
           Attached, Unanswered, WorkerPCs, SolverPCs, ExitPCs, mgrVars, listVars, thrVars,
           syncVars, dataVars, accVars, statVars
  <2>5. Pending' = Pending /\ resolvers' = resolvers
    BY <1>16 DEF Answer, IInv, TypeOK, Progress, Numbered, Pending, At, Goto, Forking, Joined,
       Counted, Started, Registered, Known, Attached, Unanswered, WorkerPCs, SolverPCs, ExitPCs,
       mgrVars, listVars, thrVars, syncVars, dataVars, accVars, statVars
  <2>6. ResolversCounted'
    BY <2>5 DEF IInv, ResolversCounted
  <2> QED
    BY <2>1, <2>2, <2>3, <2>4, <2>6 DEF IInv
<1>17. CASE Close
  <2>1. ManagerInv'
    BY <1>17, Apart, ManagerFrame
       DEF Close, IInv, ManagerInv, MgrTypeOK, mgrVars, thrVars, listVars
  <2>2. (TypeOK /\ LockHeld /\ MutexHeld)'
    BY <1>17, <2>1, Apart
       DEF Close, IInv, ManagerInv, TypeOK, LockHeld, SearchersHold, MutexHeld, MoreRbls,
           Numbered, Progress, At, Goto, Forking, Joined, Counted, Started, Registered, Known,
           Attached, Unanswered, WorkerPCs, SolverPCs, ExitPCs, mgrVars, listVars, thrVars,
           syncVars, dataVars, accVars, statVars
  <2>3. (Numbered /\ Accounted)'
    BY <1>17, <2>1, Apart
       DEF Close, IInv, ManagerInv, TypeOK, Numbered, Accounted, MoreRbls, At, Goto, Forking,
           Joined, Counted, Started, Registered, Known, Attached, Unanswered, WorkerPCs,
           SolverPCs, ExitPCs, mgrVars, listVars, thrVars, syncVars, dataVars, accVars, statVars
  <2>4. (Progress /\ NoLostWakeup /\ PeakSeen)'
    BY <1>17, <2>1, Apart
       DEF Close, IInv, ManagerInv, TypeOK, MutexHeld, Numbered, Progress, NoLostWakeup, PeakSeen,
           MoreRbls, At, Goto, Forking, Joined, Counted, Started, Registered, Known, Attached,
              Unanswered, WorkerPCs, SolverPCs, ExitPCs, mgrVars, listVars, thrVars, syncVars,
              dataVars, accVars, statVars
  <2>5. Pending' = Pending /\ resolvers' = resolvers
    BY <1>17 DEF Close, IInv, TypeOK, Progress, Numbered, Pending, At, Goto, Forking, Joined,
       Counted, Started, Registered, Known, Attached, Unanswered, WorkerPCs, SolverPCs, ExitPCs,
       mgrVars, listVars, thrVars, syncVars, dataVars, accVars, statVars
  <2>6. ResolversCounted'
    BY <2>5 DEF IInv, ResolversCounted
  <2> QED
    BY <2>1, <2>2, <2>3, <2>4, <2>6 DEF IInv
<1> QED
  BY <1>1, <1>2, <1>3, <1>4, <1>5, <1>6, <1>7, <1>8, <1>9, <1>10, <1>11, <1>12, <1>13, <1>14,
     <1>15, <1>16, <1>17 DEF WorkerStep

(* The steps of a solver keep the invariant.                               *)
LEMMA SolverKeeps ==
  ASSUME IInv, NEW t \in Threads, SolverStep(t)
  PROVE  IInv'
<1>w. t \in Attached => /\ wpc \notin Joined /\ ~err /\ wpc # "read"
                        /\ resdata[t] = "live" /\ res_ready = "live"
  BY Waits
<1>1. CASE Resolve(t)
  <2>1. ManagerInv'
    BY <1>1, Apart, ManagerFrame
       DEF Resolve, IInv, ManagerInv, MgrTypeOK, mgrVars, thrVars, listVars
  <2>2. TypeOK' /\ LockHeld' /\ MutexHeld'
    <3>1. rscore' \in [Threads -> Nat]
      BY <1>1, WeightIsNat DEF Resolve, IInv, TypeOK
    <3>2. TypeOK'
      BY <1>1, <2>1, <3>1
         DEF Resolve, Goto, IInv, ManagerInv, TypeOK, SolverPCs, syncVars, accVars, statVars
    <3>3. LockHeld' /\ MutexHeld'
      BY <1>1 DEF Resolve, SAt, Goto, IInv, TypeOK, LockHeld, SearchersHold, MutexHeld, mgrVars,
         syncVars
    <3> QED
      BY <3>2, <3>3
  <2>3. (Numbered /\ Accounted)'
    BY <1>1, <1>w, <2>1, Apart
       DEF Resolve, IInv, ManagerInv, TypeOK, Numbered, Accounted, MoreRbls, SAt, Goto, Forking,
           Joined, Counted, Started, Registered, Known, Attached, Unanswered, WorkerPCs,
           SolverPCs, ExitPCs, mgrVars, listVars, thrVars, syncVars, dataVars, accVars, statVars
  <2>4. (Progress /\ NoLostWakeup /\ PeakSeen)'
    BY <1>1, <1>w, <2>1, Apart
       DEF Resolve, IInv, ManagerInv, TypeOK, MutexHeld, Numbered, Progress, NoLostWakeup,
           PeakSeen, MoreRbls, SAt, Goto, Forking, Joined, Counted, Started, Registered, Known,
           Attached, Unanswered, WorkerPCs, SolverPCs, ExitPCs, mgrVars, listVars, thrVars,
           syncVars, dataVars, accVars, statVars
  <2>5. Pending' = Pending /\ resolvers' = resolvers
    BY <1>1 DEF Resolve, IInv, TypeOK, Progress, Numbered, Pending, SAt, Goto, Forking, Joined,
       Counted, Started, Registered, Known, Attached, Unanswered, WorkerPCs, SolverPCs, ExitPCs,
       mgrVars, listVars, thrVars, syncVars, dataVars, accVars, statVars
  <2>6. ResolversCounted'
    BY <2>5 DEF IInv, ResolversCounted
  <2> QED
    BY <2>1, <2>2, <2>3, <2>4, <2>6 DEF IInv
<1>2. CASE SolverKilled(t)
  <2>1. ManagerInv'
    BY <1>2, Apart, ManagerFrame
       DEF SolverKilled, IInv, ManagerInv, MgrTypeOK, mgrVars, thrVars, listVars
  <2>2. (TypeOK /\ LockHeld /\ MutexHeld)'
    BY <1>2, <1>w, <2>1, Apart
       DEF SolverKilled, IInv, ManagerInv, TypeOK, LockHeld, SearchersHold, MutexHeld, MoreRbls,
           Numbered, Progress, SAt, Goto, Forking, Joined, Counted, Started, Registered, Known,
           Attached, Unanswered, WorkerPCs, SolverPCs, ExitPCs, mgrVars, listVars, thrVars,
           syncVars, dataVars, accVars, statVars
  <2>3. (Numbered /\ Accounted)'
    BY <1>2, <1>w, <2>1, Apart
       DEF SolverKilled, IInv, ManagerInv, TypeOK, Numbered, Accounted, MoreRbls, SAt, Goto,
           Forking, Joined, Counted, Started, Registered, Known, Attached, Unanswered,
           WorkerPCs, SolverPCs, ExitPCs, mgrVars, listVars, thrVars, syncVars, dataVars,
           accVars, statVars
  <2>4. (Progress /\ NoLostWakeup /\ PeakSeen)'
    BY <1>2, <1>w, <2>1, Apart
       DEF SolverKilled, IInv, ManagerInv, TypeOK, MutexHeld, Numbered, Progress, NoLostWakeup,
           PeakSeen, MoreRbls, SAt, Goto, Forking, Joined, Counted, Started, Registered, Known,
           Attached, Unanswered, WorkerPCs, SolverPCs, ExitPCs, mgrVars, listVars, thrVars,
           syncVars, dataVars, accVars, statVars
  <2>5. Pending' = Pending /\ resolvers' = resolvers
    BY <1>2 DEF SolverKilled, IInv, TypeOK, Progress, Numbered, Pending, SAt, Goto, Forking,
       Joined, Counted, Started, Registered, Known, Attached, Unanswered, WorkerPCs, SolverPCs,
       ExitPCs, mgrVars, listVars, thrVars, syncVars, dataVars, accVars, statVars
  <2>6. ResolversCounted'
    BY <2>5 DEF IInv, ResolversCounted
  <2> QED
    BY <2>1, <2>2, <2>3, <2>4, <2>6 DEF IInv
<1>3. CASE SolverLock(t)
  <2>1. ManagerInv'
    BY <1>3, Apart, ManagerFrame
       DEF SolverLock, IInv, ManagerInv, MgrTypeOK, mgrVars, thrVars, listVars
  <2>2. (TypeOK /\ LockHeld /\ MutexHeld)'
    BY <1>3, <1>w, <2>1, Apart
       DEF SolverLock, IInv, ManagerInv, TypeOK, LockHeld, SearchersHold, MutexHeld, MoreRbls,
           Numbered, Progress, SAt, Goto, Forking, Joined, Counted, Started, Registered, Known,
           Attached, Unanswered, WorkerPCs, SolverPCs, ExitPCs, mgrVars, listVars, thrVars,
           syncVars, dataVars, accVars, statVars
  <2>3. (Numbered /\ Accounted)'
    BY <1>3, <1>w, <2>1, Apart
       DEF SolverLock, IInv, ManagerInv, TypeOK, Numbered, Accounted, MoreRbls, SAt, Goto,
           Forking, Joined, Counted, Started, Registered, Known, Attached, Unanswered,
           WorkerPCs, SolverPCs, ExitPCs, mgrVars, listVars, thrVars, syncVars, dataVars,
           accVars, statVars
  <2>4. (Progress /\ NoLostWakeup /\ PeakSeen)'
    BY <1>3, <1>w, <2>1, Apart
       DEF SolverLock, IInv, ManagerInv, TypeOK, MutexHeld, Numbered, Progress, NoLostWakeup,
           PeakSeen, MoreRbls, SAt, Goto, Forking, Joined, Counted, Started, Registered, Known,
           Attached, Unanswered, WorkerPCs, SolverPCs, ExitPCs, mgrVars, listVars, thrVars,
           syncVars, dataVars, accVars, statVars
  <2>5. Pending' = Pending /\ resolvers' = resolvers
    BY <1>3 DEF SolverLock, IInv, TypeOK, Progress, Numbered, Pending, SAt, Goto, Forking,
       Joined, Counted, Started, Registered, Known, Attached, Unanswered, WorkerPCs, SolverPCs,
       ExitPCs, mgrVars, listVars, thrVars, syncVars, dataVars, accVars, statVars
  <2>6. ResolversCounted'
    BY <2>5 DEF IInv, ResolversCounted
  <2> QED
    BY <2>1, <2>2, <2>3, <2>4, <2>6 DEF IInv
<1>4. CASE CountDown(t)
  <2>1. ManagerInv'
    BY <1>4, Apart, ManagerFrame
       DEF CountDown, IInv, ManagerInv, MgrTypeOK, mgrVars, thrVars, listVars
  <2>2. (TypeOK /\ LockHeld /\ MutexHeld)'
    BY <1>4, <1>w, <2>1, Apart
       DEF CountDown, IInv, ManagerInv, TypeOK, LockHeld, SearchersHold, MutexHeld, MoreRbls,
           Numbered, Progress, SAt, Goto, Forking, Joined, Counted, Started, Registered, Known,
           Attached, Unanswered, WorkerPCs, SolverPCs, ExitPCs, mgrVars, listVars, thrVars,
           syncVars, dataVars, accVars, statVars
  <2>3. (Numbered /\ Accounted)'
    BY <1>4, <1>w, <2>1, Apart
       DEF CountDown, IInv, ManagerInv, TypeOK, Numbered, Accounted, MoreRbls, SAt, Goto,
           Forking, Joined, Counted, Started, Registered, Known, Attached, Unanswered,
           WorkerPCs, SolverPCs, ExitPCs, mgrVars, listVars, thrVars, syncVars, dataVars,
           accVars, statVars
  <2>4. (Progress /\ NoLostWakeup /\ PeakSeen)'
    BY <1>4, <1>w, <2>1, Apart
       DEF CountDown, IInv, ManagerInv, TypeOK, MutexHeld, Numbered, Progress, NoLostWakeup,
           PeakSeen, MoreRbls, SAt, Goto, Forking, Joined, Counted, Started, Registered, Known,
           Attached, Unanswered, WorkerPCs, SolverPCs, ExitPCs, mgrVars, listVars, thrVars,
           syncVars, dataVars, accVars, statVars
  <2>5. Pending' = Pending \ {t} /\ t \in Pending /\ resolvers' = resolvers - 1
    BY <1>4, <1>w DEF CountDown, IInv, TypeOK, Pending, SAt, Goto, Forking, Joined, Counted,
       Started, Registered, Known, Attached, Unanswered, WorkerPCs, SolverPCs, ExitPCs, mgrVars,
       listVars, thrVars, syncVars, dataVars, accVars, statVars
  <2>6. ResolversCounted'
    BY <2>5, PendingFinite, FS_RemoveElement DEF IInv, ResolversCounted
  <2> QED
    BY <2>1, <2>2, <2>3, <2>4, <2>6 DEF IInv
<1>5. CASE Broadcast(t)
  <2>1. ManagerInv'
    BY <1>5, Apart, ManagerFrame
       DEF Broadcast, IInv, ManagerInv, MgrTypeOK, mgrVars, thrVars, listVars
  <2>2. (TypeOK /\ LockHeld /\ MutexHeld)'
    BY <1>5, <1>w, <2>1, Apart
       DEF Broadcast, IInv, ManagerInv, TypeOK, LockHeld, SearchersHold, MutexHeld, MoreRbls,
           Numbered, Progress, SAt, Goto, Forking, Joined, Counted, Started, Registered, Known,
           Attached, Unanswered, WorkerPCs, SolverPCs, ExitPCs, mgrVars, listVars, thrVars,
           syncVars, dataVars, accVars, statVars
  <2>3. (Numbered /\ Accounted)'
    BY <1>5, <1>w, <2>1, Apart
       DEF Broadcast, IInv, ManagerInv, TypeOK, Numbered, Accounted, MoreRbls, SAt, Goto,
           Forking, Joined, Counted, Started, Registered, Known, Attached, Unanswered,
           WorkerPCs, SolverPCs, ExitPCs, mgrVars, listVars, thrVars, syncVars, dataVars,
           accVars, statVars
  <2>4. (Progress /\ NoLostWakeup /\ PeakSeen)'
    BY <1>5, <1>w, <2>1, Apart
       DEF Broadcast, IInv, ManagerInv, TypeOK, MutexHeld, Numbered, Progress, NoLostWakeup,
           PeakSeen, MoreRbls, SAt, Goto, Forking, Joined, Counted, Started, Registered, Known,
           Attached, Unanswered, WorkerPCs, SolverPCs, ExitPCs, mgrVars, listVars, thrVars,
           syncVars, dataVars, accVars, statVars
  <2>5. Pending' = Pending /\ resolvers' = resolvers
    BY <1>5 DEF Broadcast, IInv, TypeOK, Progress, Numbered, Pending, SAt, Goto, Forking,
       Joined, Counted, Started, Registered, Known, Attached, Unanswered, WorkerPCs, SolverPCs,
       ExitPCs, mgrVars, listVars, thrVars, syncVars, dataVars, accVars, statVars
  <2>6. ResolversCounted'
    BY <2>5 DEF IInv, ResolversCounted
  <2> QED
    BY <2>1, <2>2, <2>3, <2>4, <2>6 DEF IInv
<1>6. CASE SolverUnlock(t)
  <2>1. ManagerInv'
    BY <1>6, Apart, ManagerFrame
       DEF SolverUnlock, IInv, ManagerInv, MgrTypeOK, mgrVars, thrVars, listVars
  <2>2. (TypeOK /\ LockHeld /\ MutexHeld)'
    BY <1>6, <1>w, <2>1, Apart
       DEF SolverUnlock, IInv, ManagerInv, TypeOK, LockHeld, SearchersHold, MutexHeld, MoreRbls,
           Numbered, Progress, SAt, Goto, Forking, Joined, Counted, Started, Registered, Known,
           Attached, Unanswered, WorkerPCs, SolverPCs, ExitPCs, mgrVars, listVars, thrVars,
           syncVars, dataVars, accVars, statVars
  <2>3. (Numbered /\ Accounted)'
    BY <1>6, <1>w, <2>1, Apart
       DEF SolverUnlock, IInv, ManagerInv, TypeOK, Numbered, Accounted, MoreRbls, SAt, Goto,
           Forking, Joined, Counted, Started, Registered, Known, Attached, Unanswered,
           WorkerPCs, SolverPCs, ExitPCs, mgrVars, listVars, thrVars, syncVars, dataVars,
           accVars, statVars
  <2>4. (Progress /\ NoLostWakeup /\ PeakSeen)'
    BY <1>6, <1>w, <2>1, Apart
       DEF SolverUnlock, IInv, ManagerInv, TypeOK, MutexHeld, Numbered, Progress, NoLostWakeup,
           PeakSeen, MoreRbls, SAt, Goto, Forking, Joined, Counted, Started, Registered, Known,
           Attached, Unanswered, WorkerPCs, SolverPCs, ExitPCs, mgrVars, listVars, thrVars,
           syncVars, dataVars, accVars, statVars
  <2>5. Pending' = Pending /\ resolvers' = resolvers
    BY <1>6 DEF SolverUnlock, IInv, TypeOK, Progress, Numbered, Pending, SAt, Goto, Forking,
       Joined, Counted, Started, Registered, Known, Attached, Unanswered, WorkerPCs, SolverPCs,
       ExitPCs, mgrVars, listVars, thrVars, syncVars, dataVars, accVars, statVars
  <2>6. ResolversCounted'
    BY <2>5 DEF IInv, ResolversCounted
  <2> QED
    BY <2>1, <2>2, <2>3, <2>4, <2>6 DEF IInv
<1>7. CASE WalkCrash(t)
  <2>1. ManagerInv'
    BY <1>7, Apart, ManagerFrame
       DEF WalkCrash, IInv, ManagerInv, MgrTypeOK, mgrVars, thrVars, listVars
  <2>2. (TypeOK /\ LockHeld /\ MutexHeld)'
    BY <1>7, <1>w, <2>1, Apart
       DEF WalkCrash, IInv, ManagerInv, TypeOK, LockHeld, SearchersHold, MutexHeld, MoreRbls,
           Numbered, Progress, SAt, Goto, Forking, Joined, Counted, Started, Registered, Known,
           Attached, Unanswered, WorkerPCs, SolverPCs, ExitPCs, mgrVars, listVars, thrVars,
           syncVars, dataVars, accVars, statVars
  <2>3. (Numbered /\ Accounted)'
    BY <1>7, <1>w, <2>1, Apart
       DEF WalkCrash, IInv, ManagerInv, TypeOK, Numbered, Accounted, MoreRbls, SAt, Goto,
           Forking, Joined, Counted, Started, Registered, Known, Attached, Unanswered,
           WorkerPCs, SolverPCs, ExitPCs, mgrVars, listVars, thrVars, syncVars, dataVars,
           accVars, statVars
  <2>4. (Progress /\ NoLostWakeup /\ PeakSeen)'
    BY <1>7, <1>w, <2>1, Apart
       DEF WalkCrash, IInv, ManagerInv, TypeOK, MutexHeld, Numbered, Progress, NoLostWakeup,
           PeakSeen, MoreRbls, SAt, Goto, Forking, Joined, Counted, Started, Registered, Known,
           Attached, Unanswered, WorkerPCs, SolverPCs, ExitPCs, mgrVars, listVars, thrVars,
           syncVars, dataVars, accVars, statVars
  <2>5. Pending' = Pending /\ resolvers' = resolvers
    BY <1>7 DEF WalkCrash, IInv, TypeOK, Progress, Numbered, Pending, SAt, Goto, Forking,
       Joined, Counted, Started, Registered, Known, Attached, Unanswered, WorkerPCs, SolverPCs,
       ExitPCs, mgrVars, listVars, thrVars, syncVars, dataVars, accVars, statVars
  <2>6. ResolversCounted'
    BY <2>5 DEF IInv, ResolversCounted
  <2> QED
    BY <2>1, <2>2, <2>3, <2>4, <2>6 DEF IInv
<1>8. CASE rthread_exit(t)
  <2>a. /\ pc \in [Threads -> SolverPCs] /\ thr_unregister(t) /\ SearchersHold /\ ManagerInv
        /\ UNCHANGED <<proc, wpc, err, syncVars, dataVars, resdata_cnt, accVars, sent, statVars>>
    BY <1>8 DEF rthread_exit, IInv, TypeOK, LockHeld
  <2>1. /\ ManagerInv' /\ SearchersHold'
        /\ cancel' = cancel
        /\ \/ UNCHANGED listVars
           \/ lock = t /\ pc'[t] # pc[t] /\ nodes' = nodes \ {t} /\ nthreads' = nthreads - 1
        /\ lock = Creator => lock' = Creator /\ UNCHANGED listVars
        /\ pc' = [pc EXCEPT ![t] = pc'[t]]
        /\ pc[t] \in ExitPCs /\ pc'[t] \in ExitPCs
        /\ pc'[t] \in {"unreg", "search"} =>
              pc[t] \in {"unreg", "search"} /\ UNCHANGED listVars
    BY <2>a, UnregisterManager
  <2>2. /\ TypeOK' /\ LockHeld' /\ MutexHeld'
    BY <2>a, <2>1 DEF IInv, TypeOK, ManagerInv, LockHeld, MutexHeld, SolverPCs, ExitPCs, Forking,
           syncVars, dataVars, accVars, statVars
  <2>b. nodes' \subseteq nodes /\ nodes \ {t} \subseteq nodes' /\ nthreads' <= nthreads
    BY <2>1 DEF listVars, IInv, ManagerInv, MgrTypeOK
  <2>3. Numbered' /\ Accounted'
    <3>1. Numbered'
      BY <2>a, <2>1, <2>b DEF IInv, Numbered, Known, Counted, Started, Registered, Forking,
         ExitPCs
    <3>2. Accounted'
      BY <2>a, <2>1, <2>b DEF IInv, Accounted, Known, ExitPCs, listVars
    <3> QED
      BY <3>1, <3>2
  <2>c. Unanswered' = Unanswered /\ Attached' = Attached
    BY <2>a, <2>1 DEF Unanswered, Attached, ExitPCs
  <2>4. Progress' /\ NoLostWakeup' /\ PeakSeen'
    <3>1. Progress'
      BY <2>a, <2>c DEF IInv, Progress, Counted, Forking, Joined, syncVars, dataVars, accVars
    <3>2. NoLostWakeup'
      BY <2>a, <2>1 DEF IInv, NoLostWakeup, syncVars, ExitPCs
    <3>3. PeakSeen'
      BY <2>a, <2>1, <2>b DEF IInv, PeakSeen, TypeOK, ManagerInv, MgrTypeOK, statVars
    <3> QED
      BY <3>1, <3>2, <3>3
  <2>5. Pending' = Pending /\ resolvers' = resolvers
    BY <2>a, <2>c DEF Pending, syncVars, dataVars
  <2>6. ResolversCounted'
    BY <2>5 DEF IInv, ResolversCounted
  <2> QED
    BY <2>1, <2>2, <2>3, <2>4, <2>6 DEF IInv
<1> QED
  BY <1>1, <1>2, <1>3, <1>4, <1>5, <1>6, <1>7, <1>8 DEF SolverStep

-----------------------------------------------------------------------------
(* The invariant holds at first.                                           *)
LEMMA InitInv == Init => IInv
<1> SUFFICES ASSUME Init
             PROVE  IInv
  OBVIOUS
<1>1. ManagerInv
  BY Apart, FS_EmptySet DEF Init, MgrInit, ManagerInv, MgrTypeOK, ListIntact, CountAgrees
<1>2. TypeOK
  <2>1. reply \in Seq(Threads)
    BY DEF Init
  <2>2. MgrTypeOK /\ pc \in [Threads -> SolverPCs]
    BY <1>1 DEF Init, MgrInit, ManagerInv, SolverPCs
  <2>3. /\ proc \in {"running", "crashed"} /\ wpc \in WorkerPCs /\ err \in BOOLEAN
        /\ res_ready \in {"live", "destroyed"}
    BY DEF Init, WorkerPCs
  <2>6. resolvers \in Int /\ resolvers_ \in Threads \cup {Worker, Nobody}
    BY DEF Init
  <2>4. /\ resdata \in [Threads -> {"none", "live", "freed"}] /\ rscore \in [Threads -> Nat]
        /\ questions \in [Threads -> Nat] /\ positive \in [Threads -> Nat]
    BY DEF Init
  <2>5. /\ resdata_cnt \in Nat /\ resdata_cnt <= MaxTid
        /\ collected \in Nat /\ collected <= MaxTid /\ score \in Nat
        /\ num_solvers \in Nat /\ now_solvers \in Nat /\ max_solvers \in Nat
    BY MaxTidAssumption DEF Init
  <2> QED
    BY <2>1, <2>2, <2>3, <2>4, <2>5, <2>6 DEF TypeOK
<1>3. LockHeld /\ MutexHeld /\ Numbered /\ Accounted
  BY Apart DEF Init, MgrInit, LockHeld, SearchersHold, MutexHeld, Numbered, Accounted, Forking,
      Known, Started
<1>4. Progress /\ NoLostWakeup /\ PeakSeen
  BY Apart DEF Init, MgrInit, Progress, NoLostWakeup, PeakSeen, Counted, Forking, Joined
<1>5. Pending = {}
  BY DEF Init, Pending, Unanswered
<1>6. ResolversCounted
  BY <1>5, FS_EmptySet DEF Init, ResolversCounted
<1> QED
  BY <1>1, <1>2, <1>3, <1>4, <1>6 DEF IInv

(* Every step keeps the invariant.                                         *)
LEMMA NextInv == IInv /\ [Next]_vars => IInv'
<1> SUFFICES ASSUME IInv, [Next]_vars
             PROVE  IInv'
  OBVIOUS
<1>1. CASE WorkerStep \/ SpuriousWakeup
  BY <1>1, WorkerKeeps
<1>2. CASE \E t \in Threads : SolverStep(t)
  BY <1>2, SolverKeeps
<1>3. CASE UNCHANGED vars
  BY <1>3 DEF vars, mgrVars, thrVars, syncVars, dataVars, accVars, statVars, IInv, TypeOK,
      MgrTypeOK, ManagerInv, ListIntact, CountAgrees, LockHeld, SearchersHold, MutexHeld,
         Numbered, Accounted, Progress, ResolversCounted, NoLostWakeup, PeakSeen, Counted,
         Started, Registered, Known, Pending, Unanswered, Attached
<1> QED
  BY <1>1, <1>2, <1>3 DEF Next, Ended

LEMMA Invariant == Spec => []IInv
<1> QED
  BY InitInv, NextInv, PTL DEF Spec

-----------------------------------------------------------------------------
(* The state and the counters have their types.                            *)
THEOREM TypeCorrect == Spec => []TypeOK
<1>1. IInv => TypeOK
  BY DEF IInv
<1> QED
  BY <1>1, Invariant, PTL

(* The list of solvermgr is intact whenever a thread reads it.             *)
THEOREM ListStaysIntact == Spec => []ListIntact
<1>1. IInv => ListIntact
  BY DEF IInv, ManagerInv
<1> QED
  BY <1>1, Invariant, PTL

(* The counter of solvermgr counts its nodes and its failed registrations. *)
THEOREM CountIsExact == Spec => []CountAgrees
<1>1. IInv => CountAgrees
  BY DEF IInv, ManagerInv
<1> QED
  BY <1>1, Invariant, PTL

(* Every solver finds itself in the list of solvermgr, even one that ends  *)
(* before rthread_create has returned.                                     *)
THEOREM SolversFindThemselves == Spec => []UnregisterFinds
<1>1. IInv => UnregisterFinds
  <2> SUFFICES ASSUME IInv, NEW t \in Threads, pc[t] = "search", t \notin cancel
               PROVE  InList(t)
    BY DEF UnregisterFinds
  <2>1. t \in nodes
    BY Apart DEF IInv, Accounted, LockHeld, SearchersHold, Known
  <2> QED
    BY <2>1, ListReaches DEF IInv, ManagerInv
<1> QED
  BY <1>1, Invariant, PTL

(* A solver finds its resdata_t, the counter, the mutex and the condition  *)
(* variable of its worker as long as it uses them.                         *)
THEOREM StackOutlivesSolvers == Spec => []NoDanglingAccess
<1>1. IInv => NoDanglingAccess
  BY Waits DEF NoDanglingAccess, Joined
<1> QED
  BY <1>1, Invariant, PTL

(* A verdict on a request that could be read rests on the answer of every  *)
(* configured RBL.                                                         *)
THEOREM VerdictIsComplete == Spec => []AllAnswersIn
<1>1. IInv => AllAnswersIn
  BY DEF IInv, Progress, AllAnswersIn, Joined
<1> QED
  BY <1>1, Invariant, PTL

(* The counter on the stack of the worker counts the solvers that owe an   *)
(* answer, those that failed to start or were cancelled included.          *)
THEOREM CounterIsExact == Spec => []ResolversCounted
<1>1. IInv => ResolversCounted
  BY DEF IInv
<1> QED
  BY <1>1, Invariant, PTL

(* No wakeup of the worker is lost.                                        *)
THEOREM WakeupIsNotLost == Spec => []NoLostWakeup
<1>1. IInv => NoLostWakeup
  BY DEF IInv
<1> QED
  BY <1>1, Invariant, PTL

(* The peak of stats.c is no lower than the number of solvers.             *)
THEOREM PeakIsCounted == Spec => []PeakCounted
<1>1. IInv => PeakCounted
  BY DEF IInv, PeakSeen, PeakCounted
<1> QED
  BY <1>1, Invariant, PTL

-----------------------------------------------------------------------------
(*                    Sums and ascending sequences                         *)

\* The partial sums of s, up to the m-th.
IsPartial(f, s, m) == f = [n \in 0..m |-> IF n = 0 THEN 0 ELSE f[n - 1] + s[n]]

(* A set that has zero and the successor of each of its numbers has all.   *)
LEMMA NatSet ==
  ASSUME NEW S, 0 \in S, \A n \in Nat : n \in S => n + 1 \in S
  PROVE  Nat \subseteq S
<1> SUFFICES ASSUME Nat \ S # {} PROVE FALSE
  OBVIOUS
<1>1. PICK x \in Nat \ S : \A y \in Nat \ S : ~(<<y, x>> \in OpToRel(<, Nat))
  BY NatLessThanWellFounded, WFMin, Zenon
<1>2. x # 0 /\ x \in Nat
  BY <1>1
<1>3. x - 1 \in Nat /\ x - 1 < x /\ (x - 1) + 1 = x
  BY <1>2
<1>4. <<x - 1, x>> \in OpToRel(<, Nat)
  BY <1>2, <1>3, Zenon DEF OpToRel
<1>5. x - 1 \in S
  BY <1>1, <1>3, <1>4, Zenon
<1> QED
  BY <1>1, <1>3, <1>5

(* There is one way to add up a sequence, and Total is the last of its     *)
(* partial sums.                                                           *)
LEMMA TotalIsLast ==
  ASSUME NEW s, NEW m \in Nat, Len(s) = m, NEW f, IsPartial(f, s, m)
  PROVE  Total(s) = f[m]
<1> DEFINE g == CHOOSE g : g = [n \in 0..Len(s) |-> IF n = 0 THEN 0 ELSE g[n - 1] + s[n]]
<1>1. g = [n \in 0..Len(s) |-> IF n = 0 THEN 0 ELSE g[n - 1] + s[n]]
  BY DEF IsPartial
<1>2. Total(s) = g[Len(s)]
  BY DEF Total
<1> HIDE DEF g
<1> DEFINE S == {n \in Nat : n <= m => f[n] = g[n]}
<1>3. /\ \A n \in 0..m : f[n] = IF n = 0 THEN 0 ELSE f[n - 1] + s[n]
      /\ \A n \in 0..m : g[n] = IF n = 0 THEN 0 ELSE g[n - 1] + s[n]
  BY <1>1 DEF IsPartial
<1>4. 0 \in S
  BY <1>3
<1>5. ASSUME NEW n \in Nat, n \in S
      PROVE  n + 1 \in S
  <2> SUFFICES ASSUME n + 1 <= m PROVE f[n + 1] = g[n + 1]
    OBVIOUS
  <2>1. f[n] = g[n]
    BY <1>5
  <2>2. n + 1 # 0 /\ (n + 1) - 1 = n /\ n + 1 \in 0..m
    OBVIOUS
  <2>3. f[n + 1] = f[n] + s[n + 1] /\ g[n + 1] = g[n] + s[n + 1]
    BY <1>3, <2>2
  <2> QED
    BY <2>1, <2>3
<1>6. Nat \subseteq S
  <2> HIDE DEF S
  <2> QED
    BY <1>4, <1>5, NatSet
<1> QED
  BY <1>2, <1>6

(* A number greater than all of an ascending sequence goes to its end.     *)
LEMMA AscendingAppend ==
  ASSUME NEW T, T \subseteq Int, NEW s \in Seq(T), NEW x \in T,
         NEW S, Ascending(s, S), \A y \in S : y < x
  PROVE  Ascending(Append(s, x), S \cup {x})
<1> DEFINE t == Append(s, x)
           m == Len(s)
<1>1. /\ m \in Nat /\ DOMAIN s = 1..m /\ DOMAIN t = 1..(m + 1)
      /\ t[m + 1] = x /\ \A i \in 1..m : t[i] = s[i]
  OBVIOUS
<1> HIDE DEF t, m
<1>2. \A i \in 1..m : s[i] \in S
  BY <1>1 DEF Ascending
<1>3. {t[i] : i \in DOMAIN t} = S \cup {x}
  <2>1. 1..(m + 1) = (1..m) \cup {m + 1}
    BY <1>1
  <2>2. {s[i] : i \in 1..m} = S
    BY <1>1 DEF Ascending
  <2> QED
    BY <1>1, <2>1, <2>2
<1>4. ASSUME NEW i \in 1..(m + 1), NEW j \in 1..(m + 1), i < j
      PROVE  t[i] < t[j]
  <2>1. CASE j = m + 1
    <3>1. i \in 1..m
      BY <1>1, <1>4, <2>1
    <3> QED
      BY <1>1, <1>2, <2>1, <3>1
  <2>2. CASE j # m + 1
    <3>1. i \in 1..m /\ j \in 1..m
      BY <1>1, <1>4, <2>2
    <3> QED
      BY <1>1, <1>4, <3>1 DEF Ascending
  <2> QED
    BY <2>1, <2>2
<1> QED
  BY <1>1, <1>3, <1>4 DEF Ascending, t

-----------------------------------------------------------------------------
(*                       The promise to the client                         *)
(*                                                                         *)
(* While the worker adds up, its score is the last of the partial sums of  *)
(* the solvers' scores, and its reply has the RBLs that gave them; what it *)
(* has collected does not change any more.                                 *)

Hits == {t \in Threads : t <= collected /\ rscore[t] # 0}

Told      == sent = <<>> <=> wpc \notin {"close", "done"}
Weighed   == \A t \in Threads : rscore[t] \in {0, Weight[t]}
Added     == \E f : IsPartial(f, rscore, collected) /\ score = f[collected]
Listing   == Ascending(reply, Hits)
Completed == ~err /\ wpc \in {"answer", "close", "done"} => collected = resdata_cnt

RInv == Told /\ Weighed /\ Added /\ Listing /\ Completed

LEMMA RInit == Init => RInv
<1> SUFFICES ASSUME Init PROVE RInv
  OBVIOUS
<1>1. Added
  <2> DEFINE f == [n \in 0..0 |-> 0]
  <2>1. IsPartial(f, rscore, 0) /\ f[0] = 0
    BY DEF IsPartial
  <2> HIDE DEF f
  <2> QED
    BY <2>1 DEF Init, Added
<1>2. Hits = {}
  BY Apart DEF Init, Hits, Threads
<1>3. Listing
  BY <1>2 DEF Init, Listing, Ascending
<1> QED
  BY <1>1, <1>3 DEF Init, RInv, Told, Weighed, Completed

(* Nothing added yet: the score is zero, whatever the solvers have found.  *)
LEMMA NothingAdded ==
  ASSUME NEW s
  PROVE  \E f : IsPartial(f, s, 0) /\ f[0] = 0
<1> DEFINE f == [n \in 0..0 |-> 0]
<1>1. IsPartial(f, s, 0) /\ f[0] = 0
  BY DEF IsPartial
<1> HIDE DEF f
<1> QED
  BY <1>1

\* The steps that leave alone what the worker adds up.
Quiet ==
  \/ ReadRequest \/ CreateLock \/ Spawn \/ SpawnFails \/ Register \/ RegisterFailure
  \/ ForkUnlock \/ JoinLock \/ JoinWait \/ Relock \/ CollectEnd \/ Close \/ SpuriousWakeup
  \/ \E t \in Threads : \/ SolverKilled(t) \/ SolverLock(t) \/ CountDown(t) \/ Broadcast(t)
                        \/ SolverUnlock(t) \/ rthread_exit(t) \/ WalkCrash(t)
  \/ UNCHANGED vars

LEMMA StepsOfNext ==
  ASSUME [Next]_vars
  PROVE  Quiet \/ ForkLock \/ JoinDone \/ Collect \/ Answer \/ \E t \in Threads : Resolve(t)
BY DEF Next, WorkerStep, SolverStep, Ended, Quiet

LEMMA QuietKeeps ==
  ASSUME IInv, Quiet
  PROVE  /\ UNCHANGED <<rscore, collected, score, reply, sent>>
         /\ wpc' \in {"close", "done"} <=> wpc \in {"close", "done"}
         /\ Completed => Completed'
<1>1. CASE \/ ReadRequest \/ CreateLock \/ Spawn \/ SpawnFails \/ Register \/ RegisterFailure
           \/ ForkUnlock
  BY <1>1 DEF ReadRequest, CreateLock, Spawn, SpawnFails, Register, RegisterFailure, ForkUnlock,
     At, dataVars, accVars, Completed
<1>2. CASE JoinLock \/ JoinWait \/ Relock \/ CollectEnd \/ Close \/ SpuriousWakeup
  BY <1>2 DEF JoinLock, JoinWait, Relock, CollectEnd, Close, SpuriousWakeup, At, dataVars,
     accVars, Completed
<1>3. CASE \E t \in Threads : \/ SolverKilled(t) \/ SolverLock(t) \/ CountDown(t) \/ Broadcast(t)
                              \/ SolverUnlock(t) \/ rthread_exit(t) \/ WalkCrash(t)
  BY <1>3 DEF SolverKilled, SolverLock, CountDown, Broadcast, SolverUnlock, rthread_exit,
     WalkCrash, dataVars, accVars, Completed
<1>4. CASE UNCHANGED vars
  BY <1>4 DEF vars, dataVars, accVars, Completed
<1> QED
  BY <1>1, <1>2, <1>3, <1>4 DEF Quiet

LEMMA RNext ==
  ASSUME IInv, RInv, [Next]_vars
  PROVE  RInv'
<1>1. CASE Quiet
  <2>1. Added'
    <3>1. PICK f : IsPartial(f, rscore, collected) /\ score = f[collected]
      BY DEF RInv, Added
    <3>2. rscore' = rscore /\ collected' = collected /\ score' = score
      BY <1>1, QuietKeeps
    <3>3. IsPartial(f, rscore', collected') /\ score' = f[collected']
      BY <3>1, <3>2
    <3> QED
      BY <3>3 DEF Added
  <2> QED
    BY <1>1, <2>1, QuietKeeps DEF RInv, Told, Weighed, Listing, Hits
<1>2. CASE ForkLock \/ \E t \in Threads : Resolve(t)
  <2>1. /\ collected = 0 /\ score = 0 /\ UNCHANGED <<collected, score, reply, sent, err>>
        /\ wpc' = wpc \/ (wpc = "loop" /\ wpc' = "create")
        /\ wpc \notin Joined
    <3>1. CASE ForkLock
      BY <3>1 DEF ForkLock, At, accVars, IInv, Progress, Joined
    <3>2. CASE \E t \in Threads : Resolve(t)
      <4>1. PICK t \in Threads : Resolve(t)
        BY <3>2
      <4>2. t \in Attached
        BY <4>1 DEF Resolve, SAt, Attached
      <4> QED
        BY <4>1, <4>2, Waits DEF Resolve, accVars, IInv, Progress
    <3> QED
      BY <1>2, <3>1, <3>2
  <2>2. Weighed'
    <3>1. rscore \in [Threads -> Nat] /\ \A t \in Threads : rscore[t] \in {0, Weight[t]}
      BY DEF IInv, TypeOK, RInv, Weighed
    <3>2. CASE ForkLock
      BY <3>1, <3>2 DEF ForkLock, Weighed
    <3>3. CASE \E t \in Threads : Resolve(t)
      BY <3>1, <3>3 DEF Resolve, Weighed
    <3> QED
      BY <1>2, <3>2, <3>3
  <2>3. Added'
    <3>1. PICK f : IsPartial(f, rscore', 0) /\ f[0] = 0
      BY NothingAdded
    <3>2. collected' = 0 /\ score' = 0
      BY <2>1
    <3>3. IsPartial(f, rscore', collected') /\ score' = f[collected']
      BY <3>1, <3>2
    <3> QED
      BY <3>3 DEF Added
  <2>4. Hits = {} /\ Hits' = {}
    BY <2>1, Apart DEF Hits, Threads
  <2> QED
    BY <2>1, <2>2, <2>3, <2>4 DEF RInv, Told, Listing, Completed, Joined
<1>3. CASE JoinDone
  <2>1. /\ UNCHANGED <<rscore, collected, reply, sent, err>> /\ collected = 0
        /\ score' = 0 /\ wpc = "join" /\ wpc' = "collect"
    BY <1>3 DEF JoinDone, At, IInv, Progress, Joined, dataVars
  <2>2. Added'
    <3>1. PICK f : IsPartial(f, rscore', 0) /\ f[0] = 0
      BY NothingAdded
    <3>2. collected' = 0 /\ score' = 0
      BY <2>1
    <3>3. IsPartial(f, rscore', collected') /\ score' = f[collected']
      BY <3>1, <3>2
    <3> QED
      BY <3>3 DEF Added
  <2> QED
    BY <2>1, <2>2 DEF RInv, Told, Weighed, Listing, Hits, Completed
<1>4. CASE Collect
  <2> DEFINE c == collected
  <2>1. /\ c \in Nat /\ c + 1 \in Threads /\ collected' = c + 1
        /\ score' = score + rscore[c + 1]
        /\ reply' = IF rscore[c + 1] # 0 THEN Append(reply, c + 1) ELSE reply
        /\ UNCHANGED <<rscore, sent, err, wpc>> /\ wpc = "collect"
    <3>1. c \in Nat /\ resdata_cnt \in Nat /\ resdata_cnt <= MaxTid /\ c < resdata_cnt
      BY <1>4 DEF Collect, IInv, TypeOK
    <3>2. c + 1 \in Threads
      BY <3>1, Apart DEF Threads
    <3> QED
      BY <1>4, <3>1, <3>2 DEF Collect, At
  <2>2. Added'
    <3>1. PICK f : IsPartial(f, rscore, c) /\ score = f[c]
      BY DEF RInv, Added
    <3> DEFINE g == [n \in 0..(c + 1) |-> IF n = c + 1 THEN f[c] + rscore[c + 1] ELSE f[n]]
    <3>2. ASSUME NEW n \in 0..(c + 1)
          PROVE  g[n] = IF n = 0 THEN 0 ELSE g[n - 1] + rscore[n]
      <4>1. CASE n = c + 1
        <5>1. g[n] = f[c] + rscore[n] /\ n - 1 = c /\ g[c] = f[c] /\ n # 0
          BY <2>1, <4>1
        <5> QED
          BY <5>1
      <4>2. CASE n # c + 1
        <5>1. n \in 0..c
          BY <2>1, <4>2
        <5>2. f[n] = IF n = 0 THEN 0 ELSE f[n - 1] + rscore[n]
          BY <3>1, <5>1 DEF IsPartial
        <5>3. n # 0 => n - 1 \in 0..c
          BY <2>1, <5>1
        <5> QED
          BY <2>1, <5>1, <5>2, <5>3
      <4> QED
        BY <4>1, <4>2
    <3>3. g = [n \in 0..(c + 1) |-> IF n = 0 THEN 0 ELSE g[n - 1] + rscore[n]]
      BY <3>2
    <3>4. g[c + 1] = score + rscore[c + 1]
      BY <2>1, <3>1
    <3> HIDE DEF g
    <3>5. IsPartial(g, rscore', collected') /\ score' = g[collected']
      BY <2>1, <3>3, <3>4 DEF IsPartial
    <3> QED
      BY <3>5 DEF Added
  <2>3. Hits' = IF rscore[c + 1] # 0 THEN Hits \cup {c + 1} ELSE Hits
    BY <2>1 DEF Hits, Threads
  <2>4. Listing'
    <3>1. CASE rscore[c + 1] # 0
      <4>1. /\ reply \in Seq(Threads) /\ c + 1 \in Threads /\ Threads \subseteq Int
            /\ \A y \in Hits : y < c + 1
        BY <2>1 DEF IInv, TypeOK, Hits, Threads
      <4>2. Ascending(reply, Hits)
        BY DEF RInv, Listing
      <4>3. Ascending(Append(reply, c + 1), Hits \cup {c + 1})
        BY <4>1, <4>2, AscendingAppend
      <4> QED
        BY <2>1, <2>3, <3>1, <4>3 DEF Listing
    <3>2. CASE rscore[c + 1] = 0
      BY <2>1, <2>3, <3>2 DEF RInv, Listing
    <3> QED
      BY <3>1, <3>2
  <2> QED
    BY <2>1, <2>2, <2>4 DEF RInv, Told, Weighed, Completed
<1>5. CASE Answer
  <2>1. /\ UNCHANGED <<rscore, collected, score, reply, err, resdata_cnt>>
        /\ sent' # <<>> /\ wpc = "answer" /\ wpc' = "close"
    BY <1>5 DEF Answer, At, dataVars, accVars
  <2>2. Added'
    <3>1. PICK f : IsPartial(f, rscore, collected) /\ score = f[collected]
      BY DEF RInv, Added
    <3>3. IsPartial(f, rscore', collected') /\ score' = f[collected']
      BY <2>1, <3>1
    <3> QED
      BY <3>3 DEF Added
  <2> QED
    BY <2>1, <2>2 DEF RInv, Told, Weighed, Listing, Hits, Completed
<1> QED
  BY <1>1, <1>2, <1>3, <1>4, <1>5, StepsOfNext

(* The request of PolicyRequest does not move when a solver or the worker  *)
(* takes a step that neither brings an answer nor replies.                 *)
LEMMA OthersStutter ==
  ASSUME IInv, RInv, Quiet \/ ForkLock \/ JoinDone \/ Collect, ~ReadRequest
  PROVE  UNCHANGED Policy!vars
<1>1. /\ UNCHANGED <<sent, err>>
      /\ wpc = "read" <=> wpc' = "read"
  <2>1. CASE \/ CreateLock \/ Spawn \/ SpawnFails \/ Register \/ RegisterFailure \/ ForkUnlock
             \/ ForkLock \/ JoinDone \/ Collect
    BY <2>1 DEF CreateLock, Spawn, SpawnFails, Register, RegisterFailure, ForkUnlock, ForkLock,
       JoinDone, Collect, At
  <2>2. CASE JoinLock \/ JoinWait \/ Relock \/ CollectEnd \/ Close \/ SpuriousWakeup
    BY <2>2 DEF JoinLock, JoinWait, Relock, CollectEnd, Close, SpuriousWakeup, At
  <2>3. CASE \E t \in Threads : \/ SolverKilled(t) \/ SolverLock(t) \/ CountDown(t)
                                \/ Broadcast(t) \/ SolverUnlock(t) \/ rthread_exit(t)
                                \/ WalkCrash(t)
    BY <2>3 DEF SolverKilled, SolverLock, CountDown, Broadcast, SolverUnlock, rthread_exit,
       WalkCrash
  <2>4. CASE UNCHANGED vars
    BY <2>4 DEF vars
  <2> QED
    BY <2>1, <2>2, <2>3, <2>4 DEF Quiet
<1> DEFINE Waiting(t) == pc[t] \in {"none", "resolve", "cancelled"}
<1>2. \A t \in Threads : Waiting(t) <=> Waiting(t)'
  <2>0. pc \in [Threads -> SolverPCs]
    BY DEF IInv, TypeOK
  <2>1. CASE \/ CreateLock \/ SpawnFails \/ Register \/ RegisterFailure \/ ForkUnlock
             \/ ForkLock \/ JoinDone \/ Collect \/ JoinLock \/ JoinWait \/ Relock
             \/ CollectEnd \/ Close \/ SpuriousWakeup \/ UNCHANGED vars
    <3>1. pc' = pc
      BY <2>1 DEF CreateLock, SpawnFails, Register, RegisterFailure, ForkUnlock, ForkLock,
         JoinDone, Collect, JoinLock, JoinWait, Relock, CollectEnd, Close, SpuriousWakeup, vars,
         thrVars
    <3> QED
      BY <3>1
  <2>2. CASE Spawn
    <3>1. pc[resdata_cnt + 1] = "none" /\ resdata_cnt + 1 \in Threads
      BY <2>2, NextRbl DEF Spawn, At, IInv, Numbered, Started, Forking, TypeOK
    <3> QED
      BY <2>0, <2>2, <3>1 DEF Spawn, Goto
  <2>3. CASE \E t \in Threads : \/ SolverKilled(t) \/ SolverLock(t) \/ CountDown(t)
                                \/ Broadcast(t) \/ SolverUnlock(t) \/ WalkCrash(t)
    BY <2>0, <2>3 DEF SolverKilled, SolverLock, CountDown, Broadcast, SolverUnlock, WalkCrash,
       SAt, Goto, thrVars
  <2>4. CASE \E t \in Threads : rthread_exit(t)
    <3>1. PICK t \in Threads : rthread_exit(t)
      BY <2>4
    <3>2. /\ thr_unregister(t) /\ SearchersHold /\ ManagerInv
      BY <3>1 DEF rthread_exit, IInv, LockHeld
    <3>3. /\ pc' = [pc EXCEPT ![t] = pc'[t]]
          /\ pc[t] \in ExitPCs /\ pc'[t] \in ExitPCs
      BY <2>0, <3>2, UnregisterManager
    <3> QED
      BY <2>0, <3>3 DEF ExitPCs
  <2> QED
    BY <2>1, <2>2, <2>3, <2>4 DEF Quiet
<1>3. \A t \in Threads : ~Waiting(t) => rscore'[t] = rscore[t]
  <2>1. CASE ForkLock
    <3>1. pc[resdata_cnt + 1] = "none" /\ resdata_cnt + 1 \in Threads
      BY <2>1, NextRbl
         DEF ForkLock, At, MoreRbls, IInv, Numbered, Started, Forking, TypeOK
    <3>2. rscore \in [Threads -> Nat]
      BY DEF IInv, TypeOK
    <3> QED
      BY <2>1, <3>1, <3>2 DEF ForkLock
  <2>2. CASE Quiet
    BY <2>2, QuietKeeps
  <2>3. CASE JoinDone \/ Collect
    BY <2>3 DEF JoinDone, Collect, dataVars
  <2> QED
    BY <2>1, <2>2, <2>3
<1>4. Heard' = Heard
  BY <1>2, <1>3 DEF Heard
<1> QED
  BY <1>1, <1>4 DEF Policy!vars, Phase, Verdict, Names

(* A solver that has its answer is an RBL that answers.                    *)
LEMMA SolverAnswers ==
  ASSUME IInv, RInv, NEW t \in Threads, Resolve(t)
  PROVE  Policy!Answer(t)
<1>1. /\ wpc \notin Joined /\ ~err /\ wpc # "read"
  <2>1. t \in Attached
    BY DEF Resolve, SAt, Attached
  <2> QED
    BY <2>1, Waits
<1>2. sent = <<>> /\ UNCHANGED <<sent, err, wpc>>
  BY <1>1 DEF RInv, Told, Joined, Resolve
<1>3. Phase = "lookup" /\ UNCHANGED <<Phase, Verdict, Names>>
  BY <1>1, <1>2 DEF Phase, Verdict, Names
<1>4. Heard[t] = "pending"
  BY DEF Resolve, SAt, Heard
<1> DEFINE a == IF rscore'[t] # 0 THEN "listed" ELSE "clean"
<1>5. Heard' = [Heard EXCEPT ![t] = a]
  <2>1. /\ pc \in [Threads -> SolverPCs] /\ pc' = [pc EXCEPT ![t] = "lock"]
        /\ rscore \in [Threads -> Nat]
        /\ \A u \in Threads \ {t} : rscore'[u] = rscore[u]
    BY DEF Resolve, Goto, IInv, TypeOK
  <2> QED
    BY <2>1 DEF Heard
<1> QED
  BY <1>3, <1>4, <1>5 DEF Policy!Answer

(* The worker tells the client what PolicyRequest promises.                *)
LEMMA WorkerReplies ==
  ASSUME IInv, RInv, Answer
  PROVE  Policy!Reply
<1>1. /\ wpc = "answer" /\ wpc' = "close" /\ sent = <<>> /\ err' = err
      /\ sent' = IF ~err /\ score >= Threshold THEN <<"REJECT", reply>> ELSE <<"DUNNO", <<>>>>
      /\ UNCHANGED <<pc, rscore>>
  BY DEF Answer, At, RInv, Told, thrVars, dataVars
<1>2. Phase = IF err THEN "bad" ELSE "lookup"
  BY <1>1 DEF Phase
<1>3. Phase' = "replied"
  BY <1>1 DEF Phase
<1>4. Heard' = Heard
  BY <1>1 DEF Heard
<1>5. /\ Verdict' = IF ~err /\ score >= Threshold THEN "REJECT" ELSE "DUNNO"
      /\ Names' = IF ~err /\ score >= Threshold THEN reply ELSE <<>>
  BY <1>1 DEF Verdict, Names
<1>6. CASE err
  BY <1>2, <1>3, <1>4, <1>5, <1>6 DEF Policy!Reply
<1>7. CASE ~err
  <2>1. Unanswered = {}
    BY <1>1, <1>7 DEF IInv, Progress, Joined
  <2>2. \A t \in Threads : Heard[t] = IF rscore[t] # 0 THEN "listed" ELSE "clean"
    BY <2>1 DEF Unanswered, Heard
  <2>3. collected = MaxTid
    <3>1. collected = resdata_cnt /\ resdata_cnt \in Nat /\ resdata_cnt <= MaxTid
      BY <1>1, <1>7 DEF RInv, Completed, IInv, TypeOK
    <3>2. CASE MaxTid = 0
      BY <3>1, <3>2
    <3>3. CASE MaxTid # 0
      <4>1. MaxTid \in Threads
        BY <3>3, Apart DEF Threads
      <4>2. Started(MaxTid)
        BY <2>1, <4>1 DEF IInv, Numbered, Unanswered
      <4> QED
        BY <1>1, <3>1, <4>2, Apart DEF Started
    <3> QED
      BY <3>2, <3>3
  <2>4. Policy!Listed = Hits
    BY <2>2, <2>3, Apart DEF Policy!Listed, Hits
  <2>5. Policy!Total(Policy!Points) = score
    <3>1. Policy!Points = rscore
      <4>1. rscore = [t \in Threads |-> rscore[t]]
        BY DEF IInv, TypeOK
      <4>2. \A t \in Threads : rscore[t] = IF t \in Hits THEN Weight[t] ELSE 0
        BY <2>3, Apart DEF RInv, Weighed, Hits
      <4> QED
        BY <2>4, <4>1, <4>2 DEF Policy!Points
    <3>2. Len(rscore) = MaxTid /\ MaxTid \in Nat
      <4>1. rscore \in Seq(Nat) /\ DOMAIN rscore = 1..MaxTid /\ MaxTid \in Nat
        BY Apart DEF IInv, TypeOK, Threads
      <4> QED
        BY <4>1
    <3>3. PICK f : IsPartial(f, rscore, MaxTid) /\ score = f[MaxTid]
      BY <2>3 DEF RInv, Added
    <3>4. Total(rscore) = score
      BY <3>2, <3>3, TotalIsLast
    <3> QED
      BY <3>1, <3>4 DEF Total, Policy!Total
  <2>6. Policy!Ascending(reply, Policy!Listed)
    BY <2>4 DEF RInv, Listing, Ascending, Policy!Ascending
  <2>7. \A t \in Threads : Heard[t] # "pending"
    BY <2>2
  <2> QED
    BY <1>2, <1>3, <1>4, <1>5, <1>7, <2>5, <2>6, <2>7 DEF Policy!Reply
<1> QED
  BY <1>6, <1>7

(* The worker and its solvers, in whatever order they run and whatever     *)
(* fails, serve the request as PolicyRequest says: no reply before every   *)
(* RBL has answered, REJECT exactly when the weights reach the threshold,  *)
(* and with REJECT the RBLs that list the client, in the order of the      *)
(* configuration.                                                          *)
THEOREM LookupIsPolicyRequest == Spec => ImplementsPolicyRequest
<1>1. Init => Policy!Init
  BY DEF Init, MgrInit, Policy!Init, Phase, Heard, Verdict, Names
<1>2. IInv /\ RInv /\ [Next]_vars => [Policy!Next]_Policy!vars
  <2> SUFFICES ASSUME IInv, RInv, [Next]_vars
               PROVE  Policy!Next \/ UNCHANGED Policy!vars
    OBVIOUS
  <2>1. CASE ReadRequest
    <3>1. /\ sent = <<>> /\ wpc = "read" /\ wpc' # "read"
          /\ UNCHANGED <<sent, pc, rscore>> /\ err' \in BOOLEAN
      BY <2>1 DEF ReadRequest, At, RInv, Told, thrVars, dataVars
    <3>2. Policy!Read
      BY <3>1 DEF Policy!Read, Phase, Heard, Verdict, Names
    <3> QED
      BY <3>2 DEF Policy!Next
  <2>2. CASE Answer
    BY <2>2, WorkerReplies DEF Policy!Next
  <2>3. CASE \E t \in Threads : Resolve(t)
    BY <2>3, SolverAnswers DEF Policy!Next
  <2>4. CASE ~ReadRequest /\ (Quiet \/ ForkLock \/ JoinDone \/ Collect)
    BY <2>4, OthersStutter
  <2> QED
    BY <2>1, <2>2, <2>3, <2>4, StepsOfNext
<1>3. IInv /\ RInv /\ [Next]_vars => RInv'
  BY RNext
<1> QED
  BY <1>1, <1>2, <1>3, RInit, Invariant, PTL DEF Spec, ImplementsPolicyRequest, Policy!Spec
=============================================================================
