----------------------------- MODULE PoolProofs -----------------------------
(***************************************************************************)
(* The safety of the worker pool for every number of connections, every    *)
(* -m option, every length of the wait loop and every set of faults.       *)
(*                                                                         *)
(* The inductive invariant says, besides the types and the state of the    *)
(* manager: who holds the lock, that a connection which is being served    *)
(* has a number of its own, that every thread at work is known to the      *)
(* manager except the one that is just being registered, that the room     *)
(* seen by the wait loop is still there (and the lack of it too).           *)
(***************************************************************************)
EXTENDS Pool, ThrMgrProofs

\* The program counters at which the main thread holds the lock, and those
\* at which it works on the newest connection.
Holding == {"wait", "spawn", "register"}
Serving == {"switch", "lock"} \cup Holding

LockHeld == SearchersHold /\ (spc \in Holding => lock = Creator)

Numbered ==
  /\ \A t \in Known : t <= accepted
  /\ spc \in Serving => accepted \in Threads \ Known

Accounted ==
  \A t \in Busy : t \in Known \/ (spc = "register" /\ t = accepted)

Room ==
  /\ maxthreads > 0 => nthreads <= maxthreads
  /\ spc \in {"lock"} \cup Holding => maxthreads > 0
  /\ spc = "wait" /\ tries < MaxTries => PoolFull
  /\ spc \in {"spawn", "register"} => nthreads < maxthreads

IInv ==
  /\ TypeOK /\ ManagerInv
  /\ LockHeld /\ Numbered /\ Accounted /\ Room /\ PeakWithinPool

-----------------------------------------------------------------------------
LEMMA Holders ==
  /\ Creator \notin Threads /\ Nobody \notin Threads /\ NULL \notin Threads
  /\ Creator # Nobody
BY MaxTidAssumption DEF Creator, Nobody, NULL, Threads

LEMMA ClosesTyped ==
  ASSUME NEW t, CloseConn(t), closes \in [Threads -> Nat]
  PROVE  closes' \in [Threads -> Nat]
<1>1. closes' = [u \in Threads |-> IF u = t THEN closes[u] + 1 ELSE closes[u]]
  BY DEF CloseConn
<1> QED
  BY <1>1

(* The initial states satisfy the invariant.                               *)
LEMMA InitInv == Init => IInv
<1> SUFFICES ASSUME Init PROVE IInv
  OBVIOUS
<1>1. TypeOK
  <2>1. MgrTypeOK
    BY DEF Init, MgrInit, MgrTypeOK
  <2>2. pc \in [Threads -> WorkerPCs]
    BY DEF Init, MgrInit, WorkerPCs
  <2>3. maxthreads \in Int /\ tries \in 0..MaxTries /\ accepted \in 0..MaxTid
    BY MaxTidAssumption, MaxTriesAssumption, MaxThreadsOptsAssumption DEF Init
  <2> QED
    BY <2>1, <2>2, <2>3 DEF Init, TypeOK, AppStates, ServerPCs, Errors
<1>2. nodes \cup cancel = {}
  BY DEF Init, MgrInit
<1>3. ManagerInv
  <2>1. CountAgrees
    BY <1>2, FS_EmptySet DEF Init, MgrInit, CountAgrees
  <2> QED
    BY <1>1, <2>1 DEF Init, MgrInit, TypeOK, ManagerInv, ListIntact
<1>4. LockHeld
  BY DEF Init, MgrInit, LockHeld, SearchersHold, Holding
<1>5. Numbered
  BY <1>2 DEF Init, Numbered, Known, Serving, Holding
<1>6. Accounted
  BY DEF Init, MgrInit, Accounted, Busy
<1>7. Room /\ PeakWithinPool
  BY <1>1 DEF Init, MgrInit, TypeOK, Room, PeakWithinPool, Holding
<1> QED
  BY <1>1, <1>3, <1>4, <1>5, <1>6, <1>7 DEF IInv

(* The main thread: the accept loop, wthread_create and the shutdown.      *)
LEMMA ServerKeeps ==
  ASSUME IInv, ServerStep
  PROVE  IInv'
<1>1. CASE LoopTest
  <2>1. ManagerInv'
    BY <1>1, Holders, ManagerFrame
       DEF LoopTest, IInv, ManagerInv, MgrTypeOK, mgrVars, thrVars, listVars
  <2> QED
    BY <1>1, <2>1, Holders
       DEF LoopTest, At, IInv,
           TypeOK, MgrTypeOK, AppStates, ServerPCs, WorkerPCs, Errors,
           LockHeld, SearchersHold, Holding, Serving, Numbered, Known, Accounted, Busy, Room,
           PoolFull, PeakWithinPool,
           mgrVars, listVars, thrVars, procVars, srvVars, statVars
<1>2. CASE EnterAccept
  <2>1. ManagerInv'
    BY <1>2, Holders, ManagerFrame
       DEF EnterAccept, IInv, ManagerInv, MgrTypeOK, mgrVars, thrVars, listVars
  <2> QED
    BY <1>2, <2>1, Holders
       DEF EnterAccept, At, IInv,
           TypeOK, MgrTypeOK, AppStates, ServerPCs, WorkerPCs, Errors,
           LockHeld, SearchersHold, Holding, Serving, Numbered, Known, Accounted, Busy, Room,
           PoolFull, PeakWithinPool,
           mgrVars, listVars, thrVars, procVars, srvVars, statVars
<1>3. CASE AcceptInterrupted
  <2>1. ManagerInv'
    BY <1>3, Holders, ManagerFrame
       DEF AcceptInterrupted, IInv, ManagerInv, MgrTypeOK, mgrVars, thrVars, listVars
  <2> QED
    BY <1>3, <2>1, Holders
       DEF AcceptInterrupted, At, IInv,
           TypeOK, MgrTypeOK, AppStates, ServerPCs, WorkerPCs, Errors,
           LockHeld, SearchersHold, Holding, Serving, Numbered, Known, Accounted, Busy, Room,
           PoolFull, PeakWithinPool,
           mgrVars, listVars, thrVars, procVars, srvVars, statVars
<1>4. CASE Switch
  <2>1. ManagerInv'
    BY <1>4, Holders, ManagerFrame
       DEF Switch, IInv, ManagerInv, MgrTypeOK, mgrVars, thrVars, listVars
  <2> QED
    BY <1>4, <2>1, Holders
       DEF Switch, At, IInv,
           TypeOK, MgrTypeOK, AppStates, ServerPCs, WorkerPCs, Errors,
           LockHeld, SearchersHold, Holding, Serving, Numbered, Known, Accounted, Busy, Room,
           PoolFull, PeakWithinPool,
           mgrVars, listVars, thrVars, procVars, srvVars, statVars
<1>5. CASE LockMgr
  <2>1. ManagerInv'
    BY <1>5, Holders, ManagerFrame
       DEF LockMgr, IInv, ManagerInv, MgrTypeOK, mgrVars, thrVars, listVars
  <2> QED
    BY <1>5, <2>1, Holders, MaxTriesAssumption
       DEF LockMgr, At, IInv,
           TypeOK, MgrTypeOK, AppStates, ServerPCs, WorkerPCs, Errors,
           LockHeld, SearchersHold, Holding, Serving, Numbered, Known, Accounted, Busy, Room,
           PoolFull, PeakWithinPool,
           mgrVars, listVars, thrVars, procVars, srvVars, statVars
<1>6. CASE WaitRound
  <2>1. ManagerInv'
    BY <1>6, Holders, ManagerFrame
       DEF WaitRound, IInv, ManagerInv, MgrTypeOK, mgrVars, thrVars, listVars
  <2> QED
    BY <1>6, <2>1, Holders, MaxTriesAssumption
       DEF WaitRound, At, IInv,
           TypeOK, MgrTypeOK, AppStates, ServerPCs, WorkerPCs, Errors,
           LockHeld, SearchersHold, Holding, Serving, Numbered, Known, Accounted, Busy, Room,
           PoolFull, PeakWithinPool,
           mgrVars, listVars, thrVars, procVars, srvVars, statVars
<1>7. CASE WaitEnd
  <2>1. ManagerInv'
    BY <1>7, Holders, ManagerFrame
       DEF WaitEnd, IInv, ManagerInv, MgrTypeOK, mgrVars, thrVars, listVars
  <2> QED
    BY <1>7, <2>1, Holders, MaxTriesAssumption
       DEF WaitEnd, At, IInv,
           TypeOK, MgrTypeOK, AppStates, ServerPCs, WorkerPCs, Errors,
           LockHeld, SearchersHold, Holding, Serving, Numbered, Known, Accounted, Busy, Room,
           PoolFull, PeakWithinPool,
           mgrVars, listVars, thrVars, procVars, srvVars, statVars, WaitVerdict
<1>8. CASE Spawn
  <2>1. ManagerInv'
    BY <1>8, ManagerFrame DEF Spawn, IInv, ManagerInv, MgrTypeOK, mgrVars, listVars
  <2>2. accepted \in Threads \ Known
    BY <1>8 DEF Spawn, At, IInv, Numbered, Serving, Holding
  <2>3. TypeOK'
    BY <1>8, <2>1, <2>2 DEF Spawn, At, Goto, IInv, TypeOK, ManagerInv, ServerPCs, WorkerPCs,
           procVars, statVars, mgrVars
  <2>4. LockHeld' /\ Numbered' /\ Accounted'
    BY <1>8, <2>2 DEF Spawn, At, Goto, IInv, TypeOK, LockHeld, SearchersHold, Holding, Serving,
           Numbered, Known, Accounted, Busy, mgrVars
  <2>5. Room' /\ PeakWithinPool'
    BY <1>8 DEF Spawn, At, IInv, TypeOK, Room, PoolFull, PeakWithinPool, Holding,
           mgrVars, procVars, statVars
  <2> QED
    BY <2>1, <2>3, <2>4, <2>5 DEF IInv
<1>9. CASE SpawnFails
  <2>1. ManagerInv'
    BY <1>9, Holders, ManagerFrame
       DEF SpawnFails, IInv, ManagerInv, MgrTypeOK, mgrVars, thrVars, listVars
  <2> QED
    BY <1>9, <2>1, Holders
       DEF SpawnFails, At, IInv,
           TypeOK, MgrTypeOK, AppStates, ServerPCs, WorkerPCs, Errors,
           LockHeld, SearchersHold, Holding, Serving, Numbered, Known, Accounted, Busy, Room,
           PoolFull, PeakWithinPool,
           mgrVars, listVars, thrVars, procVars, srvVars, statVars
<1>10. CASE Register
  <2>1. /\ accepted \in Threads \ Known
        /\ \A n \in nodes : n < accepted
        /\ lock = Creator
    <3>1. accepted \in Threads \ Known /\ lock = Creator
      BY <1>10 DEF Register, At, IInv, Numbered, LockHeld, Serving, Holding
    <3>2. \A n \in nodes : n \in Int /\ accepted \in Int /\ n <= accepted /\ n # accepted
      BY <3>1, MaxTidAssumption DEF IInv, TypeOK, MgrTypeOK, Numbered, Known, Threads
    <3> QED
      BY <3>1, <3>2
  <2>2. ManagerInv' /\ nodes' = nodes \cup {accepted} /\ nthreads' = nthreads + 1
    BY <1>10, <2>1, RegisterManager DEF Register, IInv, Known, thrVars
  <2>3. TypeOK'
    BY <1>10, <2>2 DEF Register, IInv, TypeOK, ManagerInv, ServerPCs, procVars, thrVars, statVars
  <2>4. LockHeld' /\ Numbered' /\ Accounted'
    BY <1>10, <2>1, <2>2, Holders DEF Register, At, IInv, TypeOK, LockHeld, SearchersHold,
           Holding, Serving, Numbered, Known, Accounted, Busy, thrVars, Threads
  <2>5. Room' /\ PeakWithinPool'
    BY <1>10, <2>2 DEF Register, At, IInv, TypeOK, MgrTypeOK, Room, PoolFull,
           PeakWithinPool, Holding, procVars, statVars
  <2> QED
    BY <2>2, <2>3, <2>4, <2>5 DEF IInv
<1>11. CASE RegisterFailure
  <2>1. accepted \in Threads \ Known /\ lock = Creator
    BY <1>11 DEF RegisterFailure, At, IInv, Numbered, LockHeld, Serving, Holding
  <2>2. /\ nodes' = nodes /\ nthreads' = nthreads + 1
        /\ cancel' = cancel \cup {accepted} /\ lock' = Nobody /\ cursor' = cursor
        /\ pc' = pc /\ spc' = "refuse" /\ accepted' = accepted /\ RegisterFails
    BY <1>11 DEF RegisterFailure, RegisterFails
  <2>3. ManagerInv'
    BY <2>1, <2>2, FailManager DEF IInv
  <2>4. TypeOK'
    BY <1>11, <2>2, <2>3, ClosesTyped
       DEF RegisterFailure, IInv, TypeOK, ManagerInv, ServerPCs, Errors, procVars, statVars
  <2>5. LockHeld' /\ Numbered' /\ Accounted'
    BY <1>11, <2>1, <2>2, Holders DEF RegisterFailure, At, IInv, TypeOK, LockHeld,
           SearchersHold, Holding, Serving, Numbered, Known, Accounted, Busy, Threads
  <2>6. Room' /\ PeakWithinPool'
    BY <1>11, <2>2 DEF RegisterFailure, At, IInv, TypeOK, MgrTypeOK, Room, PoolFull,
           PeakWithinPool, Holding, procVars, statVars
  <2> QED
    BY <2>3, <2>4, <2>5, <2>6 DEF IInv
<1>12. CASE CountWorker
  <2>1. ManagerInv'
    BY <1>12, Holders, ManagerFrame
       DEF CountWorker, IInv, ManagerInv, MgrTypeOK, mgrVars, thrVars, listVars
  <2> QED
    BY <1>12, <2>1, Holders
       DEF CountWorker, At, IInv,
           TypeOK, MgrTypeOK, AppStates, ServerPCs, WorkerPCs, Errors,
           LockHeld, SearchersHold, Holding, Serving, Numbered, Known, Accounted, Busy, Room,
           PoolFull, PeakWithinPool,
           mgrVars, listVars, thrVars, procVars, srvVars, statVars, stats_worker_thr
<1>13. CASE Refuse
  <2>1. ManagerInv'
    BY <1>13, Holders, ManagerFrame
       DEF Refuse, IInv, ManagerInv, MgrTypeOK, mgrVars, thrVars, listVars
  <2> QED
    BY <1>13, <2>1, Holders, ClosesTyped
       DEF Refuse, At, IInv,
           TypeOK, MgrTypeOK, AppStates, ServerPCs, WorkerPCs, Errors,
           LockHeld, SearchersHold, Holding, Serving, Numbered, Known, Accounted, Busy, Room,
           PoolFull, PeakWithinPool,
           mgrVars, listVars, thrVars, procVars, srvVars, statVars
<1>14. CASE InlineServe
  <2>1. ManagerInv'
    BY <1>14, Holders, ManagerFrame
       DEF InlineServe, IInv, ManagerInv, MgrTypeOK, mgrVars, thrVars, listVars
  <2> QED
    BY <1>14, <2>1, Holders, ClosesTyped
       DEF InlineServe, At, IInv,
           TypeOK, MgrTypeOK, AppStates, ServerPCs, WorkerPCs, Errors,
           LockHeld, SearchersHold, Holding, Serving, Numbered, Known, Accounted, Busy, Room,
           PoolFull, PeakWithinPool,
           mgrVars, listVars, thrVars, procVars, srvVars, statVars
<1>15. CASE InlineExit
  <2>1. ManagerInv'
    BY <1>15, Holders, ManagerFrame
       DEF InlineExit, IInv, ManagerInv, MgrTypeOK, mgrVars, thrVars, listVars
  <2> QED
    BY <1>15, <2>1, Holders
       DEF InlineExit, At, IInv,
           TypeOK, MgrTypeOK, AppStates, ServerPCs, WorkerPCs, Errors,
           LockHeld, SearchersHold, Holding, Serving, Numbered, Known, Accounted, Busy, Room,
           PoolFull, PeakWithinPool,
           mgrVars, listVars, thrVars, procVars, srvVars, statVars
<1>16. CASE Teardown
  <2>1. ManagerInv'
    BY <1>16, Holders, ManagerFrame
       DEF Teardown, IInv, ManagerInv, MgrTypeOK, mgrVars, thrVars, listVars
  <2> QED
    BY <1>16, <2>1, Holders
       DEF Teardown, At, IInv,
           TypeOK, MgrTypeOK, AppStates, ServerPCs, WorkerPCs, Errors,
           LockHeld, SearchersHold, Holding, Serving, Numbered, Known, Accounted, Busy, Room,
           PoolFull, PeakWithinPool,
           mgrVars, listVars, thrVars, procVars, srvVars, statVars
<1>17. CASE Return
  <2>1. ManagerInv'
    BY <1>17, Holders, ManagerFrame
       DEF Return, IInv, ManagerInv, MgrTypeOK, mgrVars, thrVars, listVars
  <2> QED
    BY <1>17, <2>1, Holders
       DEF Return, At, IInv,
           TypeOK, MgrTypeOK, AppStates, ServerPCs, WorkerPCs, Errors,
           LockHeld, SearchersHold, Holding, Serving, Numbered, Known, Accounted, Busy, Room,
           PoolFull, PeakWithinPool,
           mgrVars, listVars, thrVars, procVars, srvVars, statVars
<1>18. CASE LockMgrFails
  <2>1. ManagerInv'
    BY <1>18, Holders, ManagerFrame
       DEF LockMgrFails, IInv, ManagerInv, MgrTypeOK, mgrVars, thrVars, listVars
  <2> QED
    BY <1>18, <2>1, Holders
       DEF LockMgrFails, At, IInv,
           TypeOK, MgrTypeOK, AppStates, ServerPCs, WorkerPCs, Errors,
           LockHeld, SearchersHold, Holding, Serving, Numbered, Known, Accounted, Busy, Room,
           PoolFull, PeakWithinPool,
           mgrVars, listVars, thrVars, procVars, srvVars, statVars
<1>19. CASE InlineHangs
  <2>1. ManagerInv'
    BY <1>19, Holders, ManagerFrame
       DEF InlineHangs, IInv, ManagerInv, MgrTypeOK, mgrVars, thrVars, listVars
  <2> QED
    BY <1>19, <2>1, Holders
       DEF InlineHangs, At, IInv,
           TypeOK, MgrTypeOK, AppStates, ServerPCs, WorkerPCs, Errors,
           LockHeld, SearchersHold, Holding, Serving, Numbered, Known, Accounted, Busy, Room,
           PoolFull, PeakWithinPool,
           mgrVars, listVars, thrVars, procVars, srvVars, statVars
<1>20. CASE InlineCrash
  <2>1. ManagerInv'
    BY <1>20, Holders, ManagerFrame
       DEF InlineCrash, IInv, ManagerInv, MgrTypeOK, mgrVars, thrVars, listVars
  <2> QED
    BY <1>20, <2>1, Holders
       DEF InlineCrash, At, IInv,
           TypeOK, MgrTypeOK, AppStates, ServerPCs, WorkerPCs, Errors,
           LockHeld, SearchersHold, Holding, Serving, Numbered, Known, Accounted, Busy, Room,
           PoolFull, PeakWithinPool,
           mgrVars, listVars, thrVars, procVars, srvVars, statVars
<1> QED
  BY <1>1, <1>2, <1>3, <1>4, <1>5, <1>6, <1>7, <1>8, <1>9,
     <1>10, <1>11, <1>12, <1>13, <1>14, <1>15, <1>16, <1>17,
     <1>18, <1>19, <1>20 DEF ServerStep

(* Connections, a failing accept() and signals.                            *)
LEMMA EnvironmentKeeps ==
  ASSUME IInv, Environment
  PROVE  IInv'
<1>1. CASE Accept
  <2>1. ManagerInv'
    BY <1>1, ManagerFrame DEF Accept, IInv, ManagerInv, MgrTypeOK, mgrVars, thrVars, listVars
  <2>2. accepted' \in Threads /\ accepted' = accepted + 1 /\ accepted' \in 0..MaxTid
    BY <1>1, MaxTidAssumption DEF Accept, IInv, TypeOK, Threads
  <2>3. \A t \in Known : t \in Int /\ t <= accepted
    BY MaxTidAssumption DEF IInv, Numbered, Known, TypeOK, MgrTypeOK, Threads
  <2>4. Numbered'
    BY <1>1, <2>2, <2>3 DEF Accept, IInv, TypeOK, Numbered, Known, mgrVars, thrVars
  <2> QED
    BY <1>1, <2>1, <2>2, <2>4
       DEF Accept, At, IInv,
           TypeOK, MgrTypeOK, AppStates, ServerPCs, WorkerPCs, Errors,
           LockHeld, SearchersHold, Holding, Serving, Numbered, Known, Accounted, Busy, Room,
           PoolFull, PeakWithinPool,
           mgrVars, listVars, thrVars, procVars, statVars
<1>2. CASE AcceptError
  <2>1. ManagerInv'
    BY <1>2, Holders, ManagerFrame
       DEF AcceptError, IInv, ManagerInv, MgrTypeOK, mgrVars, thrVars, listVars
  <2> QED
    BY <1>2, <2>1, Holders
       DEF AcceptError, At, IInv,
           TypeOK, MgrTypeOK, AppStates, ServerPCs, WorkerPCs, Errors,
           LockHeld, SearchersHold, Holding, Serving, Numbered, Known, Accounted, Busy, Room,
           PoolFull, PeakWithinPool,
           mgrVars, listVars, thrVars, procVars, srvVars, statVars
<1>3. CASE SigTermOnMain
  <2>1. ManagerInv'
    BY <1>3, Holders, ManagerFrame
       DEF SigTermOnMain, IInv, ManagerInv, MgrTypeOK, mgrVars, thrVars, listVars
  <2> QED
    BY <1>3, <2>1, Holders
       DEF SigTermOnMain, At, IInv,
           TypeOK, MgrTypeOK, AppStates, ServerPCs, WorkerPCs, Errors,
           LockHeld, SearchersHold, Holding, Serving, Numbered, Known, Accounted, Busy, Room,
           PoolFull, PeakWithinPool,
           mgrVars, listVars, thrVars, procVars, srvVars, statVars, InterruptMain
<1>4. CASE SigUsr1OnMain
  <2>1. ManagerInv'
    BY <1>4, Holders, ManagerFrame
       DEF SigUsr1OnMain, IInv, ManagerInv, MgrTypeOK, mgrVars, thrVars, listVars
  <2> QED
    BY <1>4, <2>1, Holders
       DEF SigUsr1OnMain, At, IInv,
           TypeOK, MgrTypeOK, AppStates, ServerPCs, WorkerPCs, Errors,
           LockHeld, SearchersHold, Holding, Serving, Numbered, Known, Accounted, Busy, Room,
           PoolFull, PeakWithinPool,
           mgrVars, listVars, thrVars, procVars, srvVars, statVars, InterruptMain
<1>5. ASSUME NEW t \in Threads, SigTermOnWorker(t)
     PROVE  IInv'
  <2>1. ManagerInv'
    BY <1>5, ManagerFrame
       DEF SigTermOnWorker, IInv, ManagerInv, MgrTypeOK, mgrVars, thrVars, listVars
  <2> QED
    BY <1>5, <2>1
       DEF SigTermOnWorker, IInv,
           TypeOK, MgrTypeOK, AppStates, ServerPCs, WorkerPCs, Errors,
           LockHeld, SearchersHold, Holding, Serving, Numbered, Known, Accounted, Busy, Room,
           PoolFull, PeakWithinPool,
           mgrVars, listVars, thrVars, procVars, srvVars, statVars
<1> QED
  BY <1>1, <1>2, <1>3, <1>4, <1>5 DEF Environment

(* The workers.                                                            *)
LEMMA WorkerKeeps ==
  ASSUME IInv, NEW t \in Threads, WorkerStep(t)
  PROVE  IInv'
<1>1. CASE WorkerReply(t)
  <2>1. ManagerInv'
    BY <1>1, Holders, ManagerFrame
       DEF WorkerReply, IInv, ManagerInv, MgrTypeOK, mgrVars, thrVars, listVars
  <2> QED
    BY <1>1, <2>1, Holders
       DEF WorkerReply, At, IInv,
           TypeOK, MgrTypeOK, AppStates, ServerPCs, WorkerPCs, Errors,
           LockHeld, SearchersHold, Holding, Serving, Numbered, Known, Accounted, Busy, Room,
           PoolFull, PeakWithinPool,
           mgrVars, listVars, thrVars, procVars, srvVars, statVars, WAt, Goto
<1>2. CASE WorkerClose(t)
  <2>1. ManagerInv'
    BY <1>2, Holders, ManagerFrame
       DEF WorkerClose, IInv, ManagerInv, MgrTypeOK, mgrVars, thrVars, listVars
  <2> QED
    BY <1>2, <2>1, Holders, ClosesTyped
       DEF WorkerClose, At, IInv,
           TypeOK, MgrTypeOK, AppStates, ServerPCs, WorkerPCs, Errors,
           LockHeld, SearchersHold, Holding, Serving, Numbered, Known, Accounted, Busy, Room,
           PoolFull, PeakWithinPool,
           mgrVars, listVars, thrVars, procVars, srvVars, statVars, WAt, Goto, ExitPCs
<1>3. CASE WorkerKilled(t)
  <2>1. ManagerInv'
    BY <1>3, Holders, ManagerFrame
       DEF WorkerKilled, IInv, ManagerInv, MgrTypeOK, mgrVars, thrVars, listVars
  <2> QED
    BY <1>3, <2>1, Holders
       DEF WorkerKilled, At, IInv,
           TypeOK, MgrTypeOK, AppStates, ServerPCs, WorkerPCs, Errors,
           LockHeld, SearchersHold, Holding, Serving, Numbered, Known, Accounted, Busy, Room,
           PoolFull, PeakWithinPool,
           mgrVars, listVars, thrVars, procVars, srvVars, statVars, Goto, ExitPCs
<1>4. CASE WalkCrash(t)
  <2>1. ManagerInv'
    BY <1>4, Holders, ManagerFrame
       DEF WalkCrash, IInv, ManagerInv, MgrTypeOK, mgrVars, thrVars, listVars
  <2> QED
    BY <1>4, <2>1, Holders
       DEF WalkCrash, At, IInv,
           TypeOK, MgrTypeOK, AppStates, ServerPCs, WorkerPCs, Errors,
           LockHeld, SearchersHold, Holding, Serving, Numbered, Known, Accounted, Busy, Room,
           PoolFull, PeakWithinPool,
           mgrVars, listVars, thrVars, procVars, srvVars, statVars
<1>5. CASE wthread_exit(t)
  <2>1. /\ pc \in [Threads -> WorkerPCs] /\ thr_unregister(t) /\ SearchersHold /\ ManagerInv
        /\ UNCHANGED <<procVars, srvVars, closes, statVars>>
    BY <1>5 DEF wthread_exit, IInv, TypeOK, LockHeld
  <2>2. /\ ManagerInv' /\ SearchersHold'
        /\ cancel' = cancel
        /\ \/ UNCHANGED listVars
           \/ lock = t /\ pc'[t] # pc[t] /\ nodes' = nodes \ {t} /\ nthreads' = nthreads - 1
        /\ lock = Creator => lock' = Creator /\ UNCHANGED listVars
        /\ pc' = [pc EXCEPT ![t] = pc'[t]]
        /\ pc[t] \in ExitPCs /\ pc'[t] \in ExitPCs
        /\ pc'[t] \in {"unreg", "search"} =>
              pc[t] \in {"unreg", "search"} /\ UNCHANGED listVars
    BY <2>1, UnregisterManager
  <2>3. TypeOK'
    BY <2>1, <2>2 DEF IInv, TypeOK, ManagerInv, WorkerPCs, procVars, srvVars, statVars
  <2>4. LockHeld'
    BY <2>1, <2>2 DEF IInv, LockHeld, srvVars
  <2>5. nodes' \subseteq nodes /\ nodes \ {t} \subseteq nodes'
    BY <2>2 DEF listVars
  <2>6. Numbered'
    BY <2>1, <2>2, <2>5 DEF IInv, Numbered, Known, srvVars
  <2>7. Accounted'
    <3> SUFFICES ASSUME NEW u \in Busy'
                 PROVE  (u \in Known \/ (spc = "register" /\ u = accepted))'
      BY DEF Accounted
    <3>1. u \in Busy /\ (u = t => UNCHANGED listVars)
      BY <2>1, <2>2 DEF Busy, ExitPCs
    <3>2. u \in Known \/ (spc = "register" /\ u = accepted)
      BY <3>1 DEF IInv, Accounted
    <3> QED
      BY <2>1, <2>2, <2>5, <3>1, <3>2 DEF Known, srvVars, listVars
  <2>8. Room' /\ PeakWithinPool'
    BY <2>1, <2>2 DEF IInv, TypeOK, MgrTypeOK, Room, PoolFull, PeakWithinPool,
           LockHeld, Holding, srvVars, procVars, listVars, statVars
  <2> QED
    BY <2>2, <2>3, <2>4, <2>6, <2>7, <2>8 DEF IInv
<1>6. CASE WorkerHangs(t)
  <2>1. ManagerInv'
    BY <1>6, Holders, ManagerFrame
       DEF WorkerHangs, IInv, ManagerInv, MgrTypeOK, mgrVars, thrVars, listVars
  <2> QED
    BY <1>6, <2>1, Holders
       DEF WorkerHangs, At, IInv,
           TypeOK, MgrTypeOK, AppStates, ServerPCs, WorkerPCs, Errors,
           LockHeld, SearchersHold, Holding, Serving, Numbered, Known, Accounted, Busy, Room,
           PoolFull, PeakWithinPool,
           mgrVars, listVars, thrVars, procVars, srvVars, statVars, WAt, Goto
<1>7. CASE WorkerCrash(t)
  <2>1. ManagerInv'
    BY <1>7, Holders, ManagerFrame
       DEF WorkerCrash, IInv, ManagerInv, MgrTypeOK, mgrVars, thrVars, listVars
  <2> QED
    BY <1>7, <2>1, Holders
       DEF WorkerCrash, At, IInv,
           TypeOK, MgrTypeOK, AppStates, ServerPCs, WorkerPCs, Errors,
           LockHeld, SearchersHold, Holding, Serving, Numbered, Known, Accounted, Busy, Room,
           PoolFull, PeakWithinPool,
           mgrVars, listVars, thrVars, procVars, srvVars, statVars, WAt
<1> QED
  BY <1>1, <1>2, <1>3, <1>4, <1>5, <1>6, <1>7 DEF WorkerStep

(* Every step keeps the invariant.                                         *)
LEMMA NextInv == IInv /\ [Next]_vars => IInv'
<1> SUFFICES ASSUME IInv, [Next]_vars PROVE IInv'
  OBVIOUS
<1>1. CASE UNCHANGED vars
  <2>1. ManagerInv'
    BY <1>1, ManagerFrame
       DEF vars, IInv, ManagerInv, MgrTypeOK, mgrVars, thrVars, listVars
  <2> QED
    BY <1>1, <2>1
       DEF vars, IInv,
           TypeOK, MgrTypeOK, AppStates, ServerPCs, WorkerPCs, Errors,
           LockHeld, SearchersHold, Holding, Serving, Numbered, Known, Accounted, Busy, Room,
           PoolFull, PeakWithinPool,
           mgrVars, listVars, thrVars, procVars, srvVars, statVars
<1> QED
  BY <1>1, ServerKeeps, EnvironmentKeeps, WorkerKeeps DEF Next, Ended

-----------------------------------------------------------------------------
LEMMA Invariant == Spec => []IInv
<1>1. Init => IInv
  BY InitInv
<1>2. IInv /\ [Next]_vars => IInv'
  BY NextInv
<1> QED
  BY <1>1, <1>2, PTL DEF Spec

(* The variables of the accept loop and the pool have their types.         *)
THEOREM TypeCorrect == Spec => []TypeOK
<1>1. IInv => TypeOK
  BY DEF IInv
<1> QED
  BY <1>1, Invariant, PTL

(* The list of the manager stays well formed whatever order threads come   *)
(* and go in.                                                              *)
THEOREM ListStaysIntact == Spec => []ListIntact
<1>1. IInv => ListIntact
  BY DEF IInv, ManagerInv
<1> QED
  BY <1>1, Invariant, PTL

(* nthreads is the number of nodes and of failed registrations.            *)
THEOREM CountIsExact == Spec => []CountAgrees
<1>1. IInv => CountAgrees
  BY DEF IInv, ManagerInv
<1> QED
  BY <1>1, Invariant, PTL

(* A worker that searches for itself in the list is there, unless its      *)
(* registration failed: it searches with the lock, so it is not the one    *)
(* that is just being registered, and the list reaches every node.         *)
THEOREM UnregisterAlwaysFinds == Spec => []UnregisterFinds
<1>1. IInv => UnregisterFinds
  <2> SUFFICES ASSUME IInv, NEW t \in Threads, pc[t] = "search", t \notin cancel
               PROVE  InList(t)
    BY DEF UnregisterFinds
  <2>1. lock = t /\ spc # "register"
    BY Holders DEF IInv, LockHeld, SearchersHold, Holding
  <2>2. t \in nodes
    BY <2>1 DEF IInv, Accounted, Busy, Known
  <2> QED
    BY <2>2, ListReaches DEF IInv, ManagerInv
<1> QED
  BY <1>1, Invariant, PTL

(* No more than maxthreads workers are busy: they are all counted, but for *)
(* the one being registered, for which there is room.                      *)
THEOREM PoolIsBounded == Spec => []PoolBounded
<1>1. IInv => PoolBounded
  <2> SUFFICES ASSUME IInv, maxthreads > 0
               PROVE  Cardinality(Busy) <= maxthreads
    BY DEF PoolBounded, IInv, TypeOK
  <2>1. /\ IsFiniteSet(Known) /\ Cardinality(Known) = nthreads
        /\ nthreads \in Nat /\ maxthreads \in Int
    BY KnownFinite DEF IInv, ManagerInv, CountAgrees, Known, TypeOK, MgrTypeOK
  <2>2. CASE spc = "register"
    <3>1. Busy \subseteq Known \cup {accepted}
      BY DEF IInv, Accounted
    <3>2. /\ IsFiniteSet(Known \cup {accepted})
          /\ Cardinality(Known \cup {accepted}) = nthreads + 1
      BY <2>1, <2>2, FS_AddElement DEF IInv, Numbered, Serving, Holding
    <3>3. Cardinality(Busy) <= nthreads + 1 /\ Cardinality(Busy) \in Nat
      BY <3>1, <3>2, FS_Subset, FS_CardinalityType
    <3>4. nthreads < maxthreads
      BY <2>2 DEF IInv, Room
    <3> QED
      BY <2>1, <3>3, <3>4
  <2>3. CASE spc # "register"
    <3>1. Busy \subseteq Known
      BY <2>3 DEF IInv, Accounted
    <3>2. Cardinality(Busy) <= nthreads /\ Cardinality(Busy) \in Nat
      BY <2>1, <3>1, FS_Subset, FS_CardinalityType
    <3>3. nthreads <= maxthreads
      BY DEF IInv, Room
    <3> QED
      BY <2>1, <3>2, <3>3
  <2> QED
    BY <2>2, <2>3
<1> QED
  BY <1>1, Invariant, PTL

-----------------------------------------------------------------------------
(* Who still has to close which connection: a worker its own until it has, *)
(* the main thread the newest one until it has handed it over.  Only the   *)
(* connection of a worker that could not be registered is nobody's.        *)
Unserved == {"switch", "lock", "wait", "spawn", "refuse", "inline", "inline_hang"}

Open(t) == closes[t] = 0 /\ pc[t] = "none"

ClosersApart ==
  /\ ClosedOnce
  /\ \A t \in Threads : t > accepted => Open(t)
  /\ \A t \in Threads : pc[t] \in {"run", "hang", "close"} => t \in cancel \/ closes[t] = 0
  /\ spc \in Unserved => accepted \in Threads /\ (accepted \in cancel \/ Open(accepted))

LEMMA ServerClosesApart ==
  ASSUME IInv, ClosersApart, ServerStep
  PROVE  ClosersApart'
<1> USE DEF At, ClosersApart, ClosedOnce, Open, Unserved, IInv, TypeOK, mgrVars, listVars, thrVars,
        procVars, srvVars, statVars, CloseConn, Goto
<1>1. CASE LoopTest \/ EnterAccept \/ AcceptInterrupted \/ CountWorker \/ Teardown \/ Return
  BY <1>1 DEF LoopTest, EnterAccept, AcceptInterrupted, CountWorker, Teardown, Return
<1>2. CASE Switch \/ LockMgr \/ LockMgrFails \/ WaitRound \/ WaitEnd \/ SpawnFails
  BY <1>2 DEF Switch, LockMgr, LockMgrFails, WaitRound, WaitEnd, SpawnFails
<1>3. CASE Spawn
  <2>1. accepted \notin cancel
    BY <1>3 DEF Spawn, Numbered, Known, Serving, Holding
  <2> QED
    BY <1>3, <2>1, MaxTidAssumption DEF Spawn, Threads
<1>4. CASE Register
  BY <1>4 DEF Register
<1>5. CASE RegisterFailure
  BY <1>5, MaxTidAssumption DEF RegisterFailure, Numbered, Serving, Holding, Threads
<1>6. CASE Refuse
  BY <1>6, MaxTidAssumption DEF Refuse, Threads
<1>7. CASE InlineServe
  BY <1>7, MaxTidAssumption DEF InlineServe, Threads
<1>8. CASE InlineHangs \/ InlineCrash \/ InlineExit
  BY <1>8 DEF InlineHangs, InlineCrash, InlineExit
<1> QED
  BY <1>1, <1>2, <1>3, <1>4, <1>5, <1>6, <1>7, <1>8 DEF ServerStep

LEMMA OthersCloseApart ==
  ASSUME IInv, ClosersApart, Environment \/ \E t \in Threads : WorkerStep(t)
  PROVE  ClosersApart'
<1> USE DEF ClosersApart, ClosedOnce, Open, Unserved, IInv, TypeOK, mgrVars, listVars, thrVars,
        procVars, srvVars, statVars
<1>1. CASE Accept
  BY <1>1, MaxTidAssumption DEF Accept, At, Threads
<1>2. CASE Environment /\ ~Accept
  BY <1>2 DEF Environment, AcceptError, SigTermOnMain, SigUsr1OnMain, SigTermOnWorker,
     InterruptMain, At
<1>3. ASSUME NEW t \in Threads, WorkerStep(t), ~ wthread_exit(t)
      PROVE  ClosersApart'
  <2>1. CASE WorkerReply(t) \/ WorkerHangs(t)
    BY <2>1 DEF WorkerReply, WorkerHangs, WAt, Goto
  <2>2. CASE WorkerClose(t)
    <3>1. closes' = [closes EXCEPT ![t] = closes[t] + 1] /\ pc' = [pc EXCEPT ![t] = "unreg"]
      BY <2>2 DEF WorkerClose, CloseConn, Goto
    <3>2. pc[t] = "close" /\ t \notin cancel /\ cancel' = cancel /\ UNCHANGED srvVars
      BY <2>2 DEF WorkerClose, WAt
    <3> QED
      BY <3>1, <3>2
  <2>3. CASE WorkerKilled(t) \/ WalkCrash(t) \/ WorkerCrash(t)
    BY <2>3 DEF WorkerKilled, WalkCrash, WorkerCrash, Goto
  <2> QED
    BY <1>3, <2>1, <2>2, <2>3 DEF WorkerStep
<1>4. ASSUME NEW t \in Threads, wthread_exit(t)
      PROVE  ClosersApart'
  <2>1. /\ pc' = [pc EXCEPT ![t] = pc'[t]] /\ pc[t] \in ExitPCs /\ pc'[t] \in ExitPCs
        /\ cancel' = cancel /\ UNCHANGED <<srvVars, closes>>
    BY <1>4, UnregisterManager DEF wthread_exit, LockHeld
  <2> QED
    BY <2>1 DEF ExitPCs
<1> QED
  BY <1>1, <1>2, <1>3, <1>4

(* No connection is closed twice but one whose worker could not be         *)
(* registered: the main thread closes one only before it has a worker, and *)
(* a worker its own only, whatever became of other connections.            *)
THEOREM ClosesHappenOnce == Spec => []ClosedOnce
<1>1. Init => ClosersApart
  BY MaxTidAssumption DEF Init, MgrInit, ClosersApart, ClosedOnce, Open, Unserved, Threads
<1>2. IInv /\ ClosersApart /\ [Next]_vars => ClosersApart'
  <2>1. ASSUME ClosersApart, UNCHANGED vars PROVE ClosersApart'
    BY <2>1 DEF vars, ClosersApart, ClosedOnce, Open, Unserved, thrVars, srvVars
  <2> QED
    BY <2>1, ServerClosesApart, OthersCloseApart DEF Next, Ended
<1>3. ClosersApart => ClosedOnce
  BY DEF ClosersApart
<1> QED
  BY <1>1, <1>2, <1>3, Invariant, PTL DEF Spec

(* The number of parallel workers in the log never exceeds the -m option.  *)
THEOREM PeakIsWithinPool == Spec => []PeakWithinPool
<1>1. IInv => PeakWithinPool
  BY DEF IInv
<1> QED
  BY <1>1, Invariant, PTL

(* The counter and the list change in a step of the lock's holder only.    *)
THEOREM HolderWritesOnly == Spec => OnlyHolderWrites
<1> DEFINE ByHolder ==
      \/ UNCHANGED listVars
      \/ lock = Creator /\ spc' # spc
      \/ lock \in Threads /\ pc'[lock] # pc[lock]
<1>1. IInv /\ [Next]_vars => [ByHolder]_vars
  <2> SUFFICES ASSUME IInv, Next PROVE ByHolder
    OBVIOUS
  <2>1. CASE ServerStep
    <3>1. CASE Register \/ RegisterFailure
      BY <3>1 DEF Register, RegisterFailure, At, IInv, LockHeld, Holding
    <3>2. CASE ~ (Register \/ RegisterFailure)
      BY <2>1, <3>2 DEF ServerStep, LoopTest, EnterAccept, AcceptInterrupted, Switch, LockMgr,
             LockMgrFails, WaitRound, WaitEnd, Spawn, SpawnFails, CountWorker, Refuse,
             InlineServe, InlineHangs, InlineCrash, InlineExit, Teardown, Return, mgrVars, listVars
    <3> QED
      BY <3>1, <3>2
  <2>2. ASSUME NEW t \in Threads, WorkerStep(t) PROVE ByHolder
    <3>1. CASE wthread_exit(t)
      BY <3>1, UnregisterManager DEF wthread_exit, IInv, TypeOK, LockHeld
    <3>2. CASE ~ wthread_exit(t)
      BY <2>2, <3>2 DEF WorkerStep, WorkerReply, WorkerHangs, WorkerCrash, WorkerClose,
             WorkerKilled, WalkCrash, mgrVars, listVars
    <3> QED
      BY <3>1, <3>2
  <2>3. CASE Environment
    BY <2>3 DEF Environment, Accept, AcceptError, SigTermOnMain, SigUsr1OnMain,
           SigTermOnWorker, mgrVars, listVars
  <2>4. CASE Ended
    BY <2>4 DEF Ended, vars, mgrVars, listVars
  <2> QED
    BY <2>1, <2>2, <2>3, <2>4 DEF Next
<1> QED
  BY <1>1, Invariant, PTL DEF Spec, OnlyHolderWrites

(* A thread is created only when the first look at the counter saw room:   *)
(* nobody can lower the counter while wthread_create waits with the lock.  *)
THEOREM WaitingIsFutile == Spec => WaitIsFutile
<1> DEFINE AtOnce == spc = "wait" /\ spc' = "spawn" => tries = MaxTries
<1>1. IInv /\ [Next]_vars => [AtOnce]_vars
  <2> SUFFICES ASSUME IInv, Next, spc = "wait", spc' = "spawn" PROVE tries = MaxTries
    OBVIOUS
  <2>1. WaitEnd
    BY DEF Next, ServerStep, LoopTest, EnterAccept, AcceptInterrupted, Switch, LockMgr,
           LockMgrFails, WaitRound, Spawn, SpawnFails, Register, RegisterFailure, CountWorker,
           Refuse, InlineServe, InlineHangs, InlineCrash, InlineExit, Teardown, Return,
           WorkerStep, WorkerReply, WorkerHangs, WorkerCrash, WorkerClose, WorkerKilled, WalkCrash, wthread_exit, Environment, Accept, AcceptError,
           SigTermOnMain, InterruptMain, SigUsr1OnMain, SigTermOnWorker, Ended, vars, srvVars, At
  <2>2. ~ PoolFull
    BY <2>1 DEF WaitEnd, WaitVerdict, IInv, TypeOK
  <2> QED
    BY <2>2, MaxTriesAssumption DEF IInv, TypeOK, Room
<1> QED
  BY <1>1, Invariant, PTL DEF Spec, WaitIsFutile

=============================================================================
