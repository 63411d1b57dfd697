-------------------------------- MODULE Pool --------------------------------
(***************************************************************************)
(* The accept loop of server(), the worker pool behind it (wthread_create, *)
(* wthread_exit and the thread manager), the SIGTERM/SIGINT/SIGUSR1        *)
(* handlers and the tail of main() that runs when server() returns.        *)
(*                                                                         *)
(* Connection number k is served by thread number k.  The work of a worker *)
(* between its start and its reply is one step here, or none when it waits *)
(* for ever for a solver that never started; module Lookup models it.      *)
(* MaxTid bounds the connections accepted, MaxTries stands for the 20      *)
(* rounds of the wait loop, and Faults names the calls that may fail, for  *)
(* the main thread, the workers and their solvers alike.                   *)
(***************************************************************************)
EXTENDS ThrMgr

CONSTANTS
  MaxThreadsOpts,      \* the values of the -m option to try
  MaxTries,            \* rounds of the wait loop in wthread_create
  Faults               \* calls that may fail

ASSUME MaxThreadsOptsAssumption == MaxThreadsOpts \subseteq Int
ASSUME MaxTriesAssumption == MaxTries \in Nat \ {0}
ASSUME FaultsAssumption == Faults \subseteq {"pthread_create", "malloc", "accept"}

VARIABLES
  maxthreads,          \* the -m option, fixed at start
  proc,                \* "running", or how the process ended
  appstate,            \* the global of globals.h
  rblist,              \* "live" until cfg_free
  spc,                 \* where the main thread is
  tries,               \* err, the loop counter of wthread_create
  ret,                 \* its return value
  workermgr,           \* has workermgr been allocated?
  accepted,            \* connections accepted so far
  closes,              \* close() calls made on each connection
  num_workers, now_workers, max_workers     \* stats.c

statVars == <<num_workers, now_workers, max_workers>>
procVars == <<maxthreads, proc, appstate, rblist>>
srvVars  == <<spc, tries, ret, workermgr, accepted>>
vars == <<mgrVars, procVars, srvVars, closes, thrVars, statVars>>

AppStates == {"APP_RUN", "APP_EXIT", "APP_ERROR"}
ServerPCs == {"loop", "call", "accept", "eintr", "switch", "lock", "wait", "spawn",
              "register", "stats", "refuse", "inline", "inline_hang", "inline_exit",
              "teardown", "return"}
WorkerPCs == {"none", "run", "hang", "close"} \cup ExitPCs
Errors    == {"ERR_NONE", "ERR_THR_TOOMANY", "ERR_THR_SYSERR", "ERR_THR_APPSTATE"}

\* The state and the counters have their types.
TypeOK ==
  /\ MgrTypeOK
  /\ maxthreads \in Int
  /\ proc \in {"running", "exit0", "exit255", "crashed"}
  /\ appstate \in AppStates
  /\ rblist \in {"live", "freed"}
  /\ spc \in ServerPCs
  /\ tries \in 0..MaxTries
  /\ ret \in Errors
  /\ workermgr \in BOOLEAN
  /\ accepted \in 0..MaxTid
  /\ closes \in [Threads -> Nat]
  /\ pc \in [Threads -> WorkerPCs]
  /\ num_workers \in Nat /\ now_workers \in Nat /\ max_workers \in Nat

Init ==
  /\ MgrInit
  /\ maxthreads \in MaxThreadsOpts
  /\ proc = "running" /\ appstate = "APP_RUN" /\ rblist = "live"
  /\ spc = "loop" /\ tries = 0 /\ ret = "ERR_NONE"
  /\ workermgr = FALSE /\ accepted = 0
  /\ closes = [t \in Threads |-> 0]
  /\ num_workers = 0 /\ now_workers = 0 /\ max_workers = 0

At(p)     == proc = "running" /\ spc = p
WAt(t, p) == proc = "running" /\ pc[t] = p

CloseConn(t) == closes' = [closes EXCEPT ![t] = @ + 1]

-----------------------------------------------------------------------------
(*                      The accept loop of server()                        *)

\* while (appstate != APP_EXIT && appstate != APP_ERROR)
LoopTest ==
  /\ At("loop")
  /\ spc' = IF appstate \in {"APP_EXIT", "APP_ERROR"} THEN "teardown" ELSE "call"
  /\ UNCHANGED <<mgrVars, procVars, tries, ret, workermgr, accepted, closes,
                 thrVars, statVars>>

\* The test has passed; accept() starts to block.
EnterAccept ==
  /\ At("call")
  /\ spc' = "accept"
  /\ UNCHANGED <<mgrVars, procVars, tries, ret, workermgr, accepted, closes,
                 thrVars, statVars>>

\* A client connects.
Accept ==
  /\ At("accept")
  /\ accepted < MaxTid
  /\ accepted' = accepted + 1
  /\ spc' = "switch"
  /\ UNCHANGED <<mgrVars, procVars, tries, ret, workermgr, closes, thrVars, statVars>>

\* accept() fails with something else than EINTR: the loop is left for good.
AcceptError ==
  /\ At("accept")
  /\ "accept" \in Faults
  /\ appstate' = IF appstate = "APP_RUN" THEN "APP_ERROR" ELSE appstate
  /\ spc' = "teardown"
  /\ UNCHANGED <<mgrVars, maxthreads, proc, rblist, tries, ret, workermgr, accepted,
                 closes, thrVars, statVars>>

\* accept() returned EINTR.
AcceptInterrupted ==
  /\ At("eintr")
  /\ spc' = IF appstate = "APP_RUN" THEN "loop" ELSE "teardown"
  /\ UNCHANGED <<mgrVars, procVars, tries, ret, workermgr, accepted, closes,
                 thrVars, statVars>>

\* switch (appstate): a connection accepted during shutdown is dropped unclosed.
Switch ==
  /\ At("switch")
  /\ spc' = IF appstate # "APP_RUN" THEN "loop"
            ELSE IF maxthreads > 0 THEN "lock" ELSE "inline"
  /\ UNCHANGED <<mgrVars, procVars, tries, ret, workermgr, accepted, closes,
                 thrVars, statVars>>

-----------------------------------------------------------------------------
(*                    wthread_create, run by the main thread               *)

\* Allocate workermgr on the first call, take its lock, start the wait loop.
LockMgr ==
  /\ At("lock")
  /\ lock = Nobody
  /\ lock' = Creator
  /\ workermgr' = TRUE
  /\ tries' = MaxTries
  /\ ret' = "ERR_NONE"
  /\ spc' = "wait"
  /\ UNCHANGED <<listVars, procVars, accepted, closes, thrVars, statVars>>

\* malloc fails on the first call: its result is used without a look at it.
LockMgrFails ==
  /\ At("lock")
  /\ ~workermgr /\ "malloc" \in Faults
  /\ proc' = "crashed"
  /\ UNCHANGED <<mgrVars, maxthreads, appstate, rblist, srvVars, closes, thrVars, statVars>>

PoolFull == nthreads >= maxthreads

\* Mutated form of WaitRound: the loop does not stop at err = 0.
WaitRoundUncounted ==
  /\ At("wait")
  /\ PoolFull /\ appstate = "APP_RUN"
  /\ tries' = tries - 1
  /\ UNCHANGED <<mgrVars, procVars, spc, ret, workermgr, accepted, closes,
                 thrVars, statVars>>

\* One round of the loop: nanosleep with the lock held.
WaitRound ==
  /\ At("wait")
  /\ tries > 0 /\ PoolFull /\ appstate = "APP_RUN"
  /\ tries' = tries - 1
  /\ UNCHANGED <<mgrVars, procVars, spc, ret, workermgr, accepted, closes,
                 thrVars, statVars>>

\* Mutated form of WaitVerdict: a timeout does not turn the caller away.
WaitVerdictIgnoringTimeout ==
  IF appstate # "APP_RUN" THEN "ERR_THR_APPSTATE" ELSE "ERR_NONE"

\* What the two tests behind the loop decide.
WaitVerdict ==
  IF appstate # "APP_RUN" THEN "ERR_THR_APPSTATE"
  ELSE IF tries = 0 THEN "ERR_THR_TOOMANY"
  ELSE "ERR_NONE"

\* Mutated form of WaitEnd: a refused request leaves the lock taken.
WaitEndKeepsLock ==
  /\ At("wait")
  /\ ~(tries > 0 /\ PoolFull /\ appstate = "APP_RUN")
  /\ ret' = WaitVerdict
  /\ spc' = IF WaitVerdict = "ERR_NONE" THEN "spawn" ELSE "refuse"
  /\ UNCHANGED <<mgrVars, procVars, tries, workermgr, accepted, closes,
                 thrVars, statVars>>

\* The loop ends.
WaitEnd ==
  /\ At("wait")
  /\ ~(tries > 0 /\ PoolFull /\ appstate = "APP_RUN")
  /\ ret' = WaitVerdict
  /\ IF WaitVerdict = "ERR_NONE"
     THEN spc' = "spawn" /\ lock' = lock
     ELSE spc' = "refuse" /\ lock' = Nobody
  /\ UNCHANGED <<listVars, procVars, tries, workermgr, accepted, closes,
                 thrVars, statVars>>

\* Mutated form of Spawn: the lock is released before the registration.
SpawnUnlocked ==
  /\ At("spawn")
  /\ Goto(accepted, "run")
  /\ lock' = Nobody
  /\ spc' = "register"
  /\ UNCHANGED <<listVars, procVars, tries, ret, workermgr, accepted, closes,
                 cancel, cursor, statVars>>

\* pthread_create succeeds: the worker runs from here on.
Spawn ==
  /\ At("spawn")
  /\ Goto(accepted, "run")
  /\ spc' = "register"
  /\ UNCHANGED <<mgrVars, procVars, tries, ret, workermgr, accepted, closes,
                 cancel, cursor, statVars>>

\* Mutated form of SpawnFails: it closes the connection, as its caller does.
SpawnFailsClosing ==
  /\ At("spawn")
  /\ "pthread_create" \in Faults
  /\ ret' = "ERR_THR_SYSERR"
  /\ CloseConn(accepted)
  /\ lock' = Nobody
  /\ spc' = "refuse"
  /\ UNCHANGED <<listVars, procVars, tries, workermgr, accepted, thrVars, statVars>>

\* pthread_create fails.
SpawnFails ==
  /\ At("spawn")
  /\ "pthread_create" \in Faults
  /\ ret' = "ERR_THR_SYSERR"
  /\ lock' = Nobody
  /\ spc' = "refuse"
  /\ UNCHANGED <<listVars, procVars, tries, workermgr, accepted, closes,
                 thrVars, statVars>>

\* thr_register succeeds and the lock is released.
Register ==
  /\ At("register")
  /\ thr_register(accepted)
  /\ lock' = Nobody
  /\ spc' = "stats"
  /\ UNCHANGED <<procVars, tries, ret, workermgr, accepted, closes,
                 thrVars, statVars>>

\* malloc fails in thr_register: the new worker is cancelled, its connection closed.
RegisterFailure ==
  /\ At("register")
  /\ "malloc" \in Faults
  /\ RegisterFails
  /\ cancel' = cancel \cup {accepted}
  /\ CloseConn(accepted)
  /\ lock' = Nobody
  /\ ret' = "ERR_THR_SYSERR"
  /\ spc' = "refuse"
  /\ UNCHANGED <<procVars, tries, workermgr, accepted, pc, cursor, statVars>>

\* Mutated form of stats_worker_thr: the peak counts every worker there ever was.
stats_worker_thr_total(num) ==
  /\ num_workers' = num_workers + 1
  /\ now_workers' = num
  /\ max_workers' = num_workers + 1

\* stats_worker_thr(workermgr->nthreads): the counter is read after the unlock.
stats_worker_thr(num) ==
  /\ num_workers' = num_workers + 1
  /\ now_workers' = num
  /\ max_workers' = IF num > max_workers THEN num ELSE max_workers

CountWorker ==
  /\ At("stats")
  /\ stats_worker_thr(nthreads)
  /\ spc' = "loop"
  /\ UNCHANGED <<mgrVars, procVars, tries, ret, workermgr, accepted, closes, thrVars>>

\* Mutated form of Refuse: the refused connection stays open.
RefuseUnclosed ==
  /\ At("refuse")
  /\ spc' = "loop"
  /\ UNCHANGED <<mgrVars, procVars, tries, ret, workermgr, accepted, closes,
                 thrVars, statVars>>

\* wthread_create returned an error: server() shuts the connection down and closes it.
Refuse ==
  /\ At("refuse")
  /\ CloseConn(accepted)
  /\ spc' = "loop"
  /\ UNCHANGED <<mgrVars, procVars, tries, ret, workermgr, accepted, thrVars, statVars>>

-----------------------------------------------------------------------------
(*         Without threads (-m 0) the main thread runs worker_th itself    *)

\* worker_th counts a solver before rthread_create starts it and does not look
\* at the result: a solver that is not started, or is cancelled because it
\* cannot be registered, is waited for all the same.
SolverLost == Faults \cap {"pthread_create", "malloc"} # {}

\* worker_th up to its close(conn).
InlineServe ==
  /\ At("inline")
  /\ CloseConn(accepted)
  /\ spc' = "inline_exit"
  /\ UNCHANGED <<mgrVars, procVars, tries, ret, workermgr, accepted, thrVars, statVars>>

\* The main thread stays in the join of worker_th; only handlers run on it.
InlineHangs ==
  /\ At("inline")
  /\ SolverLost
  /\ spc' = "inline_hang"
  /\ UNCHANGED <<mgrVars, procVars, tries, ret, workermgr, accepted, closes,
                 thrVars, statVars>>

\* A malloc fails whose result worker_th or rthread_create uses unseen.
InlineCrash ==
  /\ At("inline")
  /\ "malloc" \in Faults
  /\ proc' = "crashed"
  /\ UNCHANGED <<mgrVars, maxthreads, appstate, rblist, srvVars, closes, thrVars, statVars>>

\* Its last call, wthread_exit, ends the process when workermgr is NULL,
\* which it always is here: only wthread_create allocates it.
InlineExit ==
  /\ At("inline_exit")
  /\ ~workermgr
  /\ proc' = "exit255"
  /\ UNCHANGED <<mgrVars, maxthreads, appstate, rblist, srvVars, closes, thrVars, statVars>>

-----------------------------------------------------------------------------
(*                       Shutdown, in main() and exit()                    *)

\* server() has returned: close the socket, cfg_free(&rblist).
Teardown ==
  /\ At("teardown")
  /\ rblist' = "freed"
  /\ spc' = "return"
  /\ UNCHANGED <<mgrVars, maxthreads, proc, appstate, tries, ret, workermgr, accepted,
                 closes, thrVars, statVars>>

\* main() returns, which ends every thread.
Return ==
  /\ At("return")
  /\ proc' = "exit0"
  /\ UNCHANGED <<mgrVars, maxthreads, appstate, rblist, srvVars, closes, thrVars, statVars>>

-----------------------------------------------------------------------------
(*                                 Signals                                 *)

Live(t) == pc[t] \notin {"none", "done", "killed"}

\* A handler runs on the main thread: accept() returns EINTR if it was blocked.
InterruptMain == spc' = IF spc = "accept" THEN "eintr" ELSE spc

\* SIGTERM or SIGINT handled by the main thread.
SigTermOnMain ==
  /\ proc = "running"
  /\ appstate' = "APP_EXIT"
  /\ InterruptMain
  /\ UNCHANGED <<mgrVars, maxthreads, proc, rblist, tries, ret, workermgr, accepted,
                 closes, thrVars, statVars>>

\* SIGTERM or SIGINT handled by a worker: no thread blocks these signals.
SigTermOnWorker(t) ==
  /\ proc = "running"
  /\ Live(t)
  /\ appstate' = "APP_EXIT"
  /\ UNCHANGED <<mgrVars, maxthreads, proc, rblist, srvVars, closes, thrVars, statVars>>

\* SIGUSR1 handled by the main thread: sigstatus only reads.
SigUsr1OnMain ==
  /\ At("accept")
  /\ InterruptMain
  /\ UNCHANGED <<mgrVars, procVars, tries, ret, workermgr, accepted, closes,
                 thrVars, statVars>>

-----------------------------------------------------------------------------
(*                                 Workers                                 *)

\* worker_th reads, looks up and replies.
WorkerReply(t) ==
  /\ WAt(t, "run")
  /\ t \notin cancel
  /\ Goto(t, "close")
  /\ UNCHANGED <<mgrVars, procVars, srvVars, closes, cancel, cursor, statVars>>

\* It waits for ever for a solver that will never count down, its connection
\* open and its place in the pool taken.
WorkerHangs(t) ==
  /\ WAt(t, "run")
  /\ t \notin cancel
  /\ SolverLost
  /\ Goto(t, "hang")
  /\ UNCHANGED <<mgrVars, procVars, srvVars, closes, cancel, cursor, statVars>>

\* It walks rblist after cfg_free, or a malloc fails whose result is used
\* unseen (thrmgr.c:238, worker.c:256): the access may end the process.
WorkerCrash(t) ==
  /\ WAt(t, "run")
  /\ rblist = "freed" \/ "malloc" \in Faults
  /\ proc' = "crashed"
  /\ UNCHANGED <<mgrVars, maxthreads, appstate, rblist, srvVars, closes, thrVars, statVars>>

\* close(conn)
WorkerClose(t) ==
  /\ WAt(t, "close")
  /\ t \notin cancel
  /\ CloseConn(t)
  /\ Goto(t, "unreg")
  /\ UNCHANGED <<mgrVars, procVars, srvVars, cancel, cursor, statVars>>

\* A pending cancel acts at the next cancellation point: select, read,
\* pthread_cond_wait, write, close.
WorkerKilled(t) ==
  /\ proc = "running" /\ pc[t] \in {"run", "hang", "close"}
  /\ t \in cancel
  /\ Goto(t, "killed")
  /\ UNCHANGED <<mgrVars, procVars, srvVars, closes, cancel, cursor, statVars>>

\* wthread_exit: thr_unregister(workermgr, tid).
wthread_exit(t) ==
  /\ proc = "running"
  /\ thr_unregister(t)
  /\ UNCHANGED <<procVars, srvVars, closes, statVars>>

\* The unlocked loop at its end reads a freed node, and the process ends.
WalkCrash(t) ==
  /\ proc = "running"
  /\ WalksFreed(t)
  /\ proc' = "crashed"
  /\ UNCHANGED <<mgrVars, maxthreads, appstate, rblist, srvVars, closes, thrVars, statVars>>

-----------------------------------------------------------------------------
ServerStep ==
  \/ LoopTest \/ EnterAccept \/ AcceptInterrupted \/ Switch
  \/ LockMgr \/ LockMgrFails \/ WaitRound \/ WaitEnd \/ Spawn \/ SpawnFails
  \/ Register \/ RegisterFailure \/ CountWorker \/ Refuse
  \/ InlineServe \/ InlineHangs \/ InlineCrash \/ InlineExit
  \/ Teardown \/ Return

WorkerStep(t) ==
  \/ WorkerReply(t) \/ WorkerHangs(t) \/ WorkerCrash(t)
  \/ WorkerClose(t) \/ WorkerKilled(t)
  \/ wthread_exit(t) \/ WalkCrash(t)

\* What the outside does: connections, failing system calls, signals.
Environment ==
  \/ Accept \/ AcceptError
  \/ SigTermOnMain \/ SigUsr1OnMain
  \/ \E t \in Threads : SigTermOnWorker(t)

\* The process has ended.
Ended == proc # "running" /\ UNCHANGED vars

Next ==
  \/ ServerStep
  \/ \E t \in Threads : WorkerStep(t)
  \/ Environment
  \/ Ended

Spec == Init /\ [][Next]_vars

\* Every thread that can run keeps running; nothing is asked of the outside.
FairSpec ==
  /\ Spec
  /\ WF_vars(ServerStep)
  /\ \A t \in Threads : WF_vars(WorkerStep(t))

-----------------------------------------------------------------------------
(* Threads that are at work for a client, wait for ever for a solver, or   *)
(* are about to leave the pool.                                            *)
Busy == {t \in Threads : pc[t] \in {"run", "hang", "close", "unreg", "search"}}

(* The pool never works for more than maxthreads clients at a time: the    *)
(* room that wthread_create saw is still there when it starts the thread,  *)
(* and the counter accounts for every thread that is running.              *)
PoolBounded == Cardinality(Busy) <= maxthreads \/ maxthreads <= 0

(* The counter and the list change only in a step of the thread that holds *)
(* the lock, so no update of one thread is lost in that of another.        *)
OnlyHolderWrites ==
  [][\/ UNCHANGED listVars
     \/ lock = Creator /\ spc' # spc
     \/ lock \in Threads /\ pc'[lock] # pc[lock]]_vars

(* A thread is created only when the first look at the counter saw room:   *)
(* wthread_create sleeps with the lock held, so no worker leaves meanwhile.*)
WaitIsFutile == [][spc = "wait" /\ spc' = "spawn" => tries = MaxTries]_vars

(* The peak of parallel workers that stats_log reports never exceeds the   *)
(* -m option, although it is read from the manager after the unlock.       *)
PeakWithinPool == maxthreads > 0 => max_workers <= maxthreads

(* No connection is closed twice, so no close() hits a descriptor another  *)
(* thread has got in the meantime: server() closes only what it refuses,   *)
(* and a worker its own.  Not so for a connection whose worker could not   *)
(* be registered: wthread_create and server() both close that one.         *)
ClosedOnce == \A t \in Threads : t \in cancel \/ closes[t] <= 1

\* A cancelled thread has died in syslog with the manager's lock (thrmgr.c:130):
\* nobody is served, turned away or let out of the pool after that.
LockOrphaned == lock \in Threads /\ pc[lock] = "killed"

(* Every accepted connection is closed in the end, and its worker leaves   *)
(* the pool whatever the main thread does with the lock, unless that very  *)
(* worker waits for a lost solver, so that a worker that hangs, or fails   *)
(* to start, keeps no other connection open.  Nothing is left to be        *)
(* promised when the process has ended, when the main thread itself hangs  *)
(* (-m 0) or when a cancelled thread has taken the lock with it.           *)
EveryConnectionCloses ==
  \A t \in Threads :
    accepted >= t ~> \/ closes[t] > 0 /\ t \notin nodes
                     \/ pc[t] = "hang"
                     \/ proc # "running" \/ spc = "inline_hang" \/ LockOrphaned

(* A SIGTERM that is handled at any other time than between the test of    *)
(* appstate and the return of accept() ends the process, whatever workers  *)
(* do or wait for and wherever in the making of a worker the main thread   *)
(* is; handled by the main thread, it does so in accept() as well.  Only   *)
(* when that thread hangs in worker_th itself (-m 0), or the lock was      *)
(* orphaned, does it not.                                                  *)
ShutdownUnlessAccepting ==
  appstate = "APP_EXIT" /\ spc \notin {"call", "accept"} ~>
    proc # "running" \/ spc = "inline_hang" \/ LockOrphaned

-----------------------------------------------------------------------------
(*            What a comment of the program says and does not hold         *)

(* While wthread_create waits "until a thread becomes available"           *)
(* (thrmgr.c:183), a worker that is on its way out of the pool can get     *)
(* on with it, so that one may become available.                           *)
WaitLetsWorkersLeave ==
  spc = "wait" /\ tries < MaxTries /\ (\E t \in Threads : pc[t] = "unreg") =>
    \E t \in Threads : ENABLED wthread_exit(t)
=============================================================================
