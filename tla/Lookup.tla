------------------------------- MODULE Lookup -------------------------------
(***************************************************************************)
(* One request inside a worker: worker_th from its read_request to its     *)
(* close(conn), rthread_create, and the solver threads (solver_th) it      *)
(* starts, one for each configured RBL.  The thread manager is solvermgr.  *)
(*                                                                         *)
(* The RBLs are numbered in the order of the configuration, and the thread *)
(* that looks up RBL number i is thread i.  DNS is outside: it answers     *)
(* "listed" (an address in 127.0.0.0/8) or not, and a failed query is a    *)
(* "not".  Faults names the calls that may fail.                           *)
(***************************************************************************)
EXTENDS ThrMgr, Sequences

CONSTANTS
  Weight,              \* weight of each RBL
  Threshold,           \* 100 in the code
  Faults               \* calls that may fail

\* The largest short.
SHRT_MAX == 32767

ASSUME WeightAssumption == Weight \in [Threads -> 1..SHRT_MAX]
ASSUME ThresholdAssumption == Threshold \in Nat \ {0}
ASSUME FaultsAssumption == Faults \subseteq {"pthread_create", "malloc"}

VARIABLES
  proc,                \* "running" or "crashed"
  wpc,                 \* where the worker is
  err,                 \* the request could not be used
  resolvers,           \* the count of pending solvers, on the worker's stack
  resolvers_,          \* holder of its mutex
  res_ready,           \* the condition variable: "live" or "destroyed"
  resdata,             \* resdata[i]: "none", "live" or "freed"
  rscore,              \* resdata[i]->score
  resdata_cnt,         \* solvers asked for so far
  collected,           \* i in the loop that adds the scores
  score, reply,        \* the worker's locals
  sent,                \* what the client has been told: <<action, RBLs>>
  questions, positive, \* counters of the cfgitem_t list
  num_solvers, now_solvers, max_solvers     \* stats.c

syncVars == <<resolvers, resolvers_, res_ready>>
dataVars == <<resdata, rscore>>
accVars  == <<collected, score, reply, questions, positive>>
statVars == <<num_solvers, now_solvers, max_solvers>>
vars == <<mgrVars, thrVars, proc, wpc, err, syncVars, dataVars, resdata_cnt, accVars, sent,
          statVars>>

WorkerPCs == {"read", "loop", "create", "spawn", "register", "created", "join", "wait",
              "woken", "collect", "answer", "close", "done"}
SolverPCs == {"none", "resolve", "lock", "count", "signal", "unlock", "cancelled"}
               \cup ExitPCs

\* The holder of resolvers_ is the worker, a solver, or nobody.
Worker == 0

\* The state and the counters have their types.
TypeOK ==
  /\ MgrTypeOK
  /\ pc \in [Threads -> SolverPCs]
  /\ proc \in {"running", "crashed"}
  /\ wpc \in WorkerPCs
  /\ err \in BOOLEAN
  /\ resolvers \in Int
  /\ resolvers_ \in Threads \cup {Worker, Nobody}
  /\ res_ready \in {"live", "destroyed"}
  /\ resdata \in [Threads -> {"none", "live", "freed"}]
  /\ rscore \in [Threads -> Nat]
  /\ resdata_cnt \in Nat /\ resdata_cnt <= MaxTid
  /\ collected \in Nat /\ collected <= MaxTid
  /\ score \in Nat
  /\ reply \in Seq(Threads)
  /\ questions \in [Threads -> Nat] /\ positive \in [Threads -> Nat]
  /\ num_solvers \in Nat /\ now_solvers \in Nat /\ max_solvers \in Nat

Init ==
  /\ MgrInit
  /\ proc = "running" /\ wpc = "read" /\ err = FALSE
  /\ resolvers = 0 /\ resolvers_ = Nobody /\ res_ready = "live"
  /\ resdata = [t \in Threads |-> "none"]
  /\ rscore = [t \in Threads |-> 0]
  /\ resdata_cnt = 0 /\ collected = 0 /\ score = 0 /\ reply = <<>>
  /\ sent = <<>>
  /\ questions = [t \in Threads |-> 0] /\ positive = [t \in Threads |-> 0]
  /\ num_solvers = 0 /\ now_solvers = 0 /\ max_solvers = 0

At(p)     == proc = "running" /\ wpc = p
SAt(t, p) == proc = "running" /\ pc[t] = p

-----------------------------------------------------------------------------
(*                                The worker                               *)

\* read_request, parse_request and the sscanf of the address: any of them may fail.
ReadRequest ==
  /\ At("read")
  /\ \/ wpc' = "loop" /\ err' = FALSE
     \/ wpc' = "answer" /\ err' = TRUE
  /\ UNCHANGED <<mgrVars, thrVars, proc, syncVars, dataVars, resdata_cnt, accVars, sent,
                 statVars>>

\* Mutated form of MoreRbls: the last RBL is left out.
MoreRblsButOne == resdata_cnt + 1 < MaxTid /\ score < Threshold

\* The loop over rblist has an RBL left.
MoreRbls == resdata_cnt < MaxTid /\ score < Threshold

\* Lock, allocate the resdata_t of the next RBL, count it.
ForkLock ==
  /\ At("loop")
  /\ MoreRbls
  /\ resolvers_ = Nobody
  /\ resolvers_' = Worker
  /\ resdata' = [resdata EXCEPT ![resdata_cnt + 1] = "live"]
  /\ rscore' = [rscore EXCEPT ![resdata_cnt + 1] = 0]
  /\ resolvers' = resolvers + 1
  /\ wpc' = "create"
  /\ UNCHANGED <<mgrVars, thrVars, proc, err, res_ready, resdata_cnt, accVars, sent, statVars>>

\* rthread_create: take the lock of solvermgr ...
CreateLock ==
  /\ At("create")
  /\ lock = Nobody
  /\ lock' = Creator
  /\ wpc' = "spawn"
  /\ UNCHANGED <<listVars, thrVars, proc, err, syncVars, dataVars, resdata_cnt, accVars, sent,
                 statVars>>

\* ... pthread_create: the solver runs from here on ...
Spawn ==
  /\ At("spawn")
  /\ Goto(resdata_cnt + 1, "resolve")
  /\ wpc' = "register"
  /\ UNCHANGED <<mgrVars, cancel, cursor, proc, err, syncVars, dataVars, resdata_cnt, accVars,
                 sent, statVars>>

\* ... or it fails, which the worker does not look at ...
SpawnFails ==
  /\ At("spawn")
  /\ "pthread_create" \in Faults
  /\ lock' = Nobody
  /\ wpc' = "created"
  /\ UNCHANGED <<listVars, thrVars, proc, err, syncVars, dataVars, resdata_cnt, accVars, sent,
                 statVars>>

stats_solver_thr(num) ==
  /\ num_solvers' = num_solvers + 1
  /\ now_solvers' = num
  /\ max_solvers' = IF num > max_solvers THEN num ELSE max_solvers

\* ... thr_register and stats_solver_thr, still inside the lock ...
Register ==
  /\ At("register")
  /\ thr_register(resdata_cnt + 1)
  /\ stats_solver_thr(nthreads')
  /\ lock' = Nobody
  /\ wpc' = "created"
  /\ UNCHANGED <<thrVars, proc, err, syncVars, dataVars, resdata_cnt, accVars, sent>>

\* ... or malloc fails in thr_register, and the solver is cancelled.
RegisterFailure ==
  /\ At("register")
  /\ "malloc" \in Faults
  /\ RegisterFails
  /\ cancel' = cancel \cup {resdata_cnt + 1}
  /\ lock' = Nobody
  /\ wpc' = "created"
  /\ UNCHANGED <<pc, cursor, proc, err, syncVars, dataVars, resdata_cnt, accVars, sent, statVars>>

\* Back in worker_th: unlock, next RBL.
ForkUnlock ==
  /\ At("created")
  /\ resolvers_' = Nobody
  /\ resdata_cnt' = resdata_cnt + 1
  /\ wpc' = "loop"
  /\ UNCHANGED <<mgrVars, thrVars, proc, err, resolvers, res_ready, dataVars, accVars, sent,
                 statVars>>

\* Every solver has been asked for: lock, to wait for them.
JoinLock ==
  /\ At("loop")
  /\ ~MoreRbls
  /\ resolvers_ = Nobody
  /\ resolvers_' = Worker
  /\ wpc' = "join"
  /\ UNCHANGED <<mgrVars, thrVars, proc, err, resolvers, res_ready, dataVars, resdata_cnt,
                 accVars, sent, statVars>>

\* while (resolvers) pthread_cond_wait: the mutex is released and the wait starts.
JoinWait ==
  /\ At("join")
  /\ resolvers # 0
  /\ resolvers_' = Nobody
  /\ wpc' = "wait"
  /\ UNCHANGED <<mgrVars, thrVars, proc, err, resolvers, res_ready, dataVars, resdata_cnt,
                 accVars, sent, statVars>>

\* pthread_cond_wait may return without a signal.
SpuriousWakeup ==
  /\ At("wait")
  /\ wpc' = "woken"
  /\ UNCHANGED <<mgrVars, thrVars, proc, err, syncVars, dataVars, resdata_cnt, accVars, sent,
                 statVars>>

\* Mutated form of Relock: the wait is not in a loop.
RelockUntested ==
  /\ At("woken")
  /\ resolvers_ = Nobody
  /\ resolvers_' = Worker
  /\ res_ready' = "destroyed"
  /\ wpc' = "collect"
  /\ UNCHANGED <<mgrVars, thrVars, proc, err, resolvers, dataVars, resdata_cnt, accVars, sent,
                 statVars>>

\* A woken worker gets its mutex back and tests the counter again.
Relock ==
  /\ At("woken")
  /\ resolvers_ = Nobody
  /\ resolvers_' = Worker
  /\ wpc' = "join"
  /\ UNCHANGED <<mgrVars, thrVars, proc, err, resolvers, res_ready, dataVars, resdata_cnt,
                 accVars, sent, statVars>>

\* All solvers are done: pthread_cond_destroy, and the scores are added up
\* from zero.  The mutex is never released.
JoinDone ==
  /\ At("join")
  /\ resolvers = 0
  /\ res_ready' = "destroyed"
  /\ score' = 0
  /\ wpc' = "collect"
  /\ UNCHANGED <<mgrVars, thrVars, proc, err, resolvers, resolvers_, dataVars, resdata_cnt,
                 collected, reply, questions, positive, sent, statVars>>

\* One round of the loop over resdata, under rblist_mutex, and its free().
Collect ==
  /\ At("collect")
  /\ collected < resdata_cnt
  /\ LET i == collected + 1
         hit == rscore[i] # 0
     IN  /\ questions' = [questions EXCEPT ![i] = @ + 1]
         /\ positive' = [positive EXCEPT ![i] = @ + (IF hit THEN 1 ELSE 0)]
         /\ score' = score + rscore[i]
         /\ reply' = IF hit THEN Append(reply, i) ELSE reply
         /\ resdata' = [resdata EXCEPT ![i] = "freed"]
         /\ collected' = i
  /\ UNCHANGED <<mgrVars, thrVars, proc, wpc, err, syncVars, rscore, resdata_cnt, sent, statVars>>

CollectEnd ==
  /\ At("collect")
  /\ collected = resdata_cnt
  /\ wpc' = "answer"
  /\ UNCHANGED <<mgrVars, thrVars, proc, err, syncVars, dataVars, resdata_cnt, accVars, sent,
                 statVars>>

\* write(conn, ...): the verdict and, with REJECT, the RBLs that list the client.
Answer ==
  /\ At("answer")
  /\ sent' = IF ~err /\ score >= Threshold THEN <<"REJECT", reply>> ELSE <<"DUNNO", <<>>>>
  /\ wpc' = "close"
  /\ UNCHANGED <<mgrVars, thrVars, proc, err, syncVars, dataVars, resdata_cnt, accVars, statVars>>

\* The buffers are freed and the connection closed; then the thread, and with
\* it the stack that holds resolvers, resolvers_ and res_ready, goes away.
Close ==
  /\ At("close")
  /\ wpc' = "done"
  /\ UNCHANGED <<mgrVars, thrVars, proc, err, syncVars, dataVars, resdata_cnt, accVars, sent,
                 statVars>>

-----------------------------------------------------------------------------
(*                               The solvers                               *)

\* gethostbyname_r, and r->score = weight when the client is listed.
Resolve(t) ==
  /\ SAt(t, "resolve")
  /\ \/ rscore' = [rscore EXCEPT ![t] = Weight[t]]
     \/ UNCHANGED rscore
  /\ Goto(t, "lock")
  /\ UNCHANGED <<mgrVars, cancel, cursor, proc, wpc, err, syncVars, resdata, resdata_cnt,
                 accVars, sent, statVars>>

\* A pending cancel may act in gethostbyname_r: the solver is never counted down.
SolverKilled(t) ==
  /\ SAt(t, "resolve")
  /\ t \in cancel
  /\ Goto(t, "cancelled")
  /\ UNCHANGED <<mgrVars, cancel, cursor, proc, wpc, err, syncVars, dataVars, resdata_cnt,
                 accVars, sent, statVars>>

\* pthread_mutex_lock(r->resolvers_)
SolverLock(t) ==
  /\ SAt(t, "lock")
  /\ resolvers_ = Nobody
  /\ resolvers_' = t
  /\ Goto(t, "count")
  /\ UNCHANGED <<mgrVars, cancel, cursor, proc, wpc, err, resolvers, res_ready, dataVars,
                 resdata_cnt, accVars, sent, statVars>>

\* *r->resolvers = *r->resolvers - 1
CountDown(t) ==
  /\ SAt(t, "count")
  /\ resolvers' = resolvers - 1
  /\ Goto(t, "signal")
  /\ UNCHANGED <<mgrVars, cancel, cursor, proc, wpc, err, resolvers_, res_ready, dataVars,
                 resdata_cnt, accVars, sent, statVars>>

\* Mutated form of Broadcast: nobody is woken.
BroadcastMissing(t) ==
  /\ SAt(t, "signal")
  /\ Goto(t, "unlock")
  /\ UNCHANGED <<mgrVars, cancel, cursor, proc, wpc, err, syncVars, dataVars, resdata_cnt,
                 accVars, sent, statVars>>

\* pthread_cond_broadcast(r->res_ready) wakes the worker if it is waiting.
Broadcast(t) ==
  /\ SAt(t, "signal")
  /\ wpc' = IF wpc = "wait" THEN "woken" ELSE wpc
  /\ Goto(t, "unlock")
  /\ UNCHANGED <<mgrVars, cancel, cursor, proc, err, syncVars, dataVars, resdata_cnt,
                 accVars, sent, statVars>>

\* Mutated form of SolverUnlock: the mutex is not released.
SolverUnlockMissing(t) ==
  /\ SAt(t, "unlock")
  /\ Goto(t, "unreg")
  /\ UNCHANGED <<mgrVars, cancel, cursor, proc, wpc, err, syncVars, dataVars,
                 resdata_cnt, accVars, sent, statVars>>

\* pthread_mutex_unlock(r->resolvers_)
SolverUnlock(t) ==
  /\ SAt(t, "unlock")
  /\ resolvers_' = Nobody
  /\ Goto(t, "unreg")
  /\ UNCHANGED <<mgrVars, cancel, cursor, proc, wpc, err, resolvers, res_ready, dataVars,
                 resdata_cnt, accVars, sent, statVars>>

\* rthread_exit: thr_unregister(solvermgr, tid).
rthread_exit(t) ==
  /\ proc = "running"
  /\ thr_unregister(t)
  /\ UNCHANGED <<proc, wpc, err, syncVars, dataVars, resdata_cnt, accVars, sent, statVars>>

\* The unlocked loop at its end reads a freed node, and the process ends.
WalkCrash(t) ==
  /\ proc = "running"
  /\ WalksFreed(t)
  /\ proc' = "crashed"
  /\ UNCHANGED <<mgrVars, thrVars, wpc, err, syncVars, dataVars, resdata_cnt, accVars, sent,
                 statVars>>

-----------------------------------------------------------------------------
WorkerStep ==
  \/ ReadRequest \/ ForkLock \/ CreateLock \/ Spawn \/ SpawnFails
  \/ Register \/ RegisterFailure \/ ForkUnlock
  \/ JoinLock \/ JoinWait \/ Relock \/ JoinDone
  \/ Collect \/ CollectEnd \/ Answer \/ Close

SolverStep(t) ==
  \/ Resolve(t) \/ SolverKilled(t) \/ SolverLock(t) \/ CountDown(t)
  \/ Broadcast(t) \/ SolverUnlock(t) \/ rthread_exit(t) \/ WalkCrash(t)

\* The request has been served, or the process has ended.
Ended ==
  /\ \/ proc = "crashed"
     \/ wpc = "done" /\ \A t \in Threads : pc[t] \in {"none", "done"}
  /\ UNCHANGED vars

Next ==
  \/ WorkerStep
  \/ SpuriousWakeup
  \/ \E t \in Threads : SolverStep(t)
  \/ Ended

Spec == Init /\ [][Next]_vars

\* Every thread that can run keeps running, and a solver that waits for the
\* mutex while spurious wakeups let the worker take it again and again gets it.
FairSpec ==
  /\ Spec
  /\ WF_vars(WorkerStep)
  /\ \A t \in Threads : WF_vars(SolverStep(t)) /\ SF_vars(SolverLock(t))

-----------------------------------------------------------------------------
(* A solver that still uses its resdata_t and what it points to, the       *)
(* counter, the mutex and the condition variable on the worker's stack,    *)
(* finds them there: the worker frees nothing and goes nowhere before the  *)
(* last solver has released the mutex.                                     *)
Attached == {t \in Threads : pc[t] \in {"resolve", "lock", "count", "signal", "unlock"}}

NoDanglingAccess ==
  \A t \in Attached :
    /\ resdata[t] = "live"
    /\ res_ready = "live"
    /\ wpc \notin {"collect", "answer", "close", "done"}

(* The scores are added up, and the client told, only when every RBL of    *)
(* the configuration has been asked and has answered.                      *)
Unanswered ==
  {t \in Threads : pc[t] \in {"none", "resolve", "lock", "count", "cancelled"}}

AllAnswersIn ==
  ~err /\ wpc \in {"collect", "answer", "close", "done"} => Unanswered = {}

(* The counter on the worker's stack counts the solvers asked for that     *)
(* have not counted themselves down, whatever became of them.              *)
Pending == {t \in Unanswered : resdata[t] = "live"}

ResolversCounted == resolvers = Cardinality(Pending)

(* No wakeup is lost: a worker that sleeps on the condition variable with  *)
(* nothing left to wait for has a solver about to broadcast.               *)
NoLostWakeup ==
  wpc = "wait" => resolvers # 0 \/ \E t \in Threads : pc[t] = "signal"

(* The peak that stats.c reports covers every moment at which the manager  *)
(* is not locked by a creator, as long as every registration succeeds.     *)
PeakCounted == lock # Creator /\ cancel = {} => nthreads <= max_solvers

\* pthread_create failed for solver t: it will never count itself down.
Unstarted(t) == t <= resdata_cnt /\ pc[t] = "none"

\* malloc failed in thr_register, and a solver was cancelled.
Cancelled == cancel # {}

(* Every request is answered and all its solvers leave the manager, or the *)
(* process ends in the unlocked walk.  Only a solver that did not start or *)
(* was cancelled can keep the client waiting, and one that did not start   *)
(* keeps none of the others.                                               *)
Answered ==
  <>[](\/ proc = "crashed" \/ Cancelled
       \/ /\ nthreads = 0 /\ nodes = {}
          /\ sent # <<>> \/ \E t \in Threads : Unstarted(t))

-----------------------------------------------------------------------------
(*              The request that the threads serve together               *)

\* How far the request is, what the RBLs have answered, what the client knows.
Phase ==
  IF wpc = "read" THEN "read"
  ELSE IF sent # <<>> THEN "replied"
  ELSE IF err THEN "bad" ELSE "lookup"

Heard ==
  [t \in Threads |-> IF pc[t] \in {"none", "resolve", "cancelled"} THEN "pending"
                     ELSE IF rscore[t] # 0 THEN "listed" ELSE "clean"]

Verdict == IF sent = <<>> THEN "none" ELSE sent[1]
Names   == IF sent = <<>> THEN <<>> ELSE sent[2]

Policy == INSTANCE PolicyRequest WITH
  RBLs <- Threads, phase <- Phase, answer <- Heard, verdict <- Verdict, named <- Names

(* The worker and its solvers implement the policy request: no reply       *)
(* before every RBL has answered, REJECT exactly when the weights of the   *)
(* RBLs that list the client reach the threshold, and the reply names just *)
(* those, in the order of the configuration.                               *)
ImplementsPolicyRequest == Policy!Spec

-----------------------------------------------------------------------------
(*       What a comment of the program says and does not hold              *)

(* A worker that waits for its solvers gets its answers: "Wait for the     *)
(* resolver threads to finish. Each resolver signals us it's readiness     *)
(* through pthread_cond_signal()" (worker.c:232-233).                      *)
JoinEnds == wpc = "wait" ~> wpc = "collect" \/ proc = "crashed"
=============================================================================
