------------------------------- MODULE ThrMgr -------------------------------
(***************************************************************************)
(* The thread manager of thrmgr.c: a thrmgr_t with its mutex, its thread   *)
(* counter and its doubly linked list of thrd_t nodes.  The program has    *)
(* two managers of this type, workermgr and solvermgr; the modules Pool    *)
(* and Lookup each EXTEND this one for theirs.                             *)
(*                                                                         *)
(* A thread is named by a positive number, given out in the order of the   *)
(* pthread_create calls (which are serialised by the manager's lock), and  *)
(* its list node by the same number.  next[n] and last[n] keep their value *)
(* when node n is freed, as freed memory does until it is reused.          *)
(***************************************************************************)
EXTENDS Integers, FiniteSets

CONSTANT MaxTid        \* bound on the threads ever created

ASSUME MaxTidAssumption == MaxTid \in Nat

Threads == 1..MaxTid

NULL    == 0           \* the null pointer of the list
Creator == 0           \* the lock holder that runs [wr]thread_create
Nobody  == -1          \* the lock is free

VARIABLES
  lock,                \* holder of mgr->lock
  nthreads,            \* mgr->nthreads
  tlist,               \* mgr->tlist, the first node
  next, last,          \* the two links of each node
  nodes,               \* the nodes that are allocated
  pc,                  \* where each thread is
  cancel,              \* threads with a pending pthread_cancel
  cursor               \* thr in the unlocked loop of thr_unregister

listVars == <<nthreads, tlist, next, last, nodes>>
mgrVars  == <<lock, nthreads, tlist, next, last, nodes>>
thrVars  == <<pc, cancel, cursor>>

\* Where a thread is on its way out: inside thr_unregister, or gone.
ExitPCs == {"unreg", "search", "walk_start", "walk", "done", "killed"}

MgrTypeOK ==
  /\ lock \in Threads \cup {Creator, Nobody}
  /\ nthreads \in Nat
  /\ tlist \in Threads \cup {NULL}
  /\ next \in [Threads -> Threads \cup {NULL}]
  /\ last \in [Threads -> Threads \cup {NULL}]
  /\ nodes \subseteq Threads
  /\ cancel \subseteq Threads
  /\ cursor \in [Threads -> Threads \cup {NULL}]

MgrInit ==
  /\ lock = Nobody
  /\ nthreads = 0
  /\ tlist = NULL
  /\ next = [t \in Threads |-> NULL]
  /\ last = [t \in Threads |-> NULL]
  /\ nodes = {}
  /\ pc = [t \in Threads |-> "none"]
  /\ cancel = {}
  /\ cursor = [t \in Threads |-> NULL]

-----------------------------------------------------------------------------
(* thr_register: the counter is raised before the node is allocated, so a  *)
(* failing malloc leaves it raised.                                        *)

RegisterFails ==
  /\ nthreads' = nthreads + 1
  /\ UNCHANGED <<tlist, next, last, nodes>>

thr_register(t) ==
  /\ nthreads' = nthreads + 1
  /\ next' = [next EXCEPT ![t] = tlist]
  /\ last' = [n \in Threads |-> IF n = t THEN NULL
                                ELSE IF n = tlist THEN t ELSE last[n]]
  /\ tlist' = t
  /\ nodes' = nodes \cup {t}

-----------------------------------------------------------------------------
(* thr_unregister, the last thing a worker and a solver do.  The search    *)
(* loop finds the node of t when it can be reached from mgr->tlist along   *)
(* next: every set that holds the first node and is closed under next      *)
(* holds t.                                                                *)

ClosedUnderNext(S) ==
  /\ tlist # NULL => tlist \in S
  /\ \A n \in S : next[n] # NULL => next[n] \in S

InList(t) == \A S \in SUBSET Threads : ClosedUnderNext(S) => t \in S

\* Mutated form of Unlink: the counter is not lowered.
UnlinkWithoutCount(t) ==
  /\ tlist' = IF last[t] = NULL THEN next[t] ELSE tlist
  /\ next' = [n \in Threads |-> IF n = last[t] THEN next[t] ELSE next[n]]
  /\ last' = [n \in Threads |-> IF n = next[t] THEN last[t] ELSE last[n]]
  /\ nodes' = nodes \ {t}
  /\ UNCHANGED nthreads

\* Mutated form of Unlink: the back link is set for a node at the head only.
UnlinkHeadOnly(t) ==
  /\ tlist' = IF last[t] = NULL THEN next[t] ELSE tlist
  /\ next' = [n \in Threads |-> IF n = last[t] THEN next[t] ELSE next[n]]
  /\ last' = [n \in Threads |-> IF last[t] = NULL /\ n = next[t] THEN NULL ELSE last[n]]
  /\ nthreads' = nthreads - 1
  /\ nodes' = nodes \ {t}

\* Lines 112-121: take the node of t out of the list and free it.
Unlink(t) ==
  /\ tlist' = IF last[t] = NULL THEN next[t] ELSE tlist
  /\ next' = [n \in Threads |-> IF n = last[t] THEN next[t] ELSE next[n]]
  /\ last' = [n \in Threads |-> IF n = next[t] THEN last[t] ELSE last[n]]
  /\ nthreads' = nthreads - 1
  /\ nodes' = nodes \ {t}

Goto(t, p) == pc' = [pc EXCEPT ![t] = p]

\* pthread_mutex_lock(&mgr->lock)
UnregisterLock(t) ==
  /\ pc[t] = "unreg"
  /\ lock = Nobody
  /\ lock' = t
  /\ Goto(t, "search")
  /\ UNCHANGED <<listVars, cancel, cursor>>

\* The node is found, unlinked and freed, and the lock released.
UnregisterFound(t) ==
  /\ pc[t] = "search"
  /\ InList(t)
  /\ Unlink(t)
  /\ lock' = Nobody
  /\ Goto(t, "walk_start")
  /\ UNCHANGED <<cancel, cursor>>

\* "Thread not found": logged with the lock held.  syslog is a cancellation
\* point, so a cancelled thread may die there and keep the lock.
UnregisterNotFound(t) ==
  /\ pc[t] = "search"
  /\ ~InList(t)
  /\ \/ lock' = Nobody /\ Goto(t, "done")
     \/ t \in cancel /\ lock' = lock /\ Goto(t, "killed")
  /\ UNCHANGED <<listVars, cancel, cursor>>

\* The counting loop after the unlock: thr = mgr->tlist ...
WalkStart(t) ==
  /\ pc[t] = "walk_start"
  /\ cursor' = [cursor EXCEPT ![t] = tlist]
  /\ Goto(t, "walk")
  /\ UNCHANGED <<mgrVars, cancel>>

\* ... thr = thr->next.  A freed node still holds its old link, unless the
\* read ends the process: see WalksFreed.
WalkStep(t) ==
  /\ pc[t] = "walk"
  /\ cursor[t] # NULL
  /\ cursor' = [cursor EXCEPT ![t] = next[@]]
  /\ UNCHANGED <<mgrVars, pc, cancel>>

WalkEnd(t) ==
  /\ pc[t] = "walk"
  /\ cursor[t] = NULL
  /\ Goto(t, "done")
  /\ UNCHANGED <<mgrVars, cancel, cursor>>

thr_unregister(t) ==
  \/ UnregisterLock(t) \/ UnregisterFound(t) \/ UnregisterNotFound(t)
  \/ WalkStart(t) \/ WalkStep(t) \/ WalkEnd(t)

\* Thread t is about to read a node that has been freed under it.
WalksFreed(t) == pc[t] = "walk" /\ cursor[t] \notin nodes \cup {NULL}

-----------------------------------------------------------------------------
(* The list is intact: its links stay inside the allocated nodes, next and *)
(* last are inverse to each other, only the first node has last = NULL     *)
(* (thrmgr.c:92 logs "LL corrupt" otherwise), and older threads come later *)
(* in the list, so it has no cycle.                                        *)
ListIntact ==
  /\ tlist \in nodes \cup {NULL}
  /\ \A n \in nodes :
       /\ next[n] \in nodes \cup {NULL}
       /\ last[n] \in nodes \cup {NULL}
       /\ last[n] = NULL <=> n = tlist
       /\ next[n] # NULL => last[next[n]] = n /\ next[n] < n
       /\ last[n] # NULL => next[last[n]] = n

(* nthreads counts the nodes of the list and, for good, each thread whose  *)
(* registration failed in thr_register (thrmgr.c:76 raises it first).      *)
CountAgrees == nthreads = Cardinality(nodes \cup cancel)

(* A thread finds itself in the list when it unregisters, however early it *)
(* gets there: the creator holds the lock from before pthread_create until *)
(* after thr_register.  Only a cancelled thread meets "Thread not found".  *)
UnregisterFinds ==
  \A t \in Threads : pc[t] = "search" /\ t \notin cancel => InList(t)

(* A thread that walks the list of the manager meets allocated nodes only: *)
(* "the manager struct has to be protected by the caller!" (thrmgr.c:69).  *)
WalkProtected == \A t \in Threads : ~WalksFreed(t)
=============================================================================
