---------------------------- MODULE ThrMgrProofs ----------------------------
(***************************************************************************)
(* What thr_register and thr_unregister do to an intact list, and why the  *)
(* search loop of thr_unregister finds every node of one.  The proofs      *)
(* about Pool and Lookup rest on these lemmas.                             *)
(***************************************************************************)
EXTENDS ThrMgr, FiniteSetTheorems, NaturalsInduction, WellFoundedInduction, TLAPS

(* A set of threads that is not empty has a youngest one.                  *)
LEMMA Youngest ==
  ASSUME NEW T \in SUBSET Threads, T # {}
  PROVE  \E m \in T : \A n \in T : n <= m
<1> DEFINE Age == {MaxTid - n : n \in T}
<1>1. Age \subseteq Nat /\ Age # {}
  BY MaxTidAssumption DEF Threads
<1>2. PICK a \in Age : \A b \in Age : ~ (<<b, a>> \in OpToRel(<, Nat))
  BY <1>1, NatLessThanWellFounded, WFMin, Zenon
<1>3. \A b \in Age : a <= b
  <2>1. \A b \in Age : b < a => <<b, a>> \in OpToRel(<, Nat)
    BY <1>1, <1>2, Zenon DEF OpToRel
  <2>2. a \in Nat
    BY <1>1
  <2> SUFFICES ASSUME NEW b \in Age
               PROVE  a <= b
    OBVIOUS
  <2>3. ~ (b < a)
    BY <1>2, <2>1, Zenon
  <2>4. b \in Nat
    BY <1>1
  <2> HIDE DEF Age
  <2> QED
    BY <2>2, <2>3, <2>4
<1>4. PICK m \in T : a = MaxTid - m
  BY <1>2
<1>5. \A n \in T : MaxTid - n \in Age
  OBVIOUS
<1>6. \A n \in T : n <= m
  BY <1>3, <1>4, <1>5, MaxTidAssumption DEF Threads
<1> QED
  BY <1>4, <1>6

(* Following next from the head of an intact list reaches every node: the  *)
(* youngest node that is not reached would have a predecessor that is.     *)
LEMMA ListReaches ==
  ASSUME MgrTypeOK, ListIntact, NEW t \in nodes
  PROVE  InList(t)
<1> SUFFICES ASSUME NEW S \in SUBSET Threads, ClosedUnderNext(S), t \notin S
             PROVE  FALSE
  BY DEF InList
<1> DEFINE Missed == nodes \ S
<1>1. Missed \in SUBSET Threads /\ Missed # {}
  BY DEF MgrTypeOK
<1>2. PICK m \in Missed : \A n \in Missed : n <= m
  BY <1>1, Youngest, Zenon
<1>3. CASE last[m] = NULL
  <2>1. m = tlist
    BY <1>2, <1>3 DEF ListIntact
  <2>2. m # NULL
    BY <1>1, <1>2 DEF Threads, NULL
  <2> QED
    BY <1>2, <2>1, <2>2 DEF ClosedUnderNext
<1>4. CASE last[m] # NULL
  <2> DEFINE p == last[m]
  <2>1. p \in nodes /\ next[p] = m
    BY <1>2, <1>4 DEF ListIntact
  <2>2. m # NULL
    BY <1>1, <1>2 DEF Threads, NULL
  <2>3. m < p
    BY <2>1, <2>2 DEF ListIntact
  <2>4. p \in S
    <3>0. m \in Threads /\ p \in Threads
      BY <1>1, <2>1 DEF MgrTypeOK
    <3>1. m \in Int /\ p \in Int
      BY <3>0, MaxTidAssumption DEF Threads
    <3>2. ~ (p <= m)
      BY <2>3, <3>1
    <3> QED
      BY <1>2, <2>1, <3>2
  <2> QED
    BY <1>2, <2>1, <2>2, <2>4 DEF ClosedUnderNext
<1> QED
  BY <1>3, <1>4

(* The search loop of thr_unregister stays inside the allocated nodes.     *)
LEMMA ReachedIsNode ==
  ASSUME MgrTypeOK, ListIntact, NEW t, InList(t)
  PROVE  t \in nodes
<1>1. ClosedUnderNext(nodes)
  BY DEF ClosedUnderNext, ListIntact
<1> QED
  BY <1>1 DEF InList, MgrTypeOK

(* thr_register puts a new, younger thread at the head and keeps the list  *)
(* intact.                                                                 *)
LEMMA RegisterIntact ==
  ASSUME MgrTypeOK, ListIntact, NEW t \in Threads, \A n \in nodes : n < t,
         thr_register(t)
  PROVE  /\ ListIntact'
         /\ nthreads' \in Nat
         /\ tlist' \in Threads \cup {NULL}
         /\ next' \in [Threads -> Threads \cup {NULL}]
         /\ last' \in [Threads -> Threads \cup {NULL}]
         /\ nodes' \subseteq Threads
<1>0. /\ t \notin nodes /\ t # NULL /\ nodes \subseteq Threads
      /\ NULL \notin Threads
  BY DEF MgrTypeOK, Threads, NULL
<1>1. /\ nthreads' \in Nat
      /\ tlist' \in Threads \cup {NULL}
      /\ next' \in [Threads -> Threads \cup {NULL}]
      /\ last' \in [Threads -> Threads \cup {NULL}]
      /\ nodes' \subseteq Threads
  BY DEF MgrTypeOK, thr_register
<1>2. /\ tlist' = t /\ nodes' = nodes \cup {t}
      /\ next'[t] = tlist /\ last'[t] = NULL
      /\ \A n \in nodes : /\ next'[n] = next[n]
                          /\ last'[n] = IF n = tlist THEN t ELSE last[n]
  BY <1>0 DEF MgrTypeOK, thr_register
<1>3. ASSUME NEW n \in nodes'
      PROVE  /\ next'[n] \in nodes' \cup {NULL}
             /\ last'[n] \in nodes' \cup {NULL}
             /\ last'[n] = NULL <=> n = tlist'
             /\ next'[n] # NULL => last'[next'[n]] = n /\ next'[n] < n
             /\ last'[n] # NULL => next'[last'[n]] = n
  <2>1. CASE n = t
    <3>1. tlist \in nodes \cup {NULL}
      BY DEF ListIntact
    <3> QED
      BY <1>0, <1>2, <2>1, <3>1
  <2>2. CASE n \in nodes
    <3>1. n # t
      BY <1>0, <2>2
    <3>2. /\ next[n] \in nodes \cup {NULL}
          /\ last[n] \in nodes \cup {NULL}
          /\ last[n] = NULL <=> n = tlist
          /\ next[n] # NULL => last[next[n]] = n /\ next[n] < n
          /\ last[n] # NULL => next[last[n]] = n
      BY <2>2 DEF ListIntact
    <3>3. next[n] # NULL => next[n] # tlist
      BY <1>0, <2>2, <3>2 DEF ListIntact
    <3> QED
      BY <1>0, <1>2, <2>2, <3>1, <3>2, <3>3
  <2> QED
    BY <1>2, <2>1, <2>2
<1> QED
  BY <1>1, <1>2, <1>3 DEF ListIntact

(* Lines 112-121 take a node out of the list, wherever it stands, and keep *)
(* the rest intact.                                                        *)
LEMMA UnlinkIntact ==
  ASSUME MgrTypeOK, ListIntact, NEW t \in nodes, Unlink(t)
  PROVE  /\ ListIntact'
         /\ tlist' \in Threads \cup {NULL}
         /\ next' \in [Threads -> Threads \cup {NULL}]
         /\ last' \in [Threads -> Threads \cup {NULL}]
         /\ nodes' \subseteq Threads
<1>0. /\ t \in Threads /\ t # NULL /\ nodes \subseteq Threads
      /\ NULL \notin Threads /\ \A n \in nodes : n # NULL
  BY DEF MgrTypeOK, Threads, NULL
<1>t. /\ next[t] \in nodes \cup {NULL}
      /\ last[t] \in nodes \cup {NULL}
      /\ last[t] = NULL <=> t = tlist
      /\ next[t] # NULL => last[next[t]] = t /\ next[t] < t
      /\ last[t] # NULL => next[last[t]] = t
  BY DEF ListIntact
<1>1. /\ tlist' \in Threads \cup {NULL}
      /\ next' \in [Threads -> Threads \cup {NULL}]
      /\ last' \in [Threads -> Threads \cup {NULL}]
      /\ nodes' \subseteq Threads
  BY <1>0, <1>t DEF MgrTypeOK, Unlink
<1>2. /\ tlist' = (IF last[t] = NULL THEN next[t] ELSE tlist)
      /\ nodes' = nodes \ {t}
      /\ \A n \in nodes : /\ next'[n] = (IF n = last[t] THEN next[t] ELSE next[n])
                          /\ last'[n] = (IF n = next[t] THEN last[t] ELSE last[n])
  BY <1>0 DEF MgrTypeOK, Unlink
<1>3. next[t] # t /\ last[t] # t
  BY <1>0, <1>t DEF MgrTypeOK, Threads, ListIntact
<1>4. tlist' \in nodes' \cup {NULL}
  BY <1>t, <1>2, <1>3 DEF ListIntact
<1>5. ASSUME NEW n \in nodes'
      PROVE  /\ next'[n] \in nodes' \cup {NULL}
             /\ last'[n] \in nodes' \cup {NULL}
             /\ last'[n] = NULL <=> n = tlist'
             /\ next'[n] # NULL => last'[next'[n]] = n /\ next'[n] < n
             /\ last'[n] # NULL => next'[last'[n]] = n
  <2>0. n \in nodes /\ n # t /\ n # NULL
    BY <1>0, <1>2
  <2>n. /\ next[n] \in nodes \cup {NULL}
        /\ last[n] \in nodes \cup {NULL}
        /\ last[n] = NULL <=> n = tlist
        /\ next[n] # NULL => last[next[n]] = n /\ next[n] < n
        /\ last[n] # NULL => next[last[n]] = n
    BY <2>0 DEF ListIntact
  <2>1. n # last[t] => next[n] # t
    BY <2>0, <2>n, <1>0
  <2>2. n # next[t] => last[n] # t
    BY <2>0, <2>n, <1>0
  <2>3. next'[n] \in nodes' \cup {NULL}
    BY <1>2, <1>3, <1>t, <2>0, <2>n, <2>1
  <2>4. last'[n] \in nodes' \cup {NULL}
    BY <1>2, <1>3, <1>t, <2>0, <2>n, <2>2
  <2>5. last'[n] = NULL <=> n = tlist'
    BY <1>2, <1>3, <1>t, <1>0, <2>0, <2>n, <2>2
  <2>6. next'[n] # NULL => last'[next'[n]] = n /\ next'[n] < n
    <3>1. CASE n = last[t]
      <4>1. next[t] # NULL => next[t] < n
        <5>1. next[n] = t /\ t < n
          BY <1>0, <1>t, <2>0, <2>n, <3>1
        <5>2. n \in Int /\ t \in Int /\ \A k \in nodes : k \in Int
          BY <1>0, <2>0, MaxTidAssumption DEF Threads
        <5> SUFFICES ASSUME next[t] # NULL
                     PROVE  next[t] < n
          OBVIOUS
        <5>3. next[t] \in Int /\ next[t] < t
          BY <1>t, <5>2
        <5> QED
          BY <5>1, <5>2, <5>3
      <4> QED
        BY <1>0, <1>2, <1>t, <2>0, <3>1, <4>1
    <3>2. CASE n # last[t]
      <4>1. next[n] # NULL => next[n] # next[t]
        BY <1>0, <1>t, <2>0, <2>n, <3>2
      <4> QED
        BY <1>0, <1>2, <2>0, <2>n, <3>2, <4>1
    <3> QED
      BY <3>1, <3>2
  <2>7. last'[n] # NULL => next'[last'[n]] = n
    <3>1. CASE n = next[t]
      BY <1>0, <1>2, <1>t, <2>0, <3>1
    <3>2. CASE n # next[t]
      <4>1. last[n] # NULL => last[n] # last[t]
        BY <1>0, <1>t, <2>0, <2>n, <3>2
      <4> QED
        BY <1>0, <1>2, <2>0, <2>n, <3>2, <4>1
    <3> QED
      BY <3>1, <3>2
  <2> QED
    BY <2>3, <2>4, <2>5, <2>6, <2>7
<1> QED
  BY <1>1, <1>4, <1>5 DEF ListIntact

-----------------------------------------------------------------------------
(* The part of the inductive invariants of Pool and Lookup that is about   *)
(* the manager alone.                                                      *)

SearchersHold == \A t \in Threads : pc[t] = "search" => lock = t

ManagerInv ==
  /\ MgrTypeOK
  /\ ListIntact
  /\ CountAgrees
  /\ nodes \cap cancel = {}

Known == nodes \cup cancel

LEMMA KnownFinite ==
  ASSUME MgrTypeOK
  PROVE  IsFiniteSet(Known) /\ Cardinality(Known) \in Nat
<1>1. IsFiniteSet(Threads)
  BY FS_Interval, MaxTidAssumption DEF Threads
<1>2. Known \in SUBSET Threads
  BY DEF MgrTypeOK, Known
<1> QED
  BY <1>1, <1>2, FS_Subset, FS_CardinalityType

(* Steps that leave the list alone.                                        *)
LEMMA ManagerFrame ==
  ASSUME ManagerInv, UNCHANGED listVars, cancel' = cancel,
         lock' \in Threads \cup {Creator, Nobody},
         cursor' \in [Threads -> Threads \cup {NULL}]
  PROVE  ManagerInv'
BY DEF ManagerInv, MgrTypeOK, ListIntact, CountAgrees, listVars

(* A thread that is registered is counted.                                 *)
LEMMA RegisterManager ==
  ASSUME ManagerInv, NEW t \in Threads, t \notin cancel, \A n \in nodes : n < t,
         thr_register(t), cancel' = cancel, cursor' = cursor,
         lock' \in Threads \cup {Creator, Nobody}
  PROVE  /\ ManagerInv'
         /\ nodes' = nodes \cup {t}
         /\ nthreads' = nthreads + 1
<1> USE DEF ManagerInv
<1>1. /\ t \notin nodes
      /\ t \notin Known
  BY DEF MgrTypeOK, Threads, Known
<1>2. nthreads' = nthreads + 1 /\ nodes' = nodes \cup {t}
  BY DEF thr_register
<1>3. MgrTypeOK' /\ ListIntact'
  BY RegisterIntact DEF MgrTypeOK
<1>4. Cardinality(Known \cup {t}) = Cardinality(Known) + 1
  BY <1>1, KnownFinite, FS_AddElement
<1>5. nodes' \cup cancel' = Known \cup {t}
  BY <1>2 DEF Known
<1>6. CountAgrees'
  BY <1>2, <1>4, <1>5 DEF CountAgrees, Known
<1>7. nodes' \cap cancel' = {}
  BY <1>2
<1> QED
  BY <1>2, <1>3, <1>6, <1>7

(* A thread whose registration fails stays counted.                        *)
LEMMA FailManager ==
  ASSUME ManagerInv, NEW t \in Threads, t \notin Known,
         RegisterFails, cancel' = cancel \cup {t}, cursor' = cursor,
         lock' \in Threads \cup {Creator, Nobody}
  PROVE  ManagerInv'
<1> USE DEF ManagerInv
<1>1. MgrTypeOK' /\ ListIntact'
  BY DEF MgrTypeOK, ListIntact, RegisterFails
<1>2. Cardinality(Known \cup {t}) = Cardinality(Known) + 1
  BY KnownFinite, FS_AddElement
<1>3. nodes' \cup cancel' = Known \cup {t}
  BY DEF Known, RegisterFails
<1>4. CountAgrees'
  BY <1>2, <1>3 DEF CountAgrees, Known, RegisterFails
<1>5. nodes' \cap cancel' = {}
  BY DEF Known, RegisterFails
<1> QED
  BY <1>1, <1>4, <1>5

(* A step of thr_unregister: it keeps the manager in order, needs the lock *)
(* to touch the list, and takes at most its own thread out of it.          *)
LEMMA UnregisterManager ==
  ASSUME ManagerInv, SearchersHold, NEW P, pc \in [Threads -> P],
         NEW t \in Threads, thr_unregister(t)
  PROVE  /\ ManagerInv' /\ SearchersHold'
         /\ cancel' = cancel
         /\ \/ UNCHANGED listVars
            \/ lock = t /\ pc'[t] # pc[t] /\ nodes' = nodes \ {t} /\ nthreads' = nthreads - 1
         /\ lock = Creator => lock' = Creator /\ UNCHANGED listVars
         /\ pc' = [pc EXCEPT ![t] = pc'[t]]
         /\ pc[t] \in ExitPCs /\ pc'[t] \in ExitPCs
         /\ pc'[t] \in {"unreg", "search"} =>
               pc[t] \in {"unreg", "search"} /\ UNCHANGED listVars
<1>0. /\ t # Nobody /\ t # Creator /\ t # NULL /\ Nobody # Creator
      /\ Nobody \notin Threads /\ Creator \notin Threads
  BY MaxTidAssumption DEF Nobody, Creator, NULL, Threads
<1>1. CASE UnregisterLock(t)
  <2>1. ManagerInv'
    BY <1>1, ManagerFrame DEF ManagerInv, MgrTypeOK, UnregisterLock
  <2> QED
    BY <1>0, <1>1, <2>1 DEF UnregisterLock, SearchersHold, Goto, ExitPCs, listVars
<1>2. CASE UnregisterFound(t)
  <2>1. t \in nodes /\ lock = t
    BY <1>2, ReachedIsNode DEF ManagerInv, UnregisterFound, SearchersHold
  <2>2. /\ nthreads' = nthreads - 1 /\ nodes' = nodes \ {t} /\ cancel' = cancel
        /\ lock' = Nobody /\ cursor' = cursor /\ pc' = [pc EXCEPT ![t] = "walk_start"]
        /\ Unlink(t) /\ pc[t] = "search"
    BY <1>2 DEF UnregisterFound, Unlink, Goto
  <2>3. /\ ListIntact'
        /\ tlist' \in Threads \cup {NULL}
        /\ next' \in [Threads -> Threads \cup {NULL}]
        /\ last' \in [Threads -> Threads \cup {NULL}]
        /\ nodes' \subseteq Threads
    BY <2>1, <2>2, UnlinkIntact DEF ManagerInv
  <2>4. nodes' \cup cancel' = Known \ {t}
    BY <2>1, <2>2 DEF Known, ManagerInv
  <2>5. /\ Cardinality(Known \ {t}) = Cardinality(Known) - 1
        /\ Cardinality(Known \ {t}) \in Nat
    <3>1. IsFiniteSet(Known) /\ t \in Known
      BY <2>1, KnownFinite DEF ManagerInv, Known
    <3> QED
      BY <3>1, FS_RemoveElement, FS_CardinalityType
  <2>6. nthreads' \in Nat /\ CountAgrees'
    BY <2>2, <2>4, <2>5 DEF ManagerInv, CountAgrees, Known
  <2>7. ManagerInv'
    BY <2>2, <2>3, <2>6 DEF ManagerInv, MgrTypeOK
  <2>8. SearchersHold'
    BY <2>1, <2>2 DEF SearchersHold
  <2> QED
    BY <1>0, <2>1, <2>2, <2>7, <2>8 DEF ExitPCs
<1>3. CASE UnregisterNotFound(t)
  <2>1. lock = t /\ UNCHANGED listVars
    BY <1>3 DEF UnregisterNotFound, SearchersHold
  <2>2. ManagerInv'
    BY <1>3, <2>1, ManagerFrame DEF ManagerInv, MgrTypeOK, UnregisterNotFound
  <2>3. SearchersHold'
    BY <1>3, <2>1 DEF UnregisterNotFound, SearchersHold, Goto
  <2> QED
    BY <1>0, <1>3, <2>1, <2>2, <2>3 DEF UnregisterNotFound, Goto, ExitPCs
<1>4. CASE WalkStart(t)
  <2>1. ManagerInv'
    BY <1>4, ManagerFrame DEF ManagerInv, MgrTypeOK, WalkStart, mgrVars, listVars
  <2> QED
    BY <1>4, <2>1 DEF WalkStart, SearchersHold, Goto, ExitPCs, mgrVars, listVars
<1>5. CASE WalkStep(t)
  <2>1. cursor' \in [Threads -> Threads \cup {NULL}]
    BY <1>5 DEF ManagerInv, MgrTypeOK, WalkStep
  <2>2. ManagerInv'
    BY <1>5, <2>1, ManagerFrame DEF ManagerInv, MgrTypeOK, WalkStep, mgrVars, listVars
  <2> QED
    BY <1>5, <2>2 DEF WalkStep, SearchersHold, ExitPCs, mgrVars, listVars
<1>6. CASE WalkEnd(t)
  <2>1. ManagerInv'
    BY <1>6, ManagerFrame DEF ManagerInv, MgrTypeOK, WalkEnd, mgrVars, listVars
  <2> QED
    BY <1>6, <2>1 DEF WalkEnd, SearchersHold, Goto, ExitPCs, mgrVars, listVars
<1> QED
  BY <1>1, <1>2, <1>3, <1>4, <1>5, <1>6 DEF thr_unregister
=============================================================================
