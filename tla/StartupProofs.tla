--------------------------- MODULE StartupProofs ---------------------------
(***************************************************************************)
(* At most one daemon listens, and no launch takes its address away, for   *)
(* any number of launches.                                                 *)
(***************************************************************************)
EXTENDS Startup, TLAPS

\* A path that was bound to is that of the only socket bound to it.
PathIsOwn == family = "PF_UNIX" => \A p \in bound : path = p

\* A launch that has come so far has bound its socket, or listens.
HasSocket ==
  \A p \in Launches : /\ pc[p] \in {"listen", "fork", "serve"} => p \in bound
                      /\ pc[p] \in {"fork", "serve"} => p \in listening

\* Nothing is reported before the launch has got as far as server() or its end.
Unreported == \A p \in Launches : pc[p] \notin {"serve", "ended"} => status[p] = None

IInv == TypeOK /\ PathIsOwn /\ HasSocket /\ Unreported /\ OneListener

LEMMA InitInv == Init => IInv
<1> SUFFICES ASSUME Init PROVE IInv
  OBVIOUS
<1>1. pidfile \in {"absent", "unusable", "stale", "running", "foreign", "special"}
  BY PidFilesAssumption DEF Init
<1>2. TypeOK
  BY <1>1 DEF Init, TypeOK, MainPCs
<1> QED
  BY <1>2 DEF Init, IInv, PathIsOwn, HasSocket, Unreported, OneListener

(* A launch moves on in main() and leaves the sockets alone.               *)
LEMMA StepKeeps ==
  ASSUME IInv, NEW p \in Launches, NEW from, NEW to \in MainPCs, Step(p, from, to),
         \/ {from, to} \cap {"listen", "fork", "serve"} = {}
         \/ from = "fork" /\ to = "serve",
         from \notin {"serve", "ended"},
         UNCHANGED <<options, sockVars, pidfile>>,
         status' = IF to = "serve" THEN [status EXCEPT ![p] = "success"] ELSE status
  PROVE  IInv'
<1>1. TypeOK'
  BY DEF IInv, TypeOK, Step, sockVars
<1>2. PathIsOwn' /\ HasSocket' /\ Unreported' /\ OneListener'
  BY DEF IInv, TypeOK, Step, PathIsOwn, HasSocket, Unreported, OneListener, sockVars
<1> QED
  BY <1>1, <1>2 DEF IInv

(* The end of a process takes its socket away, but not the path.           *)
LEMMA ExitKeeps ==
  ASSUME IInv, NEW p \in Launches, NEW from, NEW s \in {"success", "failure", "killed"},
         Exit(p, from, s), UNCHANGED <<family, options, path, pidfile>>
  PROVE  IInv'
<1>1. TypeOK'
  BY DEF IInv, TypeOK, Exit, Step, MainPCs
<1>2. PathIsOwn' /\ HasSocket' /\ Unreported' /\ OneListener'
  BY DEF IInv, TypeOK, Step, PathIsOwn, HasSocket, Unreported, OneListener, Exit
<1> QED
  BY <1>1, <1>2 DEF IInv

LEMMA CheckKeeps ==
  ASSUME IInv, NEW p \in Launches,
         Launch(p) \/ ParseOptions(p) \/ StatPidfile(p) \/ ProbePid(p) \/ UnlinkPidfile(p)
  PROVE  IInv'
<1>1. CASE Launch(p)
  BY <1>1 DEF Launch, IInv, TypeOK, PathIsOwn, HasSocket, Unreported, OneListener, Step, sockVars, MainPCs
<1>2. CASE ParseOptions(p)
  <2>1. CASE Step(p, "options", "stat") /\ UNCHANGED <<sockVars, status>>
    BY <1>2, <2>1, StepKeeps DEF ParseOptions, MainPCs, IInv, TypeOK
  <2>2. ASSUME NEW s \in {"success", "failure"}, Exit(p, "options", s), UNCHANGED <<family, path>>
        PROVE  IInv'
    BY <1>2, <2>2, ExitKeeps DEF ParseOptions
  <2> QED
    BY <1>2, <2>1, <2>2 DEF ParseOptions
<1>3. CASE StatPidfile(p)
  BY <1>3, StepKeeps DEF StatPidfile, MainPCs, IInv, TypeOK
<1>4. CASE ProbePid(p)
  <2>1. CASE Exit(p, "kill", "failure")
    BY <1>4, <2>1, ExitKeeps DEF ProbePid
  <2>2. ASSUME NEW to \in {"config", "unlink"}, Step(p, "kill", to),
               UNCHANGED <<bound, listening, status>>
        PROVE  IInv'
    BY <1>4, <2>2, StepKeeps DEF ProbePid, MainPCs, IInv, TypeOK, sockVars
  <2> QED
    BY <1>4, <2>1, <2>2 DEF ProbePid
<1>5. CASE UnlinkPidfile(p)
  BY <1>5 DEF UnlinkPidfile, IInv, TypeOK, PathIsOwn, HasSocket, Unreported, OneListener, Step, sockVars, MainPCs
<1> QED
  BY <1>1, <1>2, <1>3, <1>4, <1>5

LEMMA PidKeeps == ASSUME IInv, PidChanges PROVE IInv'
BY PidFilesAssumption DEF PidChanges, IInv, TypeOK, PathIsOwn, HasSocket, Unreported, OneListener, sockVars

LEMMA SocketKeeps ==
  ASSUME IInv, NEW p \in Launches,
         \/ Configure(p) \/ CreateSocket(p) \/ BindBadSocket(p)
         \/ Bind(p) \/ BindFails(p) \/ Listen(p) \/ ListenFails(p) \/ Fork(p)
  PROVE  IInv'
<1>1. ASSUME NEW from, Fail(p, from) PROVE IInv'
  BY <1>1, ExitKeeps DEF Fail
<1>2. CASE Configure(p)
  BY <1>1, <1>2, StepKeeps DEF Configure, MainPCs, IInv, TypeOK
<1>3. CASE CreateSocket(p)
  BY <1>1, <1>3, StepKeeps DEF CreateSocket, MainPCs, IInv, TypeOK
<1>4. CASE BindBadSocket(p) \/ BindFails(p) \/ ListenFails(p)
  BY <1>1, <1>4 DEF BindBadSocket, BindFails, ListenFails
<1>5. CASE Bind(p)
  <2>1. family = "PF_UNIX" => bound = {}
    BY <1>5, NoneAssumption DEF Bind, MayBind, IInv, TypeOK, PathIsOwn
  <2>2. TypeOK'
    BY <1>5 DEF Bind, Step, IInv, TypeOK, MainPCs
  <2>3. PathIsOwn' /\ HasSocket' /\ Unreported' /\ OneListener'
    BY <1>5, <2>1 DEF Bind, Step, IInv, TypeOK, PathIsOwn, HasSocket, Unreported, OneListener
  <2> QED
    BY <2>2, <2>3 DEF IInv
<1>6. CASE Listen(p)
  <2>1. p \in bound
    BY <1>6 DEF Listen, Step, IInv, HasSocket
  <2>2. listening \subseteq {p}
    BY <1>6, <2>1 DEF Listen, MayListen, IInv, TypeOK, PathIsOwn
  <2>3. listening' = {p}
    BY <1>6, <2>2 DEF Listen
  <2>4. /\ pc' = [pc EXCEPT ![p] = IF foreground(p) THEN "serve" ELSE "fork"]
        /\ UNCHANGED <<family, options, bound, path, pidfile, status>>
    BY <1>6 DEF Listen, Step
  <2> HIDE DEF foreground
  <2>5. TypeOK'
    BY <2>1, <2>3, <2>4 DEF IInv, TypeOK, MainPCs
  <2>6. PathIsOwn' /\ OneListener'
    BY <2>3, <2>4 DEF IInv, PathIsOwn, OneListener
  <2>7. HasSocket'
    <3>1. \A q \in Launches \ {p} : pc[q] \notin {"fork", "serve"}
      BY <2>2 DEF IInv, HasSocket
    <3> QED
      BY <2>1, <2>3, <2>4, <3>1 DEF IInv, TypeOK, HasSocket
  <2>8. Unreported'
    BY <1>6, <2>4 DEF Listen, Step, IInv, TypeOK, Unreported
  <2> QED
    BY <2>5, <2>6, <2>7, <2>8 DEF IInv
<1>7. CASE Fork(p)
  BY <1>1, <1>7, StepKeeps DEF Fork, MainPCs, IInv, TypeOK
<1> QED
  BY <1>2, <1>3, <1>4, <1>5, <1>6, <1>7

(* Every step keeps the invariant.                                         *)
LEMMA NextInv == IInv /\ [Next]_vars => IInv'
<1> SUFFICES ASSUME IInv, [Next]_vars PROVE IInv'
  OBVIOUS
<1>1. ASSUME NEW p \in Launches, Shutdown(p) \/ Killed(p) PROVE IInv'
  BY <1>1, ExitKeeps DEF Shutdown, Killed
<1>2. CASE UNCHANGED vars
  BY <1>2 DEF vars, IInv, TypeOK, PathIsOwn, HasSocket, Unreported, OneListener
<1>3. CASE PidChanges
  BY <1>3, PidKeeps
<1> QED
  BY <1>1, <1>2, <1>3, CheckKeeps, SocketKeeps DEF Next, main, Done

LEMMA Invariant == Spec => []IInv
BY InitInv, NextInv, PTL DEF Spec

(* Only launches that run have sockets, and what listens is bound.         *)
THEOREM TypeCorrect == Spec => []TypeOK
<1>1. IInv => TypeOK
  BY DEF IInv
<1> QED
  BY <1>1, Invariant, PTL

(* However many launches overlap, one daemon at the most listens.          *)
THEOREM OnlyOneListens == Spec => []OneListener
<1>1. IInv => OneListener
  BY DEF IInv
<1> QED
  BY <1>1, Invariant, PTL

(* No launch, killed ones included, takes a running daemon's path away.    *)
THEOREM DaemonStaysReachable == Spec => []StaysReachable
<1>1. IInv => StaysReachable
  BY DEF IInv, TypeOK, PathIsOwn, StaysReachable
<1> QED
  BY <1>1, Invariant, PTL

(* A success is reported only when the daemon's socket listens.            *)
THEOREM SuccessIsListening == Spec => SuccessMeansListening
<1>1. IInv /\ [Next]_vars =>
        [\A p \in Launches : pc[p] = "fork" /\ status'[p] = "success" => p \in listening']_vars
  <2> SUFFICES ASSUME IInv, Next, NEW p \in Launches, pc[p] = "fork", status'[p] = "success"
               PROVE  p \in listening'
    OBVIOUS
  <2>1. /\ p \in listening /\ status[p] = None
        /\ status \in [Launches -> {None, "success", "failure", "killed"}]
    BY DEF IInv, TypeOK, HasSocket, Unreported
  <2>2. ASSUME NEW q \in Launches, NEW from, NEW s \in {"success", "failure", "killed"},
               Exit(q, from, s), s = "success" => from # "fork"
        PROVE  p \in listening'
    BY <2>1, <2>2 DEF Exit, Step
  <2>3. ASSUME NEW q \in Launches, Launch(q) \/ main(q)
        PROVE  p \in listening'
    BY <2>1, <2>2, <2>3 DEF main, Launch, ParseOptions, StatPidfile, ProbePid, UnlinkPidfile, Configure,
         CreateSocket, BindBadSocket, Bind, BindFails, Listen, ListenFails, Fork, Fail, sockVars
  <2>4. ASSUME NEW q \in Launches, Shutdown(q) \/ Killed(q)
        PROVE  p \in listening'
    BY <2>1, <2>2, <2>4 DEF Shutdown, Killed
  <2> QED
    BY <2>1, <2>3, <2>4 DEF Next, PidChanges, Done, vars, sockVars
<1> QED
  BY <1>1, Invariant, PTL DEF Spec, SuccessMeansListening
=============================================================================
