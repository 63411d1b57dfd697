------------------------------ MODULE Startup ------------------------------
(***************************************************************************)
(* From the command line to server(): main() of rblpolicyd.c with          *)
(* pid_check of pidfile.c, for several launches of the daemon that overlap *)
(* or follow each other, any of which may be killed at any moment.  What   *)
(* outlives a process is the pid file and the path of a UNIX socket.       *)
(***************************************************************************)
EXTENDS Integers, Sequences

CONSTANTS
  Launches,            \* the launches of the daemon
  Families,            \* what <port> may name: a UNIX socket path or a port
  CommandLines,        \* the options they are given, as sequences of words
  PidFiles,            \* what the pid file may be at first
  Faults,              \* calls that may fail
  None

ASSUME FamilyAssumption == Families \subseteq {"PF_UNIX", "PF_INET"}
ASSUME PidFilesAssumption ==
  PidFiles \subseteq {"absent", "unusable", "stale", "running", "foreign", "special"}
ASSUME FaultsAssumption ==
  Faults \subseteq {"cfg_read", "res_init", "socket", "stdin", "getaddrinfo", "fork"}
ASSUME NoneAssumption == None \notin Launches

VARIABLES
  family,              \* what <port> names, in every launch
  pc,                  \* where each launch is in main(); its child after the fork
  options,             \* its options
  bound, listening,    \* the launches whose socket is bound, or listens
  path,                \* whose socket the UNIX path leads to, if it exists
  pidfile,             \* what the pid file is
  status               \* exit status of the process that was started

vars == <<family, pc, options, bound, listening, path, pidfile, status>>
sockVars == <<family, bound, listening, path>>

MainPCs == {"none", "options", "stat", "kill", "unlink", "config", "socket", "bind", "bad",
            "listen", "fork", "serve", "ended"}

\* A socket that listens is bound, and only launches that run have sockets.
TypeOK ==
  /\ family \in Families
  /\ pc \in [Launches -> MainPCs]
  /\ options \in [Launches -> CommandLines \cup {None}]
  /\ bound \in SUBSET Launches /\ listening \in SUBSET bound
  /\ \A p \in bound : pc[p] \in {"listen", "fork", "serve"}
  /\ path \in Launches \cup {None}
  /\ pidfile \in {"absent", "unusable", "stale", "running", "foreign", "special"}
  /\ status \in [Launches -> {None, "success", "failure", "killed"}]

Init ==
  /\ family \in Families
  /\ pc = [p \in Launches |-> "none"]
  /\ options = [p \in Launches |-> None]
  /\ bound = {} /\ listening = {} /\ path = None
  /\ pidfile \in PidFiles
  /\ status = [p \in Launches |-> None]

Alive(p) == pc[p] \notin {"none", "ended"}

\* p goes from one place in main to another.
Step(p, from, to) == pc[p] = from /\ pc' = [pc EXCEPT ![p] = to]

\* The process ends, its descriptors are closed.  A status that the parent
\* has returned already is what whoever started the daemon knows.
Exit(p, from, s) ==
  /\ Step(p, from, "ended")
  /\ status' = [status EXCEPT ![p] = IF @ = None THEN s ELSE @]
  /\ bound' = bound \ {p} /\ listening' = listening \ {p}

\* Mutated form of Fail: it clears the path away.
FailUnlinking(p, from) ==
  /\ Exit(p, from, "failure")
  /\ path' = None
  /\ UNCHANGED <<family, options, pidfile>>

Fail(p, from) == Exit(p, from, "failure") /\ UNCHANGED <<family, options, path, pidfile>>

-----------------------------------------------------------------------------
(*                               The options                               *)

Launch(p) ==
  /\ Step(p, "none", "options")
  /\ \E o \in CommandLines : options' = [options EXCEPT ![p] = o]
  /\ UNCHANGED <<sockVars, pidfile, status>>

long_options ==
  {<<"--", n>> : n \in {"verbose", "debug", "foreground", "cfgfile", "pidfile",
                        "max-children", "help", "version"}}

short_options == {"v", "d", "f", "c", "p", "m", "h", "V"}

\* getopt_long strips the two dashes of a long option, the one of a short
\* option, and looks the rest up.
Known(o) == IF o[1] = "--" THEN Tail(o) \in long_options ELSE o[2] \in short_options

\* -h and -V print something and exit.
Informs(o) == o \in {<<"-", "h">>, <<"-", "V">>}

\* The first option that is unknown, or informs, ends it.
ParseOptions(p) ==
  /\ pc[p] = "options"
  /\ LET odd == {k \in 1..Len(options[p]) : ~Known(options[p][k]) \/ Informs(options[p][k])} IN
       \/ odd = {} /\ Step(p, "options", "stat") /\ UNCHANGED <<sockVars, status>>
       \/ \E k \in odd :
            /\ \A j \in odd : k <= j
            /\ Exit(p, "options", IF Known(options[p][k]) THEN "success" ELSE "failure")
            /\ UNCHANGED <<family, path>>
  /\ UNCHANGED <<options, pidfile>>

foreground(p) == \E k \in 1..Len(options[p]) : options[p][k] \in {<<"-", "f">>, <<"-", "d">>}

-----------------------------------------------------------------------------
(*                                pid_check                                *)

\* stat
StatPidfile(p) ==
  /\ Step(p, "stat", IF pidfile = "absent" THEN "config" ELSE "kill")
  /\ UNCHANGED <<options, sockVars, pidfile, status>>

\* kill(pid, 0) == 0: it fails with EPERM for a process of another user.
KillFinds == pidfile = "running"

\* pid_get and kill.  A file that has gone or holds no number is no obstacle.
ProbePid(p) ==
  /\ \/ /\ pidfile \in {"absent", "unusable"}
        /\ Step(p, "kill", "config") /\ UNCHANGED <<bound, listening, status>>
     \/ KillFinds /\ Exit(p, "kill", "failure")
     \/ /\ ~KillFinds /\ pidfile \in {"stale", "foreign"}
        /\ Step(p, "kill", "unlink") /\ UNCHANGED <<bound, listening, status>>
     \/ pidfile = "special" /\ Exit(p, "kill", "failure")
  /\ UNCHANGED <<family, options, path, pidfile>>

\* "Removing stale pidfile"
UnlinkPidfile(p) ==
  /\ Step(p, "unlink", "config")
  /\ pidfile' = "absent"
  /\ UNCHANGED <<options, sockVars, status>>

\* Outside: the process that the pid file names ends, or its pid is used again.
PidChanges ==
  /\ \/ pidfile \in {"running", "foreign"} /\ pidfile' = "stale"
     \/ pidfile = "stale" /\ pidfile' \in {"running", "foreign"} \cap PidFiles
  /\ UNCHANGED <<pc, options, sockVars, status>>

-----------------------------------------------------------------------------
(*                              The socket                                 *)

\* cfg_read and res_init
Configure(p) ==
  \/ /\ Step(p, "config", "socket")
     /\ UNCHANGED <<options, sockVars, pidfile, status>>
  \/ Faults \cap {"cfg_read", "res_init"} # {} /\ Fail(p, "config")

\* socket: the test is for 0, which is what it returns when stdin is closed;
\* when it fails with -1, bind is tried on that.
CreateSocket(p) ==
  \/ /\ Step(p, "socket", "bind")
     /\ UNCHANGED <<options, sockVars, pidfile, status>>
  \/ /\ "socket" \in Faults
     /\ Step(p, "socket", "bad")
     /\ UNCHANGED <<options, sockVars, pidfile, status>>
  \/ "stdin" \in Faults /\ Fail(p, "socket")

BindBadSocket(p) == Fail(p, "bad")

\* A path that exists cannot be bound to; a port can, unless somebody listens
\* on it, because of SO_REUSEADDR.
MayBind == IF family = "PF_UNIX" THEN path = None ELSE listening = {}

\* Mutated form of Bind: the path is removed first.
BindAfterUnlink(p) ==
  /\ Step(p, "bind", "listen")
  /\ bound' = bound \cup {p}
  /\ path' = IF family = "PF_UNIX" THEN p ELSE path
  /\ UNCHANGED <<family, options, listening, pidfile, status>>

Bind(p) ==
  /\ MayBind
  /\ Step(p, "bind", "listen")
  /\ bound' = bound \cup {p}
  /\ path' = IF family = "PF_UNIX" THEN p ELSE path
  /\ UNCHANGED <<family, options, listening, pidfile, status>>

\* bind fails, or getaddrinfo before it.
BindFails(p) ==
  /\ ~MayBind \/ (family = "PF_INET" /\ "getaddrinfo" \in Faults)
  /\ Fail(p, "bind")

\* Of two sockets bound to one port only one may listen.
MayListen == family = "PF_UNIX" \/ listening = {}

Listen(p) ==
  /\ MayListen
  /\ Step(p, "listen", IF foreground(p) THEN "serve" ELSE "fork")
  /\ listening' = listening \cup {p}
  /\ UNCHANGED <<family, options, bound, path, pidfile, status>>

\* Mutated form of ListenFails: the error is not looked at.
ListenFailsUnseen(p) ==
  /\ ~MayListen
  /\ Step(p, "listen", IF foreground(p) THEN "serve" ELSE "fork")
  /\ UNCHANGED <<options, sockVars, pidfile, status>>

ListenFails(p) == ~MayListen /\ Fail(p, "listen")

\* fork: the parent exits, the child goes on.
Fork(p) ==
  \/ /\ Step(p, "fork", "serve")
     /\ status' = [status EXCEPT ![p] = "success"]
     /\ UNCHANGED <<options, sockVars, pidfile>>
  \/ "fork" \in Faults /\ Fail(p, "fork")

\* server() returns, and main() to its end.
Shutdown(p) ==
  /\ Exit(p, "serve", "success")
  /\ UNCHANGED <<family, options, path, pidfile>>

\* SIGKILL at any moment, or SIGTERM before server() has its handlers.
Killed(p) ==
  /\ Alive(p)
  /\ Exit(p, pc[p], "killed")
  /\ UNCHANGED <<family, options, path, pidfile>>

-----------------------------------------------------------------------------
main(p) ==
  \/ ParseOptions(p)
  \/ StatPidfile(p) \/ ProbePid(p) \/ UnlinkPidfile(p)
  \/ Configure(p) \/ CreateSocket(p) \/ BindBadSocket(p)
  \/ Bind(p) \/ BindFails(p) \/ Listen(p) \/ ListenFails(p) \/ Fork(p)

Done == (\A p \in Launches : pc[p] = "ended") /\ UNCHANGED vars

Next ==
  \/ \E p \in Launches : Launch(p) \/ main(p) \/ Shutdown(p) \/ Killed(p)
  \/ PidChanges
  \/ Done

Spec == Init /\ [][Next]_vars

\* A launch that runs gets on; nobody has to launch, stop or kill one.
FairSpec == Spec /\ \A p \in Launches : WF_vars(main(p))

-----------------------------------------------------------------------------
(* However launches overlap, one daemon at the most listens at the         *)
(* address: where bind lets two through, listen does not.                  *)
OneListener == \A p, q \in listening : p = q

(* A launch that fails does not harm the daemon that runs: clients still   *)
(* reach it.                                                               *)
StaysReachable == family = "PF_UNIX" => \A p \in listening : path = p

(* When the start is reported as a success, there is a daemon listening.   *)
SuccessMeansListening ==
  [][\A p \in Launches : pc[p] = "fork" /\ status'[p] = "success" => p \in listening']_vars

-----------------------------------------------------------------------------
(*       What messages of the program say and does not hold                *)

Alone(p) == \A q \in Launches \ {p} : ~Alive(q)

(* A launch with no other around serves, unless it is killed: what earlier *)
(* ones have left behind does not stand in its way.  "Restarting"          *)
(* (etc/rblpolicyd.init.debian:87).                                        *)
RestartServes ==
  \A p \in Launches :
    pc[p] = "options" /\ Alone(p) ~> p \in listening \/ status[p] = "killed" \/ ~Alone(p)

=============================================================================
