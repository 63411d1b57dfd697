------------------------------- MODULE Reload -------------------------------
(***************************************************************************)
(* The list of RBLs while the daemon runs: read at the start, walked by    *)
(* the workers, exchanged by a reload, given back at the end.              *)
(*                                                                         *)
(* The reload is the APP_RELOAD branch of server() with thr_waitcomplete.  *)
(* No signal handler of the program sets APP_RELOAD yet, so the event that *)
(* does is external (action Hangup, enabled by Hangups).  A worker is seen *)
(* by its accesses to the items: worker_th walks the list, and comes back  *)
(* to every item of it once all solvers have answered.  Modules Pool and   *)
(* Lookup have the rest of both threads.                                   *)
(***************************************************************************)
EXTENDS CfgFile

CONSTANTS
  Workers,             \* the threads of the pool
  Rounds,              \* 400 in the code
  Dangling,            \* a pointer to what has been given back, whatever is there now
  Hangups              \* may the event that asks for a reload occur?

ASSUME RoundsAssumption == Rounds \in Nat \ {0}
ASSUME DanglingAssumption == Dangling \notin Pointers
ASSUME HangupsAssumption == Hangups \in BOOLEAN

VARIABLES
  mpc,                 \* where the main thread is, or "crashed"
  appstate,
  workermgr,           \* has wthread_create allocated it?
  err,                 \* rounds left in thr_waitcomplete
  wpc, rbl, resdata,   \* the workers: what they do, rbl, and the items still to be visited
  loaded,              \* history: the text that rblist was made of
  overtaken            \* history: the workers at work when a reload frees their list

mainVars   == <<mpc, appstate, workermgr, err>>
workerVars == <<wpc, rbl, resdata>>
history    == <<loaded, overtaken>>
vars == <<cfgVars, mainVars, workerVars, history>>

\* The memory and the list are well typed, weights are positive shorts.
TypeOK ==
  /\ CfgTypeOK
  /\ mpc \in {"startup", "loop", "accept", "wait", "reload", "swap", "teardown", "ended", "crashed"}
  /\ appstate \in {"RUN", "RELOAD", "EXIT"}
  /\ workermgr \in BOOLEAN
  /\ err \in 0..Rounds
  /\ wpc \in [Workers -> {"idle", "begin", "walk", "collect"}]
  /\ rbl \in [Workers -> Pointers \cup {Dangling}]
  /\ resdata \in [Workers -> Seq(Items \cup {Dangling})]
  /\ loaded \in Texts \cup {<<>>}
  /\ overtaken \in SUBSET Workers

Init ==
  /\ CfgInit
  /\ mpc = "startup" /\ appstate = "RUN" /\ workermgr = FALSE /\ err = 0
  /\ wpc = [w \in Workers |-> "idle"]
  /\ rbl = [w \in Workers |-> NULL]
  /\ resdata = [w \in Workers |-> <<>>]
  /\ loaded = <<>> /\ overtaken = {}

nthreads == Cardinality({w \in Workers : wpc[w] # "idle"})
Running  == mpc \notin {"ended", "crashed"}

-----------------------------------------------------------------------------
(*                             The main thread                             *)

\* The list that cfg_read returned becomes the one in use.
Use ==
  /\ rblist' = first
  /\ owner' = [a \in Items |-> IF owner[a] = "new" THEN "served" ELSE owner[a]]
  /\ loaded' = text
  /\ cfg_done

\* Starting cfg_free(&rblist).
FreeList ==
  /\ cfgpc' = "free"
  /\ item' = rblist
  /\ UNCHANGED <<readVars, heapVars, rblist>>

\* main(): without a list there is no daemon.
Started ==
  /\ mpc = "startup" /\ cfgpc = "returned"
  /\ \/ first # NULL /\ Use /\ mpc' = "loop"
     \/ first = NULL /\ mpc' = "ended" /\ UNCHANGED <<cfgVars, loaded>>
  /\ UNCHANGED <<appstate, workermgr, err, workerVars, overtaken>>

\* while (appstate != APP_EXIT ...): into accept, or out of server().
LoopTest ==
  /\ mpc = "loop"
  /\ \/ appstate # "EXIT" /\ mpc' = "accept" /\ UNCHANGED cfgVars
     \/ appstate = "EXIT" /\ mpc' = "teardown" /\ FreeList
  /\ UNCHANGED <<appstate, workermgr, err, workerVars, history>>

\* accept fails, interrupted by a handler or not.
AcceptFails ==
  /\ mpc = "accept"
  /\ \/ appstate = "RUN" /\ mpc' = "loop" /\ UNCHANGED cfgVars
     \/ mpc' = "teardown" /\ FreeList
  /\ UNCHANGED <<appstate, workermgr, err, workerVars, history>>

\* A connection for a worker; with the pool full it is refused and closed.
AcceptRequest ==
  /\ mpc = "accept" /\ appstate = "RUN"
  /\ mpc' = "loop"
  /\ workermgr' = TRUE
  /\ \/ \E w \in Workers : wpc[w] = "idle" /\ wpc' = [wpc EXCEPT ![w] = "begin"]
     \/ (\A w \in Workers : wpc[w] # "idle") /\ wpc' = wpc
  /\ UNCHANGED <<cfgVars, appstate, err, rbl, resdata, history>>

\* A connection when the state is another one: it is not looked at.
AcceptOther ==
  /\ mpc = "accept" /\ appstate # "RUN"
  /\ \/ appstate = "EXIT" /\ mpc' = "loop" /\ err' = err
     \/ appstate = "RELOAD" /\ mpc' = "wait" /\ err' = Rounds
  /\ UNCHANGED <<cfgVars, appstate, workermgr, workerVars, history>>

\* thr_waitcomplete before any worker was created: exit(255).
WaitWithoutMgr ==
  /\ mpc = "wait" /\ ~workermgr
  /\ mpc' = "ended"
  /\ UNCHANGED <<cfgVars, appstate, workermgr, err, workerVars, history>>

\* Mutated form of WaitRound: the rounds are not counted.
WaitRoundUncounted ==
  /\ mpc = "wait" /\ workermgr
  /\ err > 0 /\ nthreads > 0 /\ appstate # "EXIT"
  /\ UNCHANGED vars

\* One round: nanosleep.
WaitRound ==
  /\ mpc = "wait" /\ workermgr
  /\ err > 0 /\ nthreads > 0 /\ appstate # "EXIT"
  /\ err' = err - 1
  /\ UNCHANGED <<cfgVars, mpc, appstate, workermgr, workerVars, history>>

\* What is left of the rounds is returned: only when none is left the file is
\* read again.
WaitEnd ==
  /\ mpc = "wait" /\ workermgr
  /\ ~(err > 0 /\ nthreads > 0 /\ appstate # "EXIT")
  /\ \/ err # 0 /\ mpc' = "loop" /\ appstate' = "RUN" /\ UNCHANGED cfgVars
     \/ /\ err = 0 /\ mpc' = "reload" /\ cfgpc' = "open"
        /\ UNCHANGED <<readVars, item, heapVars, rblist, appstate>>
  /\ err' = 0
  /\ UNCHANGED <<workermgr, workerVars, history>>

\* newlist is NULL, and the old list stays; or it goes, item by item.
NewList ==
  /\ mpc = "reload" /\ cfgpc = "returned"
  /\ \/ /\ first = NULL
        /\ mpc' = "loop" /\ appstate' = "RUN" /\ cfg_done
        /\ UNCHANGED <<owner, rblist, overtaken>>
     \/ /\ first # NULL
        /\ mpc' = "swap" /\ overtaken' = {w \in Workers : wpc[w] \in {"walk", "collect"}}
        /\ FreeList /\ UNCHANGED appstate
  /\ UNCHANGED <<workermgr, err, workerVars, loaded>>

\* rblist = newlist.
Swap ==
  /\ mpc = "swap" /\ cfgpc = "returned"
  /\ Use
  /\ mpc' = "loop" /\ appstate' = "RUN"
  /\ UNCHANGED <<workermgr, err, workerVars, overtaken>>

\* The end of main().
Return ==
  /\ mpc = "teardown" /\ cfgpc = "returned"
  /\ mpc' = "ended"
  /\ UNCHANGED <<cfgVars, appstate, workermgr, err, workerVars, history>>

\* cfg_read and cfg_free run in the main thread, and leave the pointers of
\* others to an item that goes dangling.
Configure ==
  /\ Running
  /\ \/ (cfg_read \/ FreeEnd) /\ UNCHANGED workerVars
     \/ /\ FreeItem
        /\ rbl' = [w \in Workers |-> IF rbl[w] = item THEN Dangling ELSE rbl[w]]
        /\ resdata' = [w \in Workers |-> ReplaceAll(resdata[w], item, Dangling)]
        /\ wpc' = wpc
  /\ UNCHANGED <<mainVars, history>>

-----------------------------------------------------------------------------
(*                                 Signals                                 *)

Serving == mpc \in {"loop", "accept", "wait", "reload", "swap"}

sigterm ==
  /\ Serving
  /\ appstate' = "EXIT"
  /\ UNCHANGED <<cfgVars, mpc, workermgr, err, workerVars, history>>

Hangup ==
  /\ Hangups
  /\ Serving /\ appstate = "RUN"
  /\ appstate' = "RELOAD"
  /\ UNCHANGED <<cfgVars, mpc, workermgr, err, workerVars, history>>

-----------------------------------------------------------------------------
(*                               The workers                               *)

\* A worker runs as long as the process does.
Transition(w, from, to) ==
  /\ Running
  /\ wpc[w] = from
  /\ wpc' = [wpc EXCEPT ![w] = to]

\* The request is of no use, and the list is not looked at.
BadRequest(w) ==
  /\ Transition(w, "begin", "idle")
  /\ UNCHANGED <<cfgVars, mainVars, rbl, resdata, history>>

\* rbl = rblist
Begin(w) ==
  /\ Transition(w, "begin", "walk")
  /\ rbl' = [rbl EXCEPT ![w] = IF rblist \in Items \ Live THEN Dangling ELSE rblist]
  /\ overtaken' = IF mpc = "swap" THEN overtaken \cup {w} ELSE overtaken \ {w}
  /\ UNCHANGED <<cfgVars, mainVars, resdata, loaded>>

\* A solver for the item, and on to the next one.
Walk(w) ==
  /\ Transition(w, "walk", "walk")
  /\ rbl[w] \in Items
  /\ resdata' = [resdata EXCEPT ![w] = Append(@, rbl[w])]
  /\ rbl' = [rbl EXCEPT ![w] = next[rbl[w]]]
  /\ UNCHANGED <<cfgVars, mainVars, history>>

WalkEnd(w) ==
  /\ Transition(w, "walk", "collect")
  /\ rbl[w] = NULL
  /\ UNCHANGED <<cfgVars, mainVars, rbl, resdata, history>>

\* resdata[i]->rblitem: its counters, its name.
Collect(w) ==
  /\ Transition(w, "collect", "collect")
  /\ resdata[w] # <<>> /\ Head(resdata[w]) # Dangling
  /\ resdata' = [resdata EXCEPT ![w] = Tail(@)]
  /\ UNCHANGED <<cfgVars, mainVars, rbl, history>>

\* The reply, and wthread_exit.
WorkerDone(w) ==
  /\ Transition(w, "collect", "idle")
  /\ resdata[w] = <<>>
  /\ overtaken' = overtaken \ {w}
  /\ UNCHANGED <<cfgVars, mainVars, rbl, resdata, loaded>>

\* An item that has been given back is used.
Stale(w) ==
  \/ wpc[w] = "walk" /\ rbl[w] = Dangling
  \/ wpc[w] = "collect" /\ resdata[w] # <<>> /\ Head(resdata[w]) = Dangling

WorkerCrash(w) ==
  /\ Running
  /\ Stale(w)
  /\ mpc' = "crashed"
  /\ UNCHANGED <<cfgVars, appstate, workermgr, err, workerVars, history>>

worker_th(w) ==
  \/ BadRequest(w) \/ Begin(w) \/ Walk(w) \/ WalkEnd(w) \/ Collect(w) \/ WorkerDone(w)
  \/ WorkerCrash(w)

-----------------------------------------------------------------------------
thr_waitcomplete == WaitWithoutMgr \/ WaitRound \/ WaitEnd

Main ==
  \/ Started \/ LoopTest \/ AcceptFails \/ AcceptRequest \/ AcceptOther \/ thr_waitcomplete
  \/ NewList \/ Swap \/ Return \/ Configure

Done == ~Running /\ UNCHANGED vars

Next == Main \/ sigterm \/ Hangup \/ (\E w \in Workers : worker_th(w)) \/ Done

Spec == Init /\ [][Next]_vars

\* The main thread runs; accept may wait for ever, signals need not come, and
\* nothing is assumed of the workers, which wait for the network.
FairSpec ==
  /\ Spec
  /\ WF_vars(Started \/ LoopTest \/ thr_waitcomplete \/ NewList \/ Swap \/ Return \/ Configure)

-----------------------------------------------------------------------------
(*                                Properties                               *)

\* The items of the list that starts at p.
Chain(p) ==
  LET items[n \in 0..Cardinality(Items)] ==
        IF n = 0 THEN <<>>
        ELSE LET s == items[n - 1]
                 a == IF s = <<>> THEN p ELSE next[s[Len(s)]]
             IN IF a = NULL THEN s ELSE Append(s, a)
  IN items[Cardinality(Items)]

\* Its items as a set: what a walk from p cannot avoid.
ChainSet(p) ==
  {a \in Items : \A S \in SUBSET Items :
     /\ p \in S \cup {NULL}
     /\ \A b \in S : next[b] \in S \cup {NULL}
     => a \in S}

\* What a text says: lines between line feeds, each a name and a weight before
\* an optional comment, with white space around them.
LineStarts(t) == {k \in 1..Len(t) : k = 1 \/ t[k - 1] = "\n"}
LineOf(t, k)  == Before(From(t, k), Find(From(t, k), {"\n"}))
Content(l)    == Before(l, Find(l, {"#"}))
Words(l) ==
  {b \in (1..Len(l)) \X (1..Len(l)) :
     /\ b[1] <= b[2] /\ \A k \in b[1]..b[2] : ~isspace(l[k])
     /\ b[1] = 1 \/ isspace(l[b[1] - 1])
     /\ b[2] = Len(l) \/ isspace(l[b[2] + 1])}
TwoWords(l) ==
  {b \in Words(l) \X Words(l) : b[1][2] < b[2][1] /\ Words(l) = {b[1], b[2]}}
Cut(l, b)   == SubSeq(l, b[1], b[2])

IsEntry(l) == \E b \in TwoWords(l) : Weight(Cut(l, b[2])) # 0
Entry(l)   == LET b == CHOOSE b \in TwoWords(l) : TRUE IN <<Cut(l, b[1]), Weight(Cut(l, b[2]))>>

Contents(t) == [k \in LineStarts(t) |-> Content(LineOf(t, k))]
IsRight(t)  == \A l \in Range(Contents(t)) : Words(l) = {} \/ IsEntry(l)

\* The entries of the lines that begin in the first k characters.
EntriesTo(t) ==
  LET lines == Contents(t)
      entries[k \in 0..Len(t)] ==
        IF k = 0 THEN <<>>
        ELSE IF k \in LineStarts(t) /\ IsEntry(lines[k])
             THEN Append(entries[k - 1], Entry(lines[k])) ELSE entries[k - 1]
  IN entries
Entries(t)   == IF IsRight(t) THEN EntriesTo(t)[Len(t)] ELSE <<>>

\* No line is longer than the buffer.
Fits(t) == \A k \in LineStarts(t) : Len(LineOf(t, k)) <= MAXLINE - 2

Fitting == {t \in Texts \cup {<<>>} : Fits(t)}
Meaning == [t \in Texts \cup {<<>>} |-> Entries(t)]

Served(p) ==
  LET chain == Chain(p) IN
  [i \in 1..Len(chain) |-> <<rbldomain[chain[i]], weight[chain[i]]>>]

(* cfg_read finds in a file what is written there, in its order: one line  *)
(* that is wrong makes it refuse the file, comments, empty lines, white    *)
(* space and a last line without an end do not.  A file that is right is   *)
(* refused only when memory runs out.                                      *)
ReadsAsWritten ==
  (cfgpc = "returned" /\ mpc \in {"startup", "reload"} /\ text \in Fitting) =>
    LET others == {a \in Live : owner[a] # "new"} IN
    Served(first) = IF Cardinality(others) + Len(Meaning[text]) <= Cardinality(Items)
                    THEN Meaning[text] ELSE <<>>

(* As long as the daemon serves, its list is that of the last file it      *)
(* could read, whatever refused files and reloads came after it.           *)
ListIsFile ==
  mpc \in {"loop", "accept", "wait", "reload"} =>
    /\ rblist # NULL /\ ChainSet(rblist) \subseteq Live
    /\ loaded \in Fitting => Served(rblist) = Meaning[loaded]

\* The heads of the chains that hold what is in use and what is being read.
ServedHead == IF cfgpc = "free" THEN item ELSE rblist
NewHead ==
  IF cfgpc = "cleanup" THEN item
  ELSE IF \/ mpc = "swap"
          \/ mpc \in {"startup", "reload"} /\ cfgpc \in {"read", "parse", "returned"}
       THEN first ELSE NULL

Owned(o) == {a \in Items : owner[a] = o}

(* No item is forgotten, but for the one whose weight was wrong: all that  *)
(* is allocated is in the list in use, in the one being read, or in what   *)
(* cfg_free has still to give back.                                        *)
NothingElseLost ==
  Running => Owned("served") = ChainSet(ServedHead) /\ Owned("new") = ChainSet(NewHead)

(* A worker uses an item after it was given back only when the daemon ends *)
(* or when a reload overtakes it: refused reloads do not touch the items   *)
(* it works with, and one that begins after an exchange is safe.           *)
ReadersSafe ==
  \A w \in Workers : Stale(w) => w \in overtaken \/ mpc \in {"teardown", "ended", "crashed"}

(* cfg_free gives back items only once, and only of the list it is for.    *)
FreesItsOwn ==
  (cfgpc \in {"cleanup", "free"} /\ item # NULL) =>
    owner[item] = IF cfgpc = "cleanup" THEN "new" ELSE "served"

(* Reading, reloading and the end come to an end: a reload is given up     *)
(* while workers stay, and every list that is freed has an end.            *)
MainMovesOn ==
  mpc \in {"startup", "wait", "reload", "swap", "teardown"} ~> (mpc = "loop" \/ ~Running)
=============================================================================
