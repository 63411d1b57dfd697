# rblpolicyd in TLA+

`rblpolicyd` is a Postfix policy daemon. A client connects, sends one request
with a `client_address=` line, and gets `action=DUNNO` or
`action=REJECT Blocked through <RBLs>`. The daemon looks the address up in every
configured DNS blacklist (RBL) and rejects when the weights of the lists that
know the address add up to 100 or more. It is a C program of some 1,800 lines of
its own, on POSIX threads: one worker thread per connection, one solver thread
per RBL and request.

This directory models its core: the thread manager, the worker pool with the
accept loop and the signals around it, the fork and join of the solvers inside a
worker, the reading of a request and its sequential handler, the configuration
file, its list and the reload, the statistics that workers and a signal handler
share, the command line, and the start of the daemon. TLC checks it on small instances;
TLAPS proves nearly all of the safety part for all sizes, two refinements among it.

## 1. Inventory

### Components, state and operations

| Component | Source | State | Operations |
|---|---|---|---|
| Thread manager | `thrmgr.c` | `thrmgr_t`: `lock`, `nthreads`, `tlist` (doubly linked `thrd_t` nodes). Two instances, `workermgr` and `solvermgr` | `thr_register`, `thr_unregister` |
| Worker pool | `thrmgr.c` | `workermgr`, `maxthreads` | `wthread_create` (waits for room, starts, registers), `wthread_exit`, `thr_waitcomplete` |
| Solver threads | `thrmgr.c` | `solvermgr` (no limit) | `rthread_create`, `rthread_exit` |
| Accept loop | `server.c` | the listening socket, `appstate` | `server()`: accept, hand over, refuse; `APP_RELOAD` branch |
| Signals | `server.c` | `appstate` | `sigterm` (TERM, INT), `sigstatus` (USR1) |
| Worker | `worker.c` | on its stack: `resolvers`, `resolvers_`, `res_ready_cond`, `resdata[]`, `score`, `reply` | `worker_th`: read, fork solvers, join, collect, reply, close |
| Solver | `worker.c` | its `resdata_t`, which points to the worker's stack | `solver_th`: resolve, count down, broadcast |
| Request reader | `worker.c` | a growing buffer | `read_request`, `parse_request` |
| Sequential handler | `server.c` | a request, a reply buffer | `process_request`, with a `read_request` and a `parse_request` of its own: called by nobody |
| Configuration | `cfgfile.c` | `rblist`: domain, weight, `questions`, `positive` | `cfg_read`, `cfg_free`, `cfg_dump` |
| Statistics | `stats.c` | counters, two ring buffers of 16 durations | `stats_*_thr`, `stats_*_time`, `stats_log`, `stats_request` (called by nobody) |
| Startup | `rblpolicyd.c` | options, socket, `appstate` | `main`, `usage` |
| Pid file | `pidfile.c` | a file | `pid_check`, `pid_get`, `pid_write` (called by nobody) |
| Allocation wrappers | `xmalloc.c` | – | abort when memory runs out |
| Option scanner | `getopt.c`, `getopt1.c` (vendored; on glibc lines 53–60 leave the file out, and the C library's own, of the same origin, is used) | `optind`, `nextchar`, the range of skipped words, `argv` itself | `getopt_long`, `exchange` |
| Other vendored code | `snprintf.c`, `system.h`, autoconf | – | not modelled |

### How they interact

* `main` reads the configuration, opens the socket and calls `server`. When that
  returns, `main` frees the configuration and returns, which ends all threads.
* `server` calls `wthread_create` for each connection, **on the main thread**,
  and closes the connection itself when that fails. With `-m 0` it calls
  `worker_th` as a function.
* A worker owns its connection. It takes `resolvers_` (a mutex on its own stack),
  and while it holds it `solvermgr->lock` inside `rthread_create`. A solver takes
  `resolvers_`, then, having released it, `solvermgr->lock`.
* A thread starts inside `pthread_create`, before it is registered. The creator
  holds the manager's lock from before `pthread_create` until after
  `thr_register`; an ending thread needs the same lock to unregister.
* Signals set `appstate`, which is read without a lock by the accept loop and by
  the wait loop of `wthread_create`. No thread blocks them, so any may get them;
  all other signals, SIGPIPE among them, are blocked in every thread.
* `worker_th` walks `rblist` and comes back to its items when the solvers have
  answered. A reload would free the list and put another in its place.
* `main` drives `getopt_long`, which moves the words of `argv` while it scans them.

### What is hard, and what makes each part correct

* *Thread manager*: interleaved registration and removal at the head, the middle
  and the end of the list; a thread that ends before it is registered; a failing
  `malloc` after the counter was raised; the loop that walks the list after the
  unlock. Correct when the list stays well formed, the counter agrees with it,
  and every thread finds its node.
* *Worker pool*: the limit must hold when the check and the start are apart; the
  wait for room holds the very lock that makes room; a worker whose solver was not
  started waits for it for ever. Correct when the limit is kept, a connection is
  closed exactly once, and one that goes wrong keeps no other one open.
* *Accept loop and signals*: a signal at any moment, on any thread; shutdown with
  workers at work. Correct when shutdown ends the process (it may not while `accept()` waits), and nothing is freed under a worker (it is: `ReadersSafe`).
* *Fork and join*: a counter, a mutex and a condition variable on a stack frame
  that must outlive the solvers; broadcasts before the wait, wakeups without a
  broadcast; solvers that never start or die. Correct when the verdict rests on
  every RBL's answer, nothing dangles, no wakeup is lost and the reply comes.
* *Request reader*: split reads, timeout, interrupted `select`, buffer growth.
  Correct when it stops at the end of the request and no earlier, the zero always
  fits, and a cut request never gives a cut address.
* *Statistics*: a ring that is initialised by a test outside its mutex and read
  without it in a signal handler. Correct when the ring holds the newest samples,
  and the average is one; the reader must not divide by zero (it may: `stats_div`).
* *Startup*: launches that overlap or are killed anywhere; a socket path and a pid
  file that outlive the process. Correct when one daemon listens, a failed launch
  does no harm, and a reported success is one.
* *Configuration*: error paths that leave things half done; lines longer than the
  buffer; a list given back item by item. Correct when the list is what the file
  says, a file that is refused changes nothing, and no item is lost or freed twice.
* *Reload*: it frees what workers read. Correct when a worker never meets a freed
  item (which it is not), and the main thread gets back to its clients.
* *Sequential handler*: it stops asking early, and builds its reply as it goes.
  Correct when the verdict is the one that asking all RBLs would give.
* *Option scanner*: words are moved again and again under the scan. Correct when
  the outcome is that of reading them from left to right.

Every hazard is listed with its line in `PROJECT.json`.

## 2. The modules

| Module | What it is |
|---|---|
| `ThrMgr` | The manager: `thr_register`, the steps of `thr_unregister`, and what an intact list is. Extended by the next two. |
| `Pool` | `server()`, `wthread_create`, `wthread_exit`, `workermgr`, signals, the end of `main()` |
| `Lookup` | One request: `worker_th`, `rthread_create`, `solver_th`, `rthread_exit`, `solvermgr` |
| `PolicyRequest` | The abstract promise of a request: all RBLs answer, then one reply with the right verdict |
| `Sums` | What a sequence of weights adds up to, and names in the order of the configuration: used where a verdict is specified |
| `ReadRequest` | `read_request` and `parse_request` of `worker.c`, against a client that sends in pieces |
| `ProcessRequest` | `process_request` of `server.c`: `ReadRequest`, then the lookup, the reply and the writes in one thread |
| `CfgFile` | `cfg_read` and `cfg_free` of `cfgfile.c`, over a small memory |
| `Reload` | The main thread and the workers around `CfgFile`: the start, the APP_RELOAD branch, `thr_waitcomplete`, the end |
| `Getopt` | `getopt_long` of `getopt.c` and the loop of `main()` around it |
| `Stats` | `stats_worker_time` and `ring_average` of `stats.c` |
| `SampleWindow` | The abstract promise of a statistics ring: the newest samples, in order |
| `Startup` | `main()` up to `server()`, `pid_check`, several launches of the daemon |
| `MCPool`, `MCLookup`, `MCProcessRequest`, `MCReload`, `MCGetopt`, `MCStats`, `MCStartup` | Instances for TLC |
| `ThrMgrProofs`, `PoolProofs`, `LookupProofs`, `ReadRequestProofs` (with `ProcessRequest`), `ReloadProofs`, `GetoptProofs`, `StatsProofs`, `StartupProofs` | The proofs |

### ThrMgr

Threads are numbered in the order of creation, and a thread's list node has the
thread's number; `next`, `last`, `tlist`, `nthreads` are the fields of the C
structures, `nodes` the set of nodes that are allocated. A freed node keeps its
links, as freed memory does until it is reused. `lock` names the holder.

`thr_register` is one step, because its callers hold the lock. `thr_unregister`
is five kinds of steps: taking the lock, unlinking and unlocking (or "Thread not
found"), and the counting loop of lines 123–125, which reads the list one node
per step **after** the unlock. Its read of a freed node may give the old link or
end the process (`WalkCrash` in `Pool` and `Lookup`). The search loop runs under
the lock; it is the predicate `InList`, reachability from `tlist` along `next`.

### Pool

`spc` is where the main thread is: in the accept loop (`loop`, `call`, `accept`,
`eintr`, `switch`), in `wthread_create` (`lock`, `wait`, `spawn`, `register`,
`stats`), refusing a connection, running a worker inline, or on its way out.
`inline_hang` is the main thread in the join of `worker_th`, with `-m 0`.
`call` stands between the test of `appstate` and the moment `accept()` blocks: a
signal there does not interrupt anything. `pc[t]` is where worker `t` is; `run`
is all its work until the reply, which `Lookup` models, and it need not end: when a
solver cannot be started or registered (`SolverLost`) the worker may stay in its join
(`hang`), its connection open and its place taken. Connection number `k`
goes to worker `k`. Every failure path is an action: `SpawnFails`,
`RegisterFailure` (the counter stays raised, the thread is cancelled, the
connection closed by callee *and* caller), `AcceptError`. Where the code uses the
result of `malloc` without a look at it the process ends (`LockMgrFails`,
`WorkerCrash`, `InlineCrash`). `CONSTANT Faults` says which calls fail in a run, for
the main thread, the workers and the solvers alike.

`SIGTERM` can be handled by the main thread (interrupting `accept`) or by any
live worker (not interrupting it). `SIGUSR1` only interrupts `accept`.

### Lookup

`wpc` is where the worker is in `worker_th`; solver `i` looks up RBL `i` of the
configuration, in `resdata[i]`. `resolvers_`, `resolvers` and `res_ready` are the
objects on the worker's stack. `JoinWait` releases the mutex and starts the wait
in one step; `Broadcast` and `SpuriousWakeup` end the wait, and `Relock` gets the
mutex back and tests the counter again. Faults: `pthread_create` fails (its
result is ignored by the code) and `malloc` fails in `thr_register` (the
solver is cancelled, and may die before it has counted itself down). The `malloc` of
`solvermgr` itself (`thrmgr.c:238`), whose result is not looked at, does not fail here;
in `Pool` it ends the process.

DNS is outside: an RBL lists the client or does not, and a query that fails does
not. Whether the request can be used at all is a free choice in `ReadRequest`.

### PolicyRequest

Three steps: the request is read (or is unusable), every RBL answers once, the
reply is given. `Lookup!Policy` maps `Lookup` to it: an RBL has answered when
its solver is past the resolver call, the reply is `sent`.

### ReadRequest

A request is a sequence of symbols: the two line characters, the text
`client_address=`, the symbols of an address, anything else. The client sends any
number of them at a time, stops, or closes. `rpc` is where the worker is:
`select`, `read`, `parse` or `done`. The buffer holds the first `bread` symbols
of the request, so it is the operator `buf` and not a variable. `tv`, which
Linux's `select` decrements, is the flag `expired`. The comparison of the last
four bytes starts before the buffer when there are fewer: `MayEndRequest` says
when what happens to lie there could complete an ending, and `ReadSome` leaves
the outcome open.

### ProcessRequest

`server.c` has a `read_request` and a `parse_request` that are those of `worker.c`
word for word, so the module extends `ReadRequest`; the reader's steps leave the
handler's variables alone and the handler's leave the reader's. `ppc` is where
`process_request` is. `asked` records every query with its answer, `told` what has
been written. A symbol of an address is a number with its dot, and `Octets` of them
make an address. `gethostbyname` may return nothing, another family, or any list of
addresses of which one begins with 127. `NameRoom` is what the reply buffer grows
by. The results of `write` are not looked at, and SIGPIPE is blocked, so a client
that is gone changes nothing.

### CfgFile and Reload

A text is a sequence of characters, here really one by one, because what counts as
a line, a word and a weight is the point. `Line(t, p)` is what one turn of the loop
of `cfg_read` makes of text `t` from place `p` on: `fgets` with its limit,
`cfg_cleanline`, the first word, the rest, `strtol` (decimal, octal and hexadecimal;
a vertical tab, for which TLA+ has no character, is the symbol `VT`). `Items` are
places in memory; `owner` says what each belongs to: `new` (in the list being
read), `served` (in the list in use), `leaked` (an item that was allocated and then
refused), `free`. `cfg_free` gives back one item per step.

In `Reload`, `mpc` is where the main thread is and `cfgpc` where `cfg_read` or
`cfg_free` is when it is in one. A worker is its accesses to the list: it takes
`rblist`, walks along `next` (one solver each), and comes back to all items in
`resdata`. A pointer to an item that is given back becomes `Dangling` in the same
step, so its use (`WorkerCrash`) can be told from the use of a new item at the same
place. `overtaken` are the workers that had the list in hand when a reload began to
free it, or took it while it was being freed.

Nothing in the program assigns `APP_RELOAD` (the ChangeLog calls the reload
"implemented but not active yet"). The event that would is external: `Hangup`. What
the model then shows of `thr_waitcomplete`: it returns the rounds that are left, and
the caller takes 0 for success, so an idle daemon refuses to reload, and the reload
goes ahead only when all rounds have seen workers. That is why `ReadersSafe` has to
name the workers that are overtaken. `appstate = APP_RUN` at the end of the branch
also overwrites the `APP_EXIT` of a SIGTERM that came meanwhile, and the connection
that `accept` returned is not closed; both can be read off `WaitEnd` and `Swap`.

### Getopt

A word is a sequence of symbols: characters, names, numerals. `argv` holds which
word is at which place now; `args`, the words as they were given, never changes.
`pc` is where `_getopt_internal` or `main` is. `exchange` is a step per turn of its
loop. The ordering is `PERMUTE`, or `REQUIRE_ORDER` with `POSIXLY_CORRECT`.
`Meaning` is the reference: the options and operands of the words read from left to
right, each where it stands, as a recursive function that knows of no exchange;
`Obeys` compares what `main` ends with. It takes the table of long options as its
argument: `long_options` is the one `main` gives to `getopt_long`,
`documented_options` the one `usage()` prints. `WordsObeyed` is about the scan, with
the first table, and silent about command lines that have an option of the second
(`UsesDocumented`): the program refuses those (section 3).

### Stats

`stats.c` has two rings, of the workers' times and of the solvers', with the same code
for both; `stats_log` averages one and then the other. `Stats` is either of them.
`Workers` are those who record, each once, and `parallel` is how many of them may
be in the call at a time: `-m` for workers, any number for solvers. `pc` is where one
is, a step for each access to the ring or to `init`. The handler of `SIGUSR1` reads the ring without
the mutex (`logpc`). Whether the build reads `r->count` anew at each use is left
open (`rereads`). `sum` is unsigned and 64 bits wide and the result is an `int`:
`SumMod` and `IntMod`. Durations come from pairs of `struct timeval` and are
computed as the code does, `tv_usec / 1000 + tv_sec`. `clears` counts the `memset`s:
what the second one destroys is outside `SamplesKept` and `AverageWithin`, inside
`ClearsBounded`, and what `stats_div` shows.

`Stats!Ring` maps the ring to `SampleWindow`: the window is the last `count`
values before `index`, a sample being in it from the moment its value is stored.

### Startup

`pc[p]` is where launch `p` is in `main()`; after the fork it is the child, while
`status[p]` is what the parent returned. `bound`, `listening` and `path` are what
the kernel keeps: a path that exists cannot be bound to, a port can be bound to
by several (`SO_REUSEADDR`) until one of them listens. `pid_check` is three steps
(`stat`; `pid_get` and `kill`; `unlink`), and outside (`PidChanges`) the process
that the pid file names may end, or its number be used again. `pid_write` is
called by nobody, so the pid file is whatever was left there.

What the command line says is here only as far as it decides how a launch ends
(`Known`); `Getopt` has it in full. One thing the code does that no run asks about:
`kill` failing with `EPERM` makes the pid file of another user's live process "stale"
(`ProbePid`).

## 3. Runs

| Run | Shows |
|---|---|
| `pool` | `Pool` with every fault, signals at any moment, `-m` 0, 1 and 2. The pool keeps its limit, the counter agrees (failed registrations counted in), every worker that was registered finds its node, the peak in the statistics stays within the pool, and no connection but one whose registration failed is closed twice. Every connection is closed and its worker leaves, unless that worker itself waits for a lost solver, the process has ended, the main thread hangs in `worker_th` (`-m 0`), or a cancelled thread died in `syslog` with the lock: a worker that hangs keeps no other connection open. A SIGTERM that is not handled between the test of `appstate` and the return of `accept()` ends the process, but for the last two cases |
| `lookup` | `Lookup` with every fault, three RBLs of weights 60, 40, 59: nothing dangles, no wakeup is lost, the list of the solvers, three at a time, stays intact, and `PolicyRequest` is implemented: the verdict rests on every answer. When every solver was started and registered, the request is answered and the solvers leave |
| `request` | Ten requests, well formed, unfinished and odd, in every split, with timeout, signal, reset and failing allocation, handled in one thread: the zero fits, a well formed request is read to its end and no further, the RBLs are asked about the whole address of the client and about nothing else, in order and no more than needed, the reply fits its buffer exactly, the verdict is that of the policy, and the request is answered whatever the client does |
| `reload` | Nine files (with octal and hexadecimal weights, comments, the line ends of another system, every kind of refused line), read at the start and read again whenever a reload is asked for, while two workers walk the list: what is read is what is written, a refused file changes nothing, no item but one of a bad weight is lost, none is freed twice, and only an overtaken worker or the end of the daemon meets a freed item |
| `getopt` | All command lines of up to three words out of fourteen, and of up to six out of three, in both orderings: `main` ends with the settings, the port and the outcome that the words mean by its own table (those with `--debug` apart); each `exchange` is a rotation; the order of options and operands is kept. `WordsObeyed` says this of the end, and that the scan comes to one |
| `stats_ring` | One, two or three threads recording at once, `SIGUSR1` at any moment: the ring is a window over the newest samples and is cleared at most once per thread in the call; until it is cleared a second time it has every sample, up to its size, and the average lies between zero and the longest |
| `startup` | Three launches, overlapping, failing or killed anywhere, over a path or a port, with any pid file: one listens, it stays reachable, and a success is reported only when it listens |

Some invariants are theorems (section 4) without being properties of a run, because
a run's property already implies them or rests on them: `OnlyHolderWrites` of `Pool`,
`WaitIsFutile`, which is the finding of `pool_wait` for every pool, and `ListIntact`, which
`lookup` checks of the other manager;
the manager's invariants, `AllAnswersIn`, `ResolversCounted` and `PeakCounted` of
`Lookup` (all of them parts of the invariant behind `NoDanglingAccess` and
`ImplementsPolicyRequest`); `AddressIsWhole`, a conjunct of `AsksForClient`, and the
reader's `TypeOK`, a conjunct of `HandleTypeOK`; `FreesItsOwn` of `Reload`, which
`NothingElseLost` implies; the `TypeOK` of `Lookup` and of
`Startup`.

Five runs show where the program differs from what its own text says. Each checks
one property and TLC finds it violated:

| Run | The text | What happens |
|---|---|---|
| `pool_walk` | "the manager struct has to be protected by the caller!" (`thrmgr.c:69`) | The counting loop reads a node another worker has freed |
| `lookup_hang` | "Wait for the resolver threads to finish. Each resolver signals us" (`worker.c:232`) | A solver that never started is waited for, for ever |
| `pool_wait` | "Try 20 times (2 seconds) until a thread becomes available" (`thrmgr.c:183`) | The loop sleeps with the lock that a leaving worker needs, so none becomes available (and a round is 0.1 ms, not 0.1 s) |
| `stats_div` | "if (!r \|\| !r->count)" (`stats.c:175`) | The second of two threads in the first call clears the ring when `ring_average` has tested the count: it divides by zero. `-m 1` does not exclude it, because the solvers' ring is averaged too |
| `startup_restart` | "Restarting $DESC: $NAME" (`etc/rblpolicyd.init.debian:87`) | The path of the UNIX socket outlives the daemon and the next start cannot bind it. (With a port the same property holds) |

The models have more of these, without a run of their own:

| The text | What happens | Where |
|---|---|---|
| "0=disable threads" (`rblpolicyd.c:382`) | `wthread_exit` finds no manager and calls `exit(255)` after the first request | `Pool!InlineExit` |
| "Could not create new worker thread; closing request" (`server.c:190`) | When the registration failed `wthread_create` has closed the connection already; `server` closes the descriptor once more. `ClosedOnce` exempts these connections | `Pool!RegisterFailure`, `Refuse` |
| "Received signal %d - shutting down" (`server.c:59`) | A signal that comes before `accept()` blocks, or on a worker while it does, is not seen before the next client | `Pool!SigTermOnWorker`, what `ShutdownUnlessAccepting` leaves out |
| "%d parallel" (`stats.c:214`) | The counter is read after the unlock: when the worker has left by then it is not in the peak | `Pool!CountWorker` |
| "%d ms avg" (`stats.c:214`) | A second counts as one millisecond: the average is below every request, or that of negative numbers | `Stats!l_time` |
| "-d, --debug  show debug output" (`rblpolicyd.c:380`) | The names in the table begin with the dashes that `getopt_long` has passed over: no long option of the usage text is accepted (the only spelling that matches has four dashes), and `--maxthreads` is called `--max-children` | `Getopt!LongOption`, what `WordsObeyed` leaves out |
| – | `main` frees the configuration while workers read it | what `ReadersSafe` exempts; `Pool!WorkerCrash` |

### Bounds

* `MaxTid = 3`: three connections (or RBLs). Three is the smallest number for
  which a node can be unlinked from the middle of the list, for which two workers
  leave while a third is being created, and for which a pool of two is full.
* `MaxTries = 2` for the 20 rounds of the wait: one that finds the pool full and
  one that gives up.
* `-m` in {0, 1, 2}: inline, a pool filled by one, a pool with several workers. A list of
  three, with a node in the middle to unlink, is in `lookup`.
* `request`: `CHUNK` is 4, so that requests of up to 11 symbols make the
  buffer grow, fill exactly, and be one short; requests end on either line end,
  are unfinished in mid-line, and begin with an empty line. An address has two
  numbers, and comes with three, two, one and none; the RBLs have the weights below.
* `reload`: three items in memory, so that two lists of one or two compete for it
  and `calloc` fails; two workers, so that one is overtaken and one begins later;
  one round of the wait; `MAXLINE` is 12, so that a comment comes in two pieces.
* `getopt`: six words are enough for both segments of an `exchange` to be the
  longer one, and for several exchanges.
* `Stats`: three samples in a ring of two, so that it wraps; one, two or three recorders
  in the call; two durations; widths reduced to 24 and 12 bits.
* `Startup`: three launches: one that runs, and two that race each other.
* Weights 60, 40, 59 with threshold 100: two that reach it exactly, two that miss
  it by one, all three.

The theorems of section 4 hold for all values, so these bounds matter for the
properties that are only model-checked. `CHECK_DEADLOCK FALSE` appears in
`lookup` only: a cancelled solver that holds `solvermgr`'s lock, or a
solver that never started, really stops the system.

### Fairness

`FairSpec` assumes that every thread that can take a step takes one in the end
(`WF` per thread): they are kernel threads, and the mutexes of the model are held
for finitely many steps. A worker in `run` replies, ends the process, or comes to wait
for ever (`hang`, which nothing fair leaves): the reads and the resolver that it waits for
before that have their own timeouts. Nothing is assumed of the outside: no client has to
connect, no signal to come. In `Lookup` a solver's `pthread_mutex_lock` has `SF`,
because spurious wakeups, which nothing bounds, could make the worker take the
mutex again and again, and a lock that starves a waiter for ever is not meant.
`SpuriousWakeup` itself is outside the fair steps. With a bounded number of
connections no flood of clients can starve a worker of `workermgr`'s lock; such
starvation is outside the liveness results. In `ProcessRequest` the thread runs,
time passes and `gethostbyname` returns, but the client owes nothing and no signal
has to come. In `Reload` only the main thread is fair, outside `accept()`: nothing
is assumed of the workers, which wait for the network, so `MainMovesOn` holds
whatever they do. In `Getopt` there is one thread and it runs. In `Startup`
a launch that runs gets on; nobody has to launch, stop or kill one.

## 4. Proofs

`ThrMgrProofs` has the facts about the list. `ListReaches`: in an intact list the
search from `tlist` reaches every allocated node. Take a set that contains the
first node and is closed under `next`; if it missed a node, take the youngest it
misses; that node is the first, or its `last` is a younger one, which is in the
set, whose `next` it is. `RegisterIntact` and `UnlinkIntact`: the two list
operations keep the list intact. `RegisterManager`, `FailManager`,
`UnregisterManager`, `ManagerFrame`: every step that can touch a manager keeps
`ManagerInv` (types, intact list, exact counter, no cancelled thread in the list).

`PoolProofs` and `LookupProofs` each have an inductive invariant `IInv`, of which
one lemma per process shows that its steps keep it, and derive from it:

| Theorem (`PoolProofs`) | Property |
|---|---|
| `TypeCorrect` | `TypeOK` |
| `ListStaysIntact` | `ListIntact` |
| `CountIsExact` | `CountAgrees` |
| `UnregisterAlwaysFinds` | `UnregisterFinds` |
| `PoolIsBounded` | `PoolBounded` |
| `ClosesHappenOnce` | `ClosedOnce` |
| `HolderWritesOnly` | `OnlyHolderWrites` |
| `PeakIsWithinPool` | `PeakWithinPool` |
| `WaitingIsFutile` | `WaitIsFutile`: the finding of `pool_wait`, for every pool |

| Theorem (`LookupProofs`) | Property |
|---|---|
| `TypeCorrect` | `TypeOK` |
| `ListStaysIntact` | `ListIntact` |
| `CountIsExact` | `CountAgrees` |
| `SolversFindThemselves` | `UnregisterFinds` |
| `StackOutlivesSolvers` | `NoDanglingAccess` |
| `VerdictIsComplete` | `AllAnswersIn` |
| `CounterIsExact` | `ResolversCounted` |
| `WakeupIsNotLost` | `NoLostWakeup` |
| `PeakIsCounted` | `PeakCounted` |
| `LookupIsPolicyRequest` | `ImplementsPolicyRequest`: the refinement |

| Theorem | Property |
|---|---|
| `ReadRequestProofs!TypeCorrect` | `TypeOK` |
| `ReadRequestProofs!RoomForTheZero` | `ZeroFits` |
| `ReadRequestProofs!RequestIsWhole` | `WholeRequest` |
| `ReadRequestProofs!AddressNotCut` | `AddressIsWhole` |
| `ReadRequestProofs!HandlerReads` | `HandleSpec => Spec`: every step of the handler is one of the reader or none, so the four above hold of it |
| `ReadRequestProofs!ClientIsAskedFor` | `AsksForClient` |
| `ReadRequestProofs!HandleTypeCorrect` | `HandleTypeOK` |
| `ReadRequestProofs!AskedInOrder` | `AsksInOrder` |
| `ReadRequestProofs!VerdictIsTheirs` | `VerdictIsPolicy` |
| `ReadRequestProofs!ReplyHasRoom` | `ReplyFits` |
| `ReloadProofs!TypeCorrect` | `TypeOK` |
| `ReloadProofs!ReadersAreSafe` | `ReadersSafe` |
| `ReloadProofs!FreesOnlyItsOwn` | `FreesItsOwn` |
| `ReloadProofs!NothingIsLost` | `NothingElseLost` |
| `ReloadProofs!ReadsWhatIsWritten` | `ReadsAsWritten` |
| `ReloadProofs!ListIsThatOfTheFile` | `ListIsFile` |
| `GetoptProofs!TypeCorrect` | `TypeOK` |
| `GetoptProofs!WordsKeepTheirOrder` | `OrderKept` |
| `GetoptProofs!ExchangeIsRotation` | `ExchangeRotates` |
| `StatsProofs!TypeCorrect` | `TypeOK` |
| `StatsProofs!ClearsAreBounded` | `ClearsBounded` |
| `StatsProofs!NoSampleLost` | `SamplesKept` |
| `StatsProofs!AverageIsWithin` | `AverageWithin` |
| `StatsProofs!RingIsWindow` | `ImplementsSampleWindow`: the refinement |
| `StartupProofs!TypeCorrect` | `TypeOK` |
| `StartupProofs!OnlyOneListens` | `OneListener` |
| `StartupProofs!DaemonStaysReachable` | `StaysReachable` |
| `StartupProofs!SuccessIsListening` | `SuccessMeansListening` |

Why the strengthening is needed. `UnregisterFinds` is not inductive: that a
searching thread is in the list needs `LockHeld` (a searcher holds the lock, and so
does a creator between `pthread_create` and `thr_register`) and `Accounted` (every
thread that has not left is in the list, or cancelled, or the one being
registered while the creator holds the lock). `NoDanglingAccess` needs
`MutexHeld`: the worker leaves its wait with the mutex, the counter is zero, so no
solver is before its countdown (`ResolversCounted`), and none is between its
countdown and its unlock, because such a solver holds the mutex. That argument is
the step `JoinDone` of `WorkerKeeps`. The threshold must be positive
(`ThresholdAssumption`) for the loop over the RBLs to ask all of them: with a
score of zero the test `score < 100` never ends it early. `ClosesHappenOnce` needs
to know, for each connection whose registration has not failed, who is still going to
close it (`ClosersApart`): the main thread has at most the newest, and not once its worker
has it; a worker that still serves has not closed.

`LookupIsPolicyRequest` adds to `IInv` what the worker knows half way (`RInv`): the
score is a partial sum of what the solvers have put into `resdata`, the reply names just
the hits among those collected, and without an error the collection is complete when
the answer is given (`Completed`). Then one lemma per process: a step of a solver is
an answer of its RBL or a stutter (`SolverAnswers`), a step of the worker is the reading,
the reply or a stutter (`WorkerReplies`), everything else stutters (`OthersStutter`).

`RequestIsWhole` rests on two lemmas: what the code takes for an ending is an
empty line (`EndingIsEmptyLine`), and the empty line at the end of a well formed
request is taken for one (`EmptyLineEnds`); the invariant says that a request in
`select` has not ended (`Judged`). `AddressNotCut`: the value that
`parse_request` returns ends before a line character, which is no symbol of an
address, so the scan of the digits stops at the same place in the value and in the
whole request (`AddressOfPrefix`). `ClearsAreBounded` counts: the clears so far
and the workers that still will are at most those in the call, because as long as
`init` is 0 nobody has left it. `OnlyOneListens` needs for a path that it belongs
to every socket bound to it (`PathIsOwn`), since nothing removes a path.

`NoSampleLost` and `AverageIsWithin` need `ClearedOnce`: as long as the ring has been cleared
only once, nothing is recorded before that, and a count that was found positive stays
positive. `AverageIsWithin` needs one duration that bounds all that is in the ring, every average
logged and, times the number of samples added so far, the sum (`Averaged`): with it the
sum cannot wrap, and the division stays under the bound. The handler reads the ring while
a worker writes it, so the bound has to be the same before and after each store.
`RingIsWindow` needs that a worker that stores or counts has the lock (`Exclusive`); then
`StoreRecords` shows that the one step which stores the value appends it to the window and
drops the oldest when the ring is full, and every other step but `Clear` leaves the window.

`HandlerReads` carries the reader's theorems over to `process_request`: each step of
`HandleNext` is a step of the reader or leaves its variables alone (`HandleSteps`).
`ClientIsAskedFor` then needs that nothing is prepared before the request is read to
its end (`HandleInv`), and that turning round the numbers of a whole address gives
what the RBLs are to be asked (`ReversedIsRight`). `VerdictIsTheirs`, `AskedInOrder` and
`ReplyHasRoom` share the invariant `AskInv`: at the head of the loop the score is the sum
of the points of the answers so far, the reply has the names of those that listed the
client, in order, and `replen` is the length they come to (`Scores`); what has been written
and what is still to be written make up the verdict (`Telling`). The sums are
recursive functions; that such a function obeys its recursion, and what follows from
it by induction over the length, is proved from the theorem that `<` on the
natural numbers is well founded: of the lengths at which the statement fails take the least.
This takes a set and not an operator, so the provers can use it (`NatSet`).

`Reload`'s invariant is about chains. `ReadersSafe` is not inductive: a worker walks
along `next`, so one has to know that from an item in use only items in use are
reached. `Heap` says that an item's successor has the same owner and that no item
follows two, `Heads` that nothing leads to the head of a chain, `Lists` whose items
the pointers of `cfg_read` and `cfg_free` point to. `AddItemHeap` and `FreeItemHeap`
show that appending an item and giving back the first one keep this; because nothing
else leads to the first item, giving it back touches no other chain. `Readers` then
says that every worker that is not overtaken holds items in use, and that there is
none with an item in hand while a reload frees the list. `NothingIsLost` needs the
converse of ownership: every item of an owner is reached from the head of its chain
(`Kept`). Reached is said with sets: each set that has the head and is closed under `next` has
the item (`Covers`).

`ReadsWhatIsWritten` and `ListIsThatOfTheFile` are about what the list says, and most of
their proof is about texts. What a file means is defined without the code's way of
reading: lines between line feeds, words as the longest runs of characters that are no
white space, and an entry as a line that has, before its comment, just two words of which
the second is a weight (what numeral is a weight, and which, is `Weight`, the code's own
conversion). `cfg_read` goes through `fgets`, `cfg_cleanline`, two scans along the line and
`strtol` instead. `LineMeans` is the heart: the name and the argument that the code cuts out of
a line are laid out as `Laid` says, and then the line has no word exactly when the name is
empty (`NoWords`), and is an entry exactly when the weight is not zero (`NameAndWeight`,
`OneWord`, `MoreWords`; a third word sits inside the argument, and white space inside the
argument is no numeral, `SpacedWeight`). `fgets` may take all of a line but its line feed, and the
line feed alone the next time: `AtLine` allows for that, and `FgetsEnds` keeps it.
`NextLine` adds it up: a turn of the loop passes over a line without words, or has an entry in
hand, or the text is not right. `RightTo` and `EntriesTo` carry this from one position to the
next. For the program, `Built` says that what is in the list being read is what the text
says up to `pos` (up to the start of the line in hand, in `parse`), that nothing else is `new`, and
why a refused file is refused; `InUse` says that the list in use is one that was read to
the end. `AddBuilds` is the step that needs `Lists` and `Heap`: the new item goes behind
`last`, and `last` is the end of the chain. `ChainIs` leads from such a chain to the recursive `Chain` of
the properties, which takes at most as many steps as there are items in memory
(`ItemsAssumption`: memory is finite).

`Getopt`'s invariant follows the scan. Up to `optind` the words are those given: first
the options and then the operands passed over, each in the order given (`Segments`,
by the predicate `Split`). While `exchange` runs that does not hold; there
`Exchanging` says that the rotation still to be done of what `argv` is now is
the rotation that was to be done of what it was `before`. `TurnAtTop` and
`TurnAtBottom` show this for the two kinds of turn, by cases on the place of a word,
`RotatedEmpty` gives `ExchangeIsRotation` at the end, and `SplitRotates` that the
rotated range is again split. `NothingLost`, `argv` never has a word twice, holds because
a turn only swaps words.

The assumptions are those named in the modules. What they ask for: `MaxTid` a
natural number; `Threshold` positive, weights between 1 and `SHRT_MAX` (what
`cfg_read` accepts); `MaxTries`, `Rounds`, `Octets`, `RINGBUFFERS` and the widths
positive; `CHUNK` at least 2 and `MAXLINE` more than 2 (both 1024 in the code); the line characters different from each other and from those of an address; `Items` finite; `NULL`, `None`
and `Dangling` different from what they stand beside; `Faults` a subset of the calls
named.

Only model-checked:

* all liveness: `EveryConnectionCloses`, `ShutdownUnlessAccepting`, `Answered`, `Handled`,
  `MainMovesOn`, and the end of the scan in `WordsObeyed`; the prover has no rule for
  fairness;
* the meaning in `WordsObeyed` of `Getopt`: it compares the scan, with its exchanges, with a
  recursive reading of all words from left to right. It is a safety property and not
  proved yet.

## 5. What is not modelled, and the plan

Left in the plan, in this order:

1. `Lookup` with several workers that share `solvermgr` and `rblist_mutex`, and with a
   cancelled worker (`thrmgr.c:206`): it dies in `pthread_cond_wait`, its stack goes,
   and its solvers do not know.
2. `Admission`: an abstract pool (accepted, served, refused, closed) that `Pool`
   implements, with the step simulation proved.
3. A proof of the meaning in `WordsObeyed`.

Not planned, and why:

* `snprintf.c` is compiled only where the C library has none, and `system.h` papers
  over differences of headers; `configure`, the Makefiles and the init scripts have no
  logic of the program's (one line of an init script is quoted by `startup_restart`).
* Of `getopt.c`: `-W`, optional arguments, `RETURN_IN_ORDER`, `getopt_long_only` and the flags
  of glibc's shell. The option string and the table of `main` do not reach them.
* `xmalloc.c` ends the process when memory runs out; it has no state.
* `cfg_dump`, `stats_log`'s and `fmt_secs`' formatting and `pid_write` (which is called by nobody)
  only print. `stats_start` stores the time.
* In `cfg_read`, a failing `strdup`. In `Lookup`, a failing allocation of `solvermgr` or of
  the reply: nothing looks at the results, and `Pool` has the end of the process (`WorkerCrash`).
* What a signal handler does inside the C library: `sigstatus` and `sigterm` call `syslog`, and
  the thread they interrupt may be in it. The models have no locks of the library.
