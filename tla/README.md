# Verification of the declarative real-time scheduling daemon

The repository holds a daemon (`daemon/`) that grants CPU reservations to the threads of other processes, a client
library (`lib/`) and a test program (`test/`). A client connects over a Unix socket, asks for a reservation by budget,
period, deadline and priority, and attaches a thread to it; the daemon picks a scheduling plugin and a CPU that can take
the reservation, and sets the thread's policy, priority and affinity in the kernel.

This directory holds TLA+ models of that system, TLC configurations that check them on small instances, and theorems
with proofs checked by TLAPS. Every definition is written from the C code; the file `PROJECT.json` maps each one to its
lines.

## 1. Inventory of the system

| Component | Code | State | Operations | Correct when |
|---|---|---|---|---|
| Taskset | `daemon/components/list_ptr.c`, `daemon/lib/rts_taskset.c` | a singly linked list of tasks | add on top, add sorted, remove by key, search, iterate | the right task is found or removed, order is kept |
| Plugins EDF, SSRM, FP, RR | `daemon/plugin/sched_*.c`, `schedconfig.cfg` | `util_used_percpu` of each plugin; the task's `cpu`, `schedprio` | admission test and score, utilization accounting, priorities, schedule / deschedule | what is accounted is what the tasks use; priorities stay in the pool and respect periods and user priorities |
| Reservation scheduler | `daemon/lib/rts_scheduler.c` | `next_rsv_id`, the taskset, `sys_rt_curr_free_utils` | create, attach, detach, destroy, refresh, query, delete (purge of a client) | no CPU is overcommitted, the two ledgers agree, an operation hits the reservation it names |
| Request handlers, daemon loop | `daemon/lib/rts_daemon.c`, `daemon/daemon.c` | the current client | one handler for each request type; failure and update checks for each client in turn | each request is served once, a lost client is purged and nobody else |
| Carrier and sockets | `daemon/lib/rts_channel.c`, `daemon/components/usocket.c` | `conn_set`, `last_n`, `last_req`, state and pid of each client | accept, receive from all, classify clients, send | the daemon's view of a client follows what the client did |
| Client library | `lib/rts_lib.c` | last request and reply; estimated period and execution time | one call for each request; begin / end of an activation | a reply is taken for the request it answers; an error is not taken for success |
| Shared estimates | `daemon/components/shatomic.c`, `atomic.h` | a shared memory segment for each parameter set | create, use, attach, read, write | the daemon reads the segment of the right client |
| Plugin loading | `daemon/lib/rts_plugin.c` | the plugin table | count the lines, load an object for each | no entry a request can reach is a null pointer |
| Real-time limit | `daemon/lib/rts_daemon.c:15-48`, `daemon/daemon.c` | the kernel's `sched_rt_runtime_us` | remove at start, restore at SIGINT | the limit the administrator set is there when no daemon runs |
| Integer list | `daemon/components/list_int.c` | the test points of SSRM's `workload_analysis` | add on top, add sorted, search | the points are those of the analysis |
| Time conversions | `daemon/lib/rts_utils.c` | none | normalising addition, unit conversions | no wrap, `tv_nsec` below 10^9 |
| Monitor of the test program | `test/memutils.c`, `test/test.c` | mutex, condition, the thread ids | wait for a thread's id, publish it | no thread 0 is attached, nobody waits for ever |

How they interact. The daemon is one process with one thread. Its loop (`rts_daemon_loop`) asks the carrier to wait in
`select` and read from every ready connection, then visits each client in turn: a client that failed is purged
(`rts_scheduler_delete`), a client that wrote is served by one handler and sent one reply. The handlers call the scheduler, which
calls the plugins through function pointers and keeps all reservations in one taskset. Clients and the daemon share one
memory segment per parameter set, from which the daemon reads estimated execution times and periods when a client has
left those parameters at 0. The kernel is reached through `sched_setaffinity`, `sched_setattr` and `sched_setscheduler`.

What is hard here. Reservations of several clients are mixed in one list and leave it in any order; utilization is kept
in two ledgers (`util_used_percpu` of each plugin and `sys_rt_curr_free_utils`) that different operations update; the
estimates change between admission and removal; system calls can fail half way; the daemon learns of requests and of
disconnections through an array that survives from one round of its loop to the next; SIGINT can come between any two
stores of a list operation; the client updates its shared segment without a lock while the daemon reads it. `PROJECT.json` lists these hazards
line by line with the properties that cover them.

## 2. The modules

| Module | What it models | Composes |
|---|---|---|
| `TaskSet` | the list operations, as operators on sequences | |
| `TaskList` | the taskset as an abstract machine: one step for each operation | `TaskSet` |
| `LinkedList` | the same one store at a time, on a heap that can run out, with SIGINT between any two steps; implements `TaskList`; what sorting would make of it | `TaskList`, `ListSort` |
| `ListSort` | the merge sort of `list_ptr.c` and `list_int.c`, and the four orders of tasks | |
| `Workload` | SSRM's `workload_analysis` as written for tasks, on the integer list | |
| `Plugins` | admission tests, scores, utilization and priorities of EDF, SSRM, FP and RR | `TaskSet` |
| `Scheduler` | the reservation scheduler with the request handlers as actions; implements `Admission` | `Plugins` |
| `Admission` | what the scheduler promises: grants with an owner, a CPU and a plugin, that end one at a time and never exceed what a CPU has | |
| `Carrier` | the daemon's request loop, the carrier, the sockets, the clients' side of a call | |
| `Lifecycle` | start and end of daemon processes, the kernel's real-time limit, the socket's path, the loading of the plugins | |
| `Segments` | which segment of shared memory belongs to which set of params, for clients and daemon | |
| `Units` | `struct timespec`, milliseconds of 32 bits, the attributes passed to the kernel | |
| `Estimates` | a thread's activations and unlocked stores into its segment, against a daemon that reads it | `Units` |
| `Monitor` | the test program: its main thread, its threads, and the monitor between them | |
| `*Proofs` | `ListProofs` about `TaskSet`; `SchedulerProofs`, `LinkedListProofs`, `CarrierProofs`, `SegmentsProofs`, `EstimatesProofs`, `LifecycleProofs`, `MonitorProofs` about the module of their name |
| `MC*` | constants for the instances TLC checks | |

`Scheduler` and `Carrier` meet in one place: `Carrier!Serve` is one handler of `Scheduler`, `Carrier!Purge` a purge. They
are checked apart, which is sound because the daemon has one thread and a handler runs from its request to its reply
without looking at a socket; `Scheduler` lets any client ask for anything at any time, and so includes every order in
which `Carrier` serves.

## 3. How the modules correspond to the code

**`TaskSet`** - a list is a sequence of task records, the root first. A search is given the set of positions at which the C
comparison answers 1 (`IndexesByRsvid`, `IndexesByPpid`) and returns a position, 0 for NULL. `RemoveIndex` follows
`list_ptr_remove`, whose loop goes on while the comparison answers non-zero: it takes the root if the root matches and
otherwise the first *other* node that does **not** match. `SearchIndex` follows `list_ptr_search_elem`, which does the same
for every node. Two code paths, attach and detach, walk the list with an iterator instead (`IterIndex`) and find the
right task. `DeleteAll` is what the whole loop of `rts_scheduler_delete` leaves, in closed form; the theorem `Purges` ties it
to the turns of the loop.

**`Plugins`** - utilizations are whole numbers of `1/Scale`. `TestCpus` is the set of CPUs a plugin's `t_test` would
accept (the code takes the lowest), `Score` its score, `BestPlugins` the outcome of the comparison in
`rts_scheduler_assign`. `HyperbolicBound` is the product of `(wcet + period)/period` compared without division. It has the
answer of the float code for a period of 0 as well: there the code compares a NaN or an infinity. SSRM's last step,
`workload_analysis`, reads list nodes as if they were tasks, because
`list_ptr_get_i_elem` returns `&(n->elem)` (`list_ptr.c:269-278`); its answer is undefined, so it is a free choice (`wa`),
and so is its never returning (`RsvCreateSpins`).

**`Scheduler`** - one action for each handler of `rts_daemon_process_req`, with its failing variants, since the daemon has
one thread and serves one request at a time. The purge of a client is one action per turn of its loop. Chosen
from outside: the request, the estimates found in shared memory, how many of the two system calls of attach or detach
succeed, and `wa`. `kernel` is what the kernel has been told of each thread; thread 0 is the daemon itself, as in
`sched_setaffinity(0, ...)`. `free` is `sys_rt_curr_free_utils`, `used` the `util_used_percpu` of every plugin.

**`Carrier`** - a client is the descriptor the daemon accepts it on; as the daemon closes no descriptor, they are handed
out in order. `Update` is one return of `select` with everything `rts_carrier_update` does about it. `turn` is the
loop variable of `rts_daemon_loop`, so requests and disconnections can arrive between any two clients it visits.
`Kept` is the `memset` of `rts_channel.c:76`, which clears `n+1` *bytes* of an array of ints. A request and its reply are
both the number of the request: what the handler computes is `Scheduler`'s business, which reply goes where is this
module's. `PipeKills` says which disposition of SIGPIPE the daemon was started with. `BufMax` is how many replies a
client's socket takes before `send` waits.

**`LinkedList`** - `next` and `elem` are the fields of the nodes, `root` and `n` the list, and `pc` the store that comes next, so
that each action is one access that another party could see. The other party is the handler of SIGINT, which may run
between any two of them, walks the list, frees it and exits (`Sigint`). The lists that SSRM sorts for itself are built by
`add_sorted` outside the handler's reach (`Local`). When the heap is used up `alloc` exits,
which leaves the kernel's limit as it is (`CallocFails`). `Content` maps the links to the sequence `TaskList` has; `L!Spec` is the refinement.

**`ListSort`** - `Merge` answers the empty list when its first argument is used up, as `list_ptr.c:83-84` does; so does
`list_int.c`. Both recursions are functions, of places in the lists, so that proofs can use their equations. Nothing in the
daemon sorts a taskset; `SortLeavesTheLeast` says what sorting would make of a list of `LinkedList`. **`Workload`** follows `workload_analysis` with the tasks it means to read; `SsrmAdmitsByMisreading` compares its
answer with what SSRM does admit.

**`Lifecycle`** - one step for each thing `main` does that others can see: the read of the limit, its removal, `bind`, the
loading of the plugins, the registration of the handler, the loop, the handler, the write that restores, the exit. Two
processes run it; a process can die at any step. `file` is the configuration: there or not, with the `!` that ends its
comment or without, with a newline behind its last line or without, and which of the objects it names load. `free` is the
bandwidth the scheduler shares out. `clean` says that no daemon so far has met another or ended otherwise than
through the handler.

**`Segments`** - a set of params has an inode (`createkey` makes a temporary file and unlinks it), a key (the low bits of the
inode), and a segment. `fds` are the descriptors `mkstemp` opens and nobody closes: they are all that keeps an inode from
being used again. The daemon finds the segment by its key when it creates a reservation.

**`Units`**, **`Estimates`** - a time is a number of nanoseconds; `Timespec` splits it as the kernel does, and the operators are the
functions of `rts_utils.c` with their widths (`Word`). `Estimates` has the stores of `rts_rsv_begin` and `rts_rsv_end` in
their order, `compute_for` and the absolute sleep; a delay or an overhead is chosen from a small set wherever the kernel
may take time. The daemon reads the execution time in one step and the period in the next (`ReadWcet`, then an
evaluation). Utilizations are tagged values, with infinities and NaN as IEEE arithmetic has them. `gaps`, `peak`, `last`
and `start` are history: what a perfect clock would have seen.

**`Monitor`** - the access to `t_par`, to `t_ids`, the mutex and the condition are steps of their own. `Nothing` stands for
memory nobody has written.

Operators commented "A seeded fault of ..." are deliberate mistakes, never used by a specification. They document which change of
the code each property would catch; `PROJECT.json` pairs them with the properties.

## 4. The runs

| Run | Instance | States | Shows |
|---|---|---|---|
| `MCDeclared` | `Scheduler`: 2 CPUs, 2 clients, 3 creations; budget and period declared | 82 000 | both ledgers agree, no CPU is overloaded, priorities stay in their pool, a system refresh repairs stale priorities; what SSRM admits its own last test would refuse, did it read tasks |
| `MCEstimated` | the same with parameters left to estimates of 1/4 or 3/2 of a CPU | 69 000 | accounting per plugin, no admission beyond what is left, ledgers that only a single refresh moves apart; the refinement of `Admission` |
| `MCThreads` | 1 CPU, 3 creations of 2 clients, 1 thread, every outcome of the system calls, purges | 164 000 | the daemon's own policy survives; only a half-failed detach leaves a real-time thread unpinned; only a removal or another attach leaves one without a reservation; the purge loop ends |
| `MCCarrier` | 2 clients, 3 requests each, room for 3 replies, SIGPIPE at its default | 20 000 | only clients that have gone are purged, and once; no request is skipped between a client and its replies; a client that never shared the daemon gets its own replies; no call is forgotten; unless the daemon stays in the `send` to a full socket, which nothing else does to it, every call returns and a served client that goes is purged |
| `MCLists` | 3 nodes, 4 tasks of 2 clients | 31 000 | sound links and a right count under SIGINT at any step; the refinement of `TaskList`; every call ends |
| `MCLifecycle` | 2 daemons, every file of 3 lines | 141 000 | the limit's round trip, the only ways to lose it, a whole file loads whole |
| `MCMonitor` | 3 threads, 2 spurious wakeups | 85 000 | without a spurious wakeup a thread reads its own argument and a reservation outlives its thread; with them too somebody can always go on, and the program ends |
| `MCEstimates` | 3 activations, 3 requests, a millisecond of 3 units, 4-bit words | 2 750 000 | what the estimates track, when activations are planned, torn reads, when the ledger turns infinite, what the kernel is given |
| `MCSegments` | 2 clients with 3 sets, 4 inodes, 3 segments | 388 000 | whose estimates the daemon reads; a key finds its segment |

Why the bounds are enough. The faults the scheduler's properties are about need two owners (a removal that hits a
stranger), a list with a root, a middle and an end (3 tasks), one CPU that is full and one that is not, and two SSRM
tasks on one CPU. Budgets and periods are quotients that are exact in quarters, so a CPU can be filled exactly. The SSRM
pool has two priorities, so that it can run out; the FP pool is small enough for the remapping to round. In `Carrier`,
`MaxAsk` 3 lets a request be replayed, answered and overtaken by the next; with 3 replies of room, replayed requests
fill a client's socket within the run, and a client can stay away from it or come back to it. In the runs with 2 clients the `memset` stops short of the clients' entries, as it does in a daemon with fewer
than 13 clients; `MCCarrierIdle` has 13, and a 14th that connects. In `MCLists` a fourth addition finds the heap used up, and
a removal can stop at the root, the middle, the end and nowhere. In `MCLifecycle` a second daemon can start, stop or die at every
step of the first; what a third could add is what the second already did to `limit` and `path`. In `MCMonitor` the
argument is overwritten twice, and a wakeup can be spurious in two turns. In `MCEstimates` the millisecond clock wraps
within a run (16 ms, and the second of the instance has 4 ms so that `tv_nsec` carries), activations lie 0 or more
milliseconds apart, and a third activation tells "the last", "the longest" and "the first" apart; three requests are a
creation, a refresh and a destroy. In `MCSegments` two inodes share a key, one has the key 0, which is `IPC_PRIVATE`, and the segments can run out.

Client identities are symmetric in `MCDeclared` and `MCEstimated` (`PidSymmetry`), which check no liveness. Deadlock is
checked except where the system may stop: in `Carrier` when every client has left or keeps silent or the daemon is
gone, in `LinkedList` and `Monitor` when the process has ended, in `Estimates` when the thread is through and the requests are
used up, in `Segments` when no inode or segment is left.

Runs that end in a violation state what the repository says and what the code does not do:

| Run | The repository says | What happens |
|---|---|---|
| `MCDestroyNamed` | a destroy is "for res: %d" | unless it is the newest, another reservation goes |
| `MCCarrierReplay` | the reply holds the id asked for | a stale `last_n` has an old request served again, and the client takes the surplus reply for its next one |
| `MCCarrierIdle` | "Client %d disconnected" | with 13 clients connected, the first one loses its reservations while idle |

The two faults of the carrier hide each other: because the `memset` clears too little, requests are replayed; if it
cleared all it means to, every client that stays silent for a round would be taken for disconnected (the seeded fault
`KeptNone`).

What else the models show, without a run of its own:

- A destroy leaves the thread's real-time policy (`rts_scheduler.c:231-246` calls no `t_deschedule`), although
  `rts_daemon.c:195` says "The thread will be detached": `RsvDestroy` leaves `kernel` unchanged.
  `OrphanLostItsReservation` says that this, a purge and an attach over another are the only ways to such a thread.
- A destroy ends the reservation it names exactly when that is the newest of all clients' (`DestroyHits`, which is proved).
- A single refresh evaluates the newest reservation that is *not* the one named (`list_ptr.c:331` stops where the
  comparison answers 0, `rts_taskset_cmp_rsvid` answers 1 on a match): `SearchIndex`.
- A system refresh that finds a CPU above 1 answers OK: `rts_scheduler.c:136` subtracts the -1 of `ts_recalc_utils`, and
  `rts_daemon.c:69-70` tests for less than 0.
- A client that leaves before its reply is sent ends the daemon by SIGPIPE (`usocket.c:103`): `ServeFails` with `PipeKills`.
- Without the exception `[]SendBlocks`, `CallsReturn` fails: the replies to replayed requests fill the socket of a client that is
  not in a call, `send` blocks, and the daemon answers nobody any more. `OnlyFullSocketsBlock` says that nothing else blocks it.
- `MCCarrier` with `PipeKills = FALSE`: `PurgedOnce` fails. After a failed read the entry of a purged client is still -1,
  and `rts_channel.c:85` makes it CONNECTED, and lost, again. A second purge is not harmless, because `list_ptr_remove`
  then takes strangers' reservations.
- A purge leaves the first stranger's task and every task of the lost client behind it, and takes the other strangers'
  tasks, although `rts_daemon.c:236` says of a lost client "Its reservation will be destroyed": `DeleteAll`, which the theorem
  `Purges` ties to the loop. The cause is the removal `MCDestroyNamed` shows, so it has no run of its own.
- EDF computes nanoseconds in 32 bits (`sched_EDF.c:35`): from 4295 ms on the kernel is asked for other times than the declared
  ones, which the daemon has granted (`MilliToNano`; `EdfAttrHonest` is about declarations below the wrap).
- After a single refresh a destroy gives back another amount than was taken, so the remaining budget that
  `test/test.c:96` prints can exceed the total one: `LedgersMoveTogether` says that nothing else has this effect.
- SSRM admits only because `workload_analysis` reads list nodes in place of tasks. Corrected, it would refuse everything
  that reaches it, because its only test point is a deadline of 0; nor is its list of points ever freed.
- Sorting a taskset of two or more tasks would leave one node (`list_ptr.c:83-84`), although `list_ptr.c:340-341` promises "to sort
  the entire list", and `list_int_remove_all` frees every other node and reads through NULL on an odd number of them.
  Nothing calls either, so the first is stated and proved (`SortKeepsOne`) but no run is about it.
- With a signal between the two stores of an addition or a removal the handler reads the root through NULL
  (`CountIsLength` says where); in the middle of `malloc` or `free` it may wait for ever. Either way the limit is lost.
- A second daemon that starts beside the first saves -1 for the limit. If it ends last, or the first dies, the
  administrator's value is gone for good (`LossNeedsFault`).
- A configuration file with a newline behind its last line yields one more entry than it has lines, with null pointers
  that the next creation calls (`NullCall`); the shipped file has none.
- A client without a declared period whose thread is activated again and again within the same millisecond has its estimated
  period halved each time, and a long enough run of such activations (about log2 of the first estimate) brings it to 0; a refresh
  then makes its utilization infinite, and a destroy turns the ledgers into NaN, which no request repairs. `LedgerFinite` says that at least
  one gap of 0 is needed.
- When a planned activation falls on a whole second, `time_add_ms` leaves `tv_nsec` at 10^9, `clock_nanosleep` refuses it, and
  the thread goes on at once (`OnSchedule`). Activations are measured with MONOTONIC_RAW and slept for with MONOTONIC.
- `shatomic_attach` tests `mem->value` before it is set (`shatomic.c:140`), so a failing `shmat` goes unnoticed. Segments
  are never removed (`shatomic_destroy` has no caller), so that creations fail when the system's limit is reached.
- When `rts_params_init` fails the key is 0, `IPC_PRIVATE`, and the daemon reads a new segment of zeros (`ParamsInitFails`).
- `list_ptr_add_sorted` puts a task before those it ties with, unless they are at the root; `list_ptr.c:190-191` says
  after.
- Comments of `rts_types.h` on units and defaults differ from the code, and the models follow the code: lines 20-21 give `MAX_INT_32` and
  `MAX_INT_32 / 3` for the first estimates, which `rts_params_init` sets to `MAX_EST_PERIOD` and `MAX_EST_WCET`
  (`EstPeriod`, `EstWcet`); line 86 gives the budget in microseconds, which the plugins divide by a period in milliseconds and
  EDF multiplies by 10^6 into nanoseconds like one.

A process with two connections has one pid, so the loss of one takes the reservations of both.

## 5. Fairness

`Scheduler` assumes weak fairness of the turns of the purge loop, nothing else: a `while(1)` in a running process goes on
by itself, while requests need not come and a spinning `workload_analysis` need not end. `Carrier` assumes weak fairness of
the daemon's loop as a whole - the process is scheduled, `select` returns when something is ready - and of a client's
`recv` when there is something to receive, because a client inside a call does nothing else. Clients need not ask, read
outside a call, or leave. `CallsReturn` and `GoneArePurged` except a client that lets its socket fill and never comes back to
it (`[]SendBlocks`); the loop itself has no other place where it waits for a client. `LinkedList` assumes that a call under way goes on; neither calls nor signals need come.
`Monitor` assumes that the main thread and each other thread run when they can; a signal of a condition wakes the one
waiter there is. `Lifecycle`, `Estimates` and `Segments` assume nothing and state safety only: a daemon need not end, a thread
need not run.

## 6. What is proved

All theorems hold for every value of the constants that meets the assumption named in the module:

- `PluginAssumption`, `SchedulerAssumption`: there is at least one CPU, pools are not empty, estimated periods are positive;
- `CarrierAssumption`: clients' descriptors come after the listening one;
- `LifecycleAssumption`: the limit is not -1 at the start and a file has no more objects than lines;
- `MonitorAssumption`: there are finitely many threads;
- `LinkedListAssumption`: the heap is finite, NULL is not in it, and tasks have periods;
- `SegmentsAssumption`: a set has one owner, an inode one key, and `None` is neither key, inode nor segment;
- `UnitsAssumption`, `EstimatesAssumption`: units and widths are positive, what a set declares is not negative, and the
  garbage in a new segment fits into a word.

| Theorem | States | By |
|---|---|---|
| `SchedulerProofs!Types` | `[]TypeOK` | induction, one step per action; `CreateFacts`, `RefreshFacts`, `AttachFacts` and `RemoveFacts` say what each kind of handler does |
| `SchedulerProofs!Accounting` | `[]PluginAccounting` | `StepKinds` reduces `Next` to admit, remove, revalue, attach and keep; a sum over the list changes with each as the lemmas on `UtilSum` say |
| `SchedulerProofs!Overcommit` | `[]NeverOvercommitted` | utilizations are not negative and an admission was tested against `free` |
| `SchedulerProofs!MoveTogether` | `LedgersMoveTogether` | from `PluginAccounting`: what leaves one ledger enters the other |
| `SchedulerProofs!Agree` | `AllDeclared => []LedgersAgree` | strengthened by `TasksDeclared`: each task's utilization is what a refresh would compute again |
| `SchedulerProofs!NotOverloaded` | `AllDeclared => []NoCpuOverloaded` | from the three invariants above |
| `SchedulerProofs!Newest` | `[]NewestFirst` | removals keep the order, `next_rsv_id` only grows |
| `SchedulerProofs!Placement` | `PlacementStable` | from `NewestFirst`: ids identify tasks |
| `SchedulerProofs!Implements` | `ImplementsAdmission` | each kind of step maps to a grant, a refusal, an end or a stutter; unique ids make the set of grants lose exactly one |
| `SchedulerProofs!DaemonPolicy` | `Daemon \notin Tids => []DaemonKeepsPolicy` | a detach of thread 0 sets what the daemon already has |
| `SchedulerProofs!StrayThreads` | `StrayOnlyByFailedDetach` | attach pins before it sets a policy |
| `SchedulerProofs!Pools` | `[]PrioInPool` | strengthened by `PoolHolds`; `SsrmTasksFacts` says which list a plugin sorts, `PrioRemapInPool` where a remapped priority ends up |
| `SchedulerProofs!Refreshes` | `RefreshRepairsPrios` | strengthened by `RefreshInv`; `SsrmOrder` and `PrioRemapGrows` say that new priorities are in order |
| `SchedulerProofs!Purges` | `PurgeLeavesDeleteAll` | `DeleteAllKept`: a removal leaves the closed form of the purge alone |
| `SchedulerProofs!OrphansAreDropped` | `OrphanLostItsReservation` | `PolicyRises` and `TidsKept`: only an attach gives a policy, and without one every reservation that stays keeps its thread |
| `SchedulerProofs!DestroyEndsTheNewest` | `DestroyHits` | `IterIndexIs`: ids are unique, so the iterator finds the place `RemoveIndex` takes only at the root |
| `SchedulerProofs!PurgeLoop` | `PurgeShrinks` | one case per action: only the two turns are enabled in the loop |
| `SchedulerProofs!Misread` | `[]SsrmAdmitsByMisreading` | strengthened by `SsrmDeclares`; `AnalysisRefuses` evaluates `WorkloadAnalysis` |
| `LinkedListProofs!ListHolds` | `[]ListInv` | induction, one lemma per store |
| `LinkedListProofs!LinksLive` | `[]LinksAreLive` | from `ListInv`: the chain has no repetition, so as many nodes as its length |
| `LinkedListProofs!CountRight` | `[]CountIsLength` | from `ListInv` |
| `LinkedListProofs!ImplementsSequences` | `ImplementsTaskList` | `Steps` says what each store makes of the chain; `LinkingIs`, `InsertingIs`, `TakingIs`, `MissingIs` and `SearchingIs` that this is the operation of `TaskList` |
| `LinkedListProofs!CallsAreBounded` | `CallsShrink` | from `ListInv`: each store moves `pc` on, or `prec` one node down the chain |
| `LinkedListProofs!SortKeepsOne` | `[]SortLeavesTheLeast` | the equations of `Merge` and `MergeSort`; a merge of two lists of one node is the lesser of the two, so every half is one node |
| `CarrierProofs!CarrierTypes` | `[]TypeOK` | induction; the loop stays below `conn_set_max` |
| `CarrierProofs!OnlyGone` | `MemsetFallsShort => []OnlyTheGonePurged` | strengthened by `ViewIsTrue` |
| `CarrierProofs!NoSecondPurge` | `MemsetFallsShort /\ PipeKills => PurgedOnce` | strengthened by `PurgeIsFinal` |
| `CarrierProofs!NoSkip` | `[]NoRequestSkipped` | strengthened by `Bookkeeping` and `Chained` |
| `CarrierProofs!AloneIsAnswered` | `[]RepliesMatchAlone` | strengthened by `OneAtATime` |
| `CarrierProofs!CallsAreKept` | `[]NoCallForgotten` | strengthened by `CallInv` |
| `CarrierProofs!ConnectedAreHeard` | `[]ConnectedIsHeard` | from `CallInv` |
| `CarrierProofs!NeverAllBlocked` | `[]OnlyFullSocketsBlock` | from `CallInv`: what keeps a call on its way makes `select` return |
| `SegmentsProofs!KeysFind` | `[]KeyFinds` | from `SegInv` |
| `SegmentsProofs!OwnEstimates` | `[]ReadsItsOwn` | from `SegInv` |
| `EstimatesProofs!ClocksHold` | `[]ClockInv` | induction |
| `EstimatesProofs!KeepsSchedule` | `[]OnSchedule` | strengthened by `Planned` and `Slept` |
| `EstimatesProofs!TornReads` | `[]TornUnderstates` | strengthened by `Torn` |
| `EstimatesProofs!WcetMeasured` | `[](PeakFits => WcetWithinOne)` | strengthened by `Measured` |
| `EstimatesProofs!StaysFinite` | `[](GapsFit => LedgerFinite)` | strengthened by `SoundLedger` |
| `EstimatesProofs!PeriodFollows` | `[](GapsFit => PeriodTracks)` | strengthened by `Bounded` and `Extremes` |
| `EstimatesProofs!KernelAgrees` | `[]EdfAttrHonest` | the declaration is in `Configs`; products below the word do not wrap |
| `LifecycleProofs!TypeCorrect` | `[]TypeOK` | induction |
| `LifecycleProofs!RoundTrip` | `[]CleanRoundTrip` | strengthened: while `clean` holds at most one daemon is between its read and its end |
| `LifecycleProofs!FileLoads` | `[]WholeFileLoads` | the table is written once, from the file, which does not change |
| `LifecycleProofs!LossFaulty` | `LossNeedsFault` | `Kept` is disturbed by the death of a holder and by writes alone |
| `MonitorProofs!TypeCorrect` | `[]TypeOK` | induction |
| `MonitorProofs!OwnThreads` | `[]OwnThread` | strengthened by where the main thread can be while a thread still has to read: it waits for exactly that thread |
| `MonitorProofs!DestroyedLate` | `[]DestroyedWhenDone` | from the same invariant: the join is of the thread that was attached |
| `MonitorProofs!NoSignalMissed` | `[]SignalToCome` | strengthened by `SInv`, which needs no bound on spurious wakeups |
| `MonitorProofs!NeverAllStuck` | `[]NeverStuck` | from `SInv`: whoever holds the mutex can go on, and who waits has a signal to come |

Why the invariants are what they are.

- *Lists.* `LinksAreLive` and `CountIsLength` say nothing of a node that is allocated and not linked yet, nor of where `prec`
  and `seek` stand, so neither survives the store that links or unlinks. `ListInv` adds both: `Linked` is a chain of
  distinct nodes (`Chain`); the heap is the chain and at most the node `seek` is at (`Heap`); a new node is complete before it is
  linked (`NewNode`); the loop of an addition has passed only smaller periods, that of a removal only nodes it must skip (`Placing`,
  `Seeking`). The last two are what makes the place of an insertion, and the node a removal takes, the one `TaskList`
  computes (`Min` of a set of positions). That the walk of the iterator finds the chain (`WalkIs`) is an induction on its
  length.
- *Scheduler.* `PrioInPool` alone does not survive a refresh, which computes the priority of an SSRM task from its place among the SSRM
  tasks of its CPU. `PoolHolds` says that there are never more of these than the pool has priorities: the test of an admission
  counts the list it sorts, and no other step adds to it. `RefreshRepairsPrios` speaks of every step after which the
  last reply is that of a refresh, so turns of a purge count as well; `RefreshInv` keeps the order of the priorities while tasks are taken out.
  The purge has a closed form (`DeleteAll`) because no turn takes a task that belongs to it: the first stranger's task and the
  client's tasks behind it stay to the end, whatever the turns before have removed. `SsrmDeclares` is about scores: RR has
  room wherever SSRM has and always scores 1, so SSRM wins only what declares budget and period, and EDF, which scores
  as much as SSRM when a deadline is declared too, comes first. `OrphansAreDropped` rests on `StepCases` and `KernelActions`, which
  set attaches apart: no other step raises a policy or writes a thread id.
- *Carrier.* `OnlyTheGonePurged` alone is not inductive: an update could find a CONNECTED client whose `last_n` is 0, which
  `ViewIsTrue` excludes (a client that is marked lost, or CONNECTED with nothing left in `last_n`, or that failed to be read, has gone).
  For `PurgedOnce`, `PurgeIsFinal` adds that nothing of a client that is marked lost or was purged can reach the daemon any
  more (`Settled`): its queue is empty, its error has been read, and the next read overwrites what the carrier remembers.
  For `NoRequestSkipped`, the requests on the wire are numbered without a gap behind the last one taken
  (`Bookkeeping`), and the replies on the wire and the one still to be sent follow each other by 0 or 1 (`Chained`): a replay repeats,
  nothing skips. For `RepliesMatchAlone`, a client alone has at most one thing under way, counting request, reply and turn
  (`OneAtATime`).
  For `NoCallForgotten`, `CallInv` adds what `select` listens to: every accepted client whose connection is open, and every client
  that is connected or remembered in `last_n`. A client is accepted before any of a higher descriptor, so a waiting one that was
  not accepted yet makes the listening socket ready. None of it depends on how much the `memset` clears.
- *Estimates.* `ClockInv` ties the words of the segment to the clocks they were computed from, modulo 2^32. `Slept` says that
  a thread at the check of its sleep has reached its instant, unless the kernel refused the timespec. `Torn` compares the word the daemon
  already has with the pair it will read. `SoundLedger` says when the estimated period is above 0. `Bounded` states the two bounds of `PeriodTracks` for every number
  that is above, or below, all gaps so far, not for the longest and the shortest alone: these change with the next gap, while what
  bounds all gaps has bounded the earlier ones. `Extremes` provides the two at the end.
- *Segments.* `SegInv` says that a process holds a descriptor of the inode behind each key of its sets, that two processes hold no
  inode in common, that no two sets share one, and that a segment a set has seen keeps the set's key.
- *Monitor.* Nothing in `OwnThread` keeps the main thread from filling the structure while the last thread has yet to read it.
  That a signal is never missed is another matter: `SInv` says that whoever copies or signals holds the mutex, and that the thread
  the main thread waits for has not signalled yet. A spurious wakeup does not disturb it, so `NoSignalMissed` and `NeverAllStuck` need no bound
  on them, while `OwnThread` and `DestroyedWhenDone` speak of programs without one.

Why the hypotheses are needed.

- `AllDeclared` (every client gives budget and period): with estimates a single refresh moves the ledgers apart.
- `MemsetFallsShort` (`MaxFd < IntSize * (Sock + 1)`: with a listening socket 3, descriptors below 16): `MCCarrierIdle` shows
  what happens beyond. `PipeKills` (SIGPIPE at its default): without it a failed `send` makes a purged client CONNECTED
  again, as section 4 says.
- `PeakFits`, `GapsFit`: the words have 32 bits of milliseconds. An activation, or a gap between two, of a whole lap (49 days) is
  measured as its remainder. `MCEstimates` stays within its lap.

Loops are written as recursive functions, so that the proofs can use their equations once a solution is known to exist:
`PrefixSum` for sums over a list (`PrefixSumEquations`; what adding, removing and replacing an element do to the sum follows), `Chosen`
and `SsrmSorted` for lists built element by element (`StepsExist`, `ChosenFacts`, `SsrmSortedFacts`), `Halved` for repeated
halves (`HalvedFacts`), `Merge` and `MergeSort` on places of the lists (`MergeOfTwo`, `SortLeavesOne`). Inductions on numbers go through a least counterexample (`SetInduction`, from the well-foundedness of `<`).

No run repeats what is proved for every instance as a step to something else: the type invariants, `ListInv`, `ClockInv`, the order of
the list (`NewestFirst`, `PlacementStable`), `DestroyHits`, `PurgeLeavesDeleteAll`, `SortLeavesTheLeast`, and those of the table below
but for `NoCallForgotten`, `OnlyFullSocketsBlock` and `NeverStuck`.

Only model-checked is what holds under fairness (`DeleteTerminates`, `CallsReturn`, `GoneArePurged`, `CallsEnd`, `ProgramEnds`),
which is out of the prover's reach. What each of them rests on besides fairness is safety, and that part is proved for every instance:

| Liveness, checked | Safety, proved |
|---|---|
| `DeleteTerminates`: a purge ends | `PurgeShrinks`: each turn but the last takes a task off the list |
| `CallsEnd`: a list operation ends | `CallsShrink`: each store leaves fewer to do |
| `ProgramEnds`: the test program ends | `SignalToCome`, `NeverStuck`: no signal is missed, somebody can go on |
| `CallsReturn`: a call returns | `NoCallForgotten`, `OnlyFullSocketsBlock`: the call is on its way, and the daemon or a client can take a step |
| `GoneArePurged`: a client that goes is purged | `ConnectedIsHeard`: its socket is listened to until then |

`MainCan`, `ThreadCan`, `DaemonCan` and `RepliedCan` say in words of the state when a process can take a step, because `ENABLED` is
out of reach too.

## 7. What is not modelled, and why

- Rounding of floats. Utilizations are integers in `1/Scale` and the instances use exact quotients; infinities and NaN
  are modelled in `Estimates` only.
- `send` failing for lack of kernel memory, requests that arrive in pieces (a request is far smaller than a socket's
  buffer and is sent in one call), and clients that do not use the library.
- A failed `accept`, more descriptors than `FD_SETSIZE`.
- How `req_connection` ties a descriptor to the pid the client gives, and what each library call makes of each reply type:
  `Scheduler` takes the victim of a purge from all clients, and `Carrier` compares numbers of requests.
- Operations nothing calls: `time_add_us`, the microsecond conversions, the interval timer, `list_int_remove` and its kin, the getters
  and setters of the task record.
- Logging, the parsing of the test program's configuration, the memory barriers of `atomic.h` (every access of a word is
  atomic on the machines the code is written for), `trash/`.
