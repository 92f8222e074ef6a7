----------------------------- MODULE Scheduler -----------------------------
(***************************************************************************)
(* The reservation scheduler of the daemon (daemon/lib/rts_scheduler.c)    *)
(* with the request handlers that call it (the req_* functions of          *)
(* daemon/lib/rts_daemon.c): admission, attach, detach, destroy, refresh,  *)
(* capacity queries, and the purge of a lost client.                       *)
(*                                                                         *)
(* The daemon is one process with one thread, so a handler is one action;  *)
(* the purge is one action per turn of its loop.  What comes from outside  *)
(* is chosen with \E: the request and its arguments, the estimates a       *)
(* client keeps in shared memory, the outcome of the system calls, and the *)
(* answer of workload_analysis.                                            *)
(***************************************************************************)
EXTENDS Workload

CONSTANTS SysUtil,    \* sys_rt_free_utils of every CPU, in 1/Scale
          Pids,       \* the process ids clients register with
          Tids,       \* the thread ids clients attach, 0 among them or not
          Params,     \* the parameters clients ask a reservation with
          Estimates,  \* the values an est_param segment may hold
          MaxRsv      \* bound: how many creations are explored

ASSUME SchedulerAssumption ==
    /\ SysUtil \in 0 .. Scale
    /\ Tids \subseteq Nat
    /\ Params \subseteq [budget : Nat, period : Nat, deadline : Nat, priority : Nat]
    /\ Estimates \subseteq [wcet : Nat, period : Nat \ {0}]
    /\ MaxRsv \in Nat

NoPid == "no pid"

(* sched_setaffinity and friends take 0 for the calling thread: the daemon. *)
Daemon == 0
Threads == Tids \cup {Daemon}

(* An affinity is a CPU or all of them.                                     *)
AllCpus == -1

VARIABLES next_rsv_id,
          tasks,   \* the taskset
          free,    \* sys_rt_curr_free_utils
          used,    \* util_used_percpu of every plugin
          kernel,  \* affinity, policy and priority the kernel has for each thread
          pc,      \* "loop": between requests; "delete": in rts_scheduler_delete;
                   \* "spin": in a loop of workload_analysis that does not end
          victim,  \* the ppid rts_scheduler_delete runs for
          reply    \* the last struct rts_reply built

book == <<next_rsv_id, tasks, free, used>>
vars == <<next_rsv_id, tasks, free, used, kernel, pc, victim, reply>>

(* A reply whose payload the handler does not set carries stack contents    *)
(* nobody reads; 0 stands for them.                                         *)
Reply(type) == [rep_type |-> type, payload |-> 0]
ReplyWith(type, n) == [rep_type |-> type, payload |-> n]

Untouched == [affinity |-> AllCpus, policy |-> "OTHER", prio |-> 0]

Init ==
    /\ next_rsv_id = 0
    /\ tasks = <<>>
    /\ free = [c \in CPUs |-> SysUtil]
    /\ used = [p \in Plugins |-> [c \in CPUs |-> 0]]
    /\ kernel = [th \in Threads |-> Untouched]
    /\ pc = "loop"
    /\ victim = NoPid
    /\ reply = Reply("NONE")

----------------------------------------------------------------------------
(* rts_task_init and the assignments of rts_scheduler_rsv_create.           *)
NewTask(par, ppid, est) ==
    LET t == [id |-> next_rsv_id + 1, ptid |-> ppid, tid |-> 0, cpu |-> 0,
              util |-> 0, wcet |-> par.budget, period |-> par.period,
              deadline |-> par.deadline, priority |-> par.priority,
              schedprio |-> 0, pluginid |-> 0]
    IN  [t EXCEPT !.util = TaskUtil(t, est)]

(* A seeded fault of GiveBack: the time goes back to the first CPU.         *)
GiveBackFirstCpu(t) ==
    /\ used' = [used EXCEPT ![t.pluginid][t.cpu] = @ - t.util]
    /\ free' = [free EXCEPT ![0] = @ + t.util]

(* t_remove_from_utils and rts_scheduler_remove_utils for one task.         *)
GiveBack(t) ==
    /\ used' = [used EXCEPT ![t.pluginid][t.cpu] = @ - t.util]
    /\ free' = [free EXCEPT ![t.cpu] = @ + t.util]

(* The assignment half of rts_scheduler_assign: task t goes to CPU c under  *)
(* plugin p.  Only its own priority is computed.                            *)
Assign(t, p, c) ==
    LET placed == [t EXCEPT !.cpu = c, !.pluginid = p]
        ts     == AddTop(tasks, placed)
    IN  /\ tasks' = [ts EXCEPT ![1].schedprio = CalcPrio(ts, placed)]
        /\ used' = [used EXCEPT ![p][c] = @ + t.util]
        /\ free' = [free EXCEPT ![c] = @ - t.util]

(* A seeded fault of RsvCreate: the CPU is what the loop over the CPUs left *)
(* in its counter.                                                          *)
RsvCreateCounterCpu(par, ppid, est, wa) ==
    LET t    == NewTask(par, ppid, est)
        best == BestPlugins(tasks, t, free, wa)
    IN  /\ pc = "loop" /\ next_rsv_id < MaxRsv
        /\ next_rsv_id' = next_rsv_id + 1
        /\ best # {} /\ Assign(t, Min(best), cpunum)
        /\ reply' = ReplyWith("RSV_CREATE_OK", next_rsv_id')
        /\ UNCHANGED <<kernel, pc, victim>>

(* req_rsv_create, rts_scheduler_rsv_create.  The id is spent whatever      *)
(* comes of the request.                                                    *)
RsvCreate(par, ppid, est, wa) ==
    LET t    == NewTask(par, ppid, est)
        best == BestPlugins(tasks, t, free, wa)
    IN  /\ pc = "loop" /\ next_rsv_id < MaxRsv
        /\ next_rsv_id' = next_rsv_id + 1
        /\ best # {}
        /\ LET p == Min(best) IN Assign(t, p, Min(TestCpus(p, tasks, t, free, wa)))
        /\ reply' = ReplyWith("RSV_CREATE_OK", next_rsv_id')
        /\ UNCHANGED <<kernel, pc, victim>>

(* req_rsv_create when the segment cannot be attached, or no plugin takes   *)
(* the task.                                                                *)
RsvCreateFails ==
    /\ pc = "loop" /\ next_rsv_id < MaxRsv
    /\ next_rsv_id' = next_rsv_id + 1
    /\ reply' = ReplyWith("RSV_CREATE_ERR", -1)
    /\ UNCHANGED <<tasks, free, used, kernel, pc, victim>>

(* workload_analysis over two or more tasks steps by a period read from a   *)
(* list node; if that is 0 the loop of testing_set_fp does not end.         *)
RsvCreateSpins(par, ppid, est) ==
    LET t == NewTask(par, ppid, est)
    IN  /\ pc = "loop" /\ next_rsv_id < MaxRsv
        /\ \E c \in CPUs : SsrmReaches(tasks, t, free, c) /\ SsrmTasks(tasks, c) # <<>>
        /\ next_rsv_id' = next_rsv_id + 1
        /\ pc' = "spin"
        /\ UNCHANGED <<tasks, free, used, kernel, victim, reply>>

Spin == pc = "spin" /\ UNCHANGED vars

----------------------------------------------------------------------------
(* A seeded fault of SetThread: the policy is set before the affinity.      *)
SetThreadPolicyFirst(th, affinity, policy, prio, done) ==
    kernel' = CASE done = 0 -> kernel
                [] done = 1 -> [kernel EXCEPT ![th].policy = policy, ![th].prio = prio]
                [] done = 2 -> [kernel EXCEPT ![th] = [affinity |-> affinity,
                                                       policy |-> policy, prio |-> prio]]

(* sched_setaffinity, then sched_setattr or sched_setscheduler: `done` says *)
(* how many of the two calls succeed.  The first may leave a trace when the *)
(* second fails.                                                            *)
SetThread(th, affinity, policy, prio, done) ==
    kernel' = CASE done = 0 -> kernel
                [] done = 1 -> [kernel EXCEPT ![th].affinity = affinity]
                [] done = 2 -> [kernel EXCEPT ![th] = [affinity |-> affinity,
                                                       policy |-> policy, prio |-> prio]]

Policy(p) == CASE p = EDF -> "DEADLINE"
               [] p \in {SSRM, FP} -> "FIFO"
               [] p = RR -> "RR"

(* t_schedule of the task's plugin.                                         *)
Schedule(t, done) ==
    SetThread(t.tid, t.cpu, Policy(t.pluginid),
              IF t.pluginid = EDF THEN 0 ELSE t.schedprio, done)

(* t_deschedule, the same in every plugin.                                  *)
Deschedule(t, done) == SetThread(t.tid, AllCpus, "OTHER", 0, done)

(* A seeded fault of RsvAttach: the plugin is asked before the thread id is *)
(* recorded.                                                                *)
RsvAttachOldTid(rsvid, th, done) ==
    LET k == IterIndex(tasks, rsvid)
    IN  /\ pc = "loop" /\ k # 0
        /\ tasks' = [tasks EXCEPT ![k].tid = th]
        /\ Schedule(tasks[k], done)
        /\ reply' = Reply(IF done = 2 THEN "RSV_ATTACH_OK" ELSE "RSV_ATTACH_ERR")
        /\ UNCHANGED <<next_rsv_id, free, used, pc, victim>>

(* req_rsv_attach, rts_scheduler_rsv_attach: the thread id is recorded      *)
(* before the plugin is asked and stays recorded when it fails.             *)
RsvAttach(rsvid, th, done) ==
    LET k == IterIndex(tasks, rsvid)
    IN  /\ pc = "loop" /\ k # 0
        /\ tasks' = [tasks EXCEPT ![k].tid = th]
        /\ Schedule(tasks'[k], done)
        /\ reply' = Reply(IF done = 2 THEN "RSV_ATTACH_OK" ELSE "RSV_ATTACH_ERR")
        /\ UNCHANGED <<next_rsv_id, free, used, pc, victim>>

(* A seeded fault of RsvDetach: the thread id is cleared, whatever the      *)
(* system calls answer.                                                     *)
RsvDetachForgets(rsvid, done) ==
    LET k == IterIndex(tasks, rsvid)
    IN  /\ pc = "loop" /\ k # 0
        /\ Deschedule(tasks[k], done)
        /\ tasks' = [tasks EXCEPT ![k].tid = 0]
        /\ reply' = Reply(IF done = 2 THEN "RSV_DETACH_OK" ELSE "RSV_DETACH_ERR")
        /\ UNCHANGED <<next_rsv_id, free, used, pc, victim>>

(* req_rsv_detach, rts_scheduler_rsv_detach: the thread of the reservation  *)
(* loses its policy; a reservation nothing was attached to names thread 0.  *)
RsvDetach(rsvid, done) ==
    LET k == IterIndex(tasks, rsvid)
    IN  /\ pc = "loop" /\ k # 0
        /\ Deschedule(tasks[k], done)
        /\ reply' = Reply(IF done = 2 THEN "RSV_DETACH_OK" ELSE "RSV_DETACH_ERR")
        /\ UNCHANGED <<book, pc, victim>>

(* Attach and detach of an id no reservation has.                           *)
NoSuchRsv(rsvid, type) ==
    /\ pc = "loop" /\ IterIndex(tasks, rsvid) = 0
    /\ reply' = Reply(type)
    /\ UNCHANGED <<book, kernel, pc, victim>>

(* A seeded fault of RsvDestroy: the plugin's share is not given back.      *)
RsvDestroyKeepsShare(rsvid) ==
    LET k == RemoveIndex(tasks, IndexesByRsvid(tasks, rsvid))
    IN  /\ pc = "loop" /\ k # 0
        /\ tasks' = RemoveAt(tasks, k)
        /\ free' = [free EXCEPT ![tasks[k].cpu] = @ + tasks[k].util]
        /\ reply' = Reply("RSV_DESTROY_OK")
        /\ UNCHANGED <<next_rsv_id, used, kernel, pc, victim>>

(* req_rsv_destroy, rts_scheduler_rsv_destroy: the task list_ptr_remove     *)
(* hands out is forgotten; its thread is not told.                          *)
RsvDestroy(rsvid) ==
    LET k == RemoveIndex(tasks, IndexesByRsvid(tasks, rsvid))
    IN  /\ pc = "loop" /\ k # 0
        /\ tasks' = RemoveAt(tasks, k)
        /\ GiveBack(tasks[k])
        /\ reply' = Reply("RSV_DESTROY_OK")
        /\ UNCHANGED <<next_rsv_id, kernel, pc, victim>>

RsvDestroyFails(rsvid) ==
    /\ pc = "loop" /\ RemoveIndex(tasks, IndexesByRsvid(tasks, rsvid)) = 0
    /\ reply' = Reply("RSV_DESTROY_ERR")
    /\ UNCHANGED <<book, kernel, pc, victim>>

----------------------------------------------------------------------------
(* A seeded fault of RefreshSys: the utilizations are summed again, the     *)
(* priorities are forgotten.                                                *)
RefreshSysNoPrios ==
    /\ pc = "loop"
    /\ used' = [p \in Plugins |-> [c \in CPUs |-> UtilSum(tasks, p, c)]]
    /\ reply' = Reply("REFRESH_SYS_OK")
    /\ UNCHANGED <<next_rsv_id, tasks, free, kernel, pc, victim>>

(* req_refresh_sys, rts_scheduler_refresh_utils and _refresh_prios.  Every  *)
(* plugin sums the utilizations its tasks already have and answers -1 if    *)
(* one of its CPUs is above 1; subtracting those answers makes cpus_overl   *)
(* a count that is never negative.                                          *)
RefreshSys ==
    LET overl == Cardinality({p \in Plugins : \E c \in CPUs : used'[p][c] > Scale})
    IN  /\ pc = "loop"
        /\ used' = [p \in Plugins |-> [c \in CPUs |-> UtilSum(tasks, p, c)]]
        /\ tasks' = RecalcPrios(tasks)
        /\ reply' = ReplyWith(IF overl < 0 THEN "REFRESH_SYS_OVL" ELSE "REFRESH_SYS_OK",
                              -overl)
        /\ UNCHANGED <<next_rsv_id, free, kernel, pc, victim>>

(* A seeded fault of RefreshSingle: the old utilization is not taken out.   *)
RefreshSingleAddsOnly(rsvid, est) ==
    LET k  == SearchIndex(tasks, IndexesByRsvid(tasks, rsvid))
        t  == [tasks[k] EXCEPT !.util = TaskUtil(tasks[k], est)]
    IN  /\ pc = "loop" /\ k # 0
        /\ used' = [used EXCEPT ![t.pluginid][t.cpu] = @ + t.util]
        /\ tasks' = [tasks EXCEPT ![k] = t]
        /\ reply' = Reply("REFRESH_SINGLE_OK")
        /\ UNCHANGED <<next_rsv_id, free, kernel, pc, victim>>

(* req_refresh_single, t_recalc_util, then t_calc_prio: the task the search *)
(* hands out is evaluated again.  The plugin's share follows its new        *)
(* utilization, sys_rt_curr_free_utils does not.                            *)
RefreshSingle(rsvid, est) ==
    LET k  == SearchIndex(tasks, IndexesByRsvid(tasks, rsvid))
        t  == [tasks[k] EXCEPT !.util = TaskUtil(tasks[k], est)]
        ts == [tasks EXCEPT ![k] = t]
    IN  /\ pc = "loop" /\ k # 0
        /\ used' = [used EXCEPT ![t.pluginid][t.cpu] = @ - tasks[k].util + t.util]
        /\ tasks' = [ts EXCEPT ![k].schedprio = CalcPrio(ts, t)]
        /\ reply' = Reply(IF used'[t.pluginid][t.cpu] > Scale
                              THEN "REFRESH_SINGLE_OVL" ELSE "REFRESH_SINGLE_OK")
        /\ UNCHANGED <<next_rsv_id, free, kernel, pc, victim>>

RefreshSingleFails(rsvid) ==
    /\ pc = "loop" /\ SearchIndex(tasks, IndexesByRsvid(tasks, rsvid)) = 0
    /\ reply' = Reply("REFRESH_SINGLE_ERR")
    /\ UNCHANGED <<book, kernel, pc, victim>>

(* rts_scheduler_get_remaining_util, before it is divided by cpunum.        *)
RemainingUtil == PrefixSum([n \in Nat |-> IF n \in 1 .. cpunum THEN free[n - 1] ELSE 0])[cpunum]

(* req_cap_query: both answers are averages over the CPUs; the sum is kept. *)
CapQuery ==
    /\ pc = "loop"
    /\ \/ reply' = ReplyWith("CAP_QUERY_OK", cpunum * SysUtil)
       \/ reply' = ReplyWith("CAP_QUERY_OK", RemainingUtil)
       \/ reply' = Reply("CAP_QUERY_ERR")
    /\ UNCHANGED <<book, kernel, pc, victim>>

----------------------------------------------------------------------------
(* rts_daemon_check_for_fail on a lost client: rts_scheduler_delete begins. *)
Delete(ppid) ==
    /\ pc = "loop"
    /\ pc' = "delete" /\ victim' = ppid
    /\ UNCHANGED <<book, kernel, reply>>

(* One turn of the loop of rts_scheduler_delete that removes a task.        *)
DeleteTurn ==
    LET k == RemoveIndex(tasks, IndexesByPpid(tasks, victim))
    IN  /\ pc = "delete" /\ k # 0
        /\ tasks' = RemoveAt(tasks, k)
        /\ GiveBack(tasks[k])
        /\ UNCHANGED <<next_rsv_id, kernel, pc, victim, reply>>

(* A seeded fault of DeleteEnds: the loop waits for an empty list.          *)
DeleteEndsEmpty ==
    /\ pc = "delete" /\ tasks = <<>>
    /\ pc' = "loop" /\ victim' = NoPid
    /\ UNCHANGED <<book, kernel, reply>>

(* The turn that gets NULL: break.                                          *)
DeleteEnds ==
    /\ pc = "delete" /\ RemoveIndex(tasks, IndexesByPpid(tasks, victim)) = 0
    /\ pc' = "loop" /\ victim' = NoPid
    /\ UNCHANGED <<book, kernel, reply>>

Next ==
    \/ \E par \in Params, ppid \in Pids, est \in Estimates :
          \/ \E wa \in [CPUs -> BOOLEAN] : RsvCreate(par, ppid, est, wa)
          \/ RsvCreateSpins(par, ppid, est)
    \/ RsvCreateFails
    \/ Spin
    \/ \E rsvid \in 1 .. MaxRsv :
          \/ \E done \in 0 .. 2 :
                \/ \E th \in Tids : RsvAttach(rsvid, th, done)
                \/ RsvDetach(rsvid, done)
          \/ \E type \in {"RSV_ATTACH_ERR", "RSV_DETACH_ERR"} : NoSuchRsv(rsvid, type)
          \/ RsvDestroy(rsvid) \/ RsvDestroyFails(rsvid)
          \/ \E est \in Estimates : RefreshSingle(rsvid, est)
          \/ RefreshSingleFails(rsvid)
    \/ RefreshSys
    \/ CapQuery
    \/ \E ppid \in Pids : Delete(ppid)
    \/ DeleteTurn
    \/ DeleteEnds

(* A loop of a running process goes on by itself; requests need not come.   *)
Fairness == WF_vars(DeleteTurn \/ DeleteEnds)

Spec == Init /\ [][Next]_vars /\ Fairness

----------------------------------------------------------------------------
(* TYPES *)

Task == [id : Nat, ptid : Pids, tid : Threads, cpu : CPUs, util : Nat, wcet : Nat,
         period : Nat, deadline : Nat, priority : Nat, schedprio : Int,
         pluginid : Plugins]

RepTypes == {"NONE", "RSV_CREATE_OK", "RSV_CREATE_ERR", "RSV_ATTACH_OK",
             "RSV_ATTACH_ERR", "RSV_DETACH_OK", "RSV_DETACH_ERR", "RSV_DESTROY_OK",
             "RSV_DESTROY_ERR", "REFRESH_SYS_OK", "REFRESH_SYS_OVL",
             "REFRESH_SINGLE_OK", "REFRESH_SINGLE_OVL", "REFRESH_SINGLE_ERR",
             "CAP_QUERY_OK", "CAP_QUERY_ERR"}

(* The state of the scheduler has the types of struct rts_scheduler,        *)
(* struct rts_task and struct rts_reply.                                    *)
TypeOK ==
    /\ next_rsv_id \in Nat
    /\ tasks \in Seq(Task)
    /\ free \in [CPUs -> Int]
    /\ used \in [Plugins -> [CPUs -> Int]]
    /\ kernel \in [Threads -> [affinity : CPUs \cup {AllCpus},
                               policy : {"OTHER", "DEADLINE", "FIFO", "RR"}, prio : Int]]
    /\ pc \in {"loop", "delete", "spin"}
    /\ victim \in Pids \cup {NoPid}
    /\ reply \in [rep_type : RepTypes, payload : Int]

----------------------------------------------------------------------------
(* SAFETY *)

(* The utilization of CPU c that the plugins account for.                   *)
Accounted(c) == used[EDF][c] + used[SSRM][c] + used[FP][c] + used[RR][c]

(* Through every admission, destroy, refresh and purge, what each plugin    *)
(* has in util_used_percpu is the sum of what its tasks have in util        *)
(* (t_add_to_utils, t_remove_from_utils, t_recalc_util).                    *)
PluginAccounting ==
    \A p \in Plugins, c \in CPUs : used[p][c] = UtilSum(tasks, p, c)

(* rts_scheduler_assign never takes more of a CPU than it has left: no      *)
(* sequence of requests drives sys_rt_curr_free_utils below 0.              *)
NeverOvercommitted == \A c \in CPUs : free[c] >= 0

(* When every client declares its parameters, the two ledgers of the daemon *)
(* agree: what the plugins account for and what sys_rt_curr_free_utils has  *)
(* left add up to sys_rt_free_utils, whatever is destroyed or refreshed.    *)
LedgersAgree == \A c \in CPUs : free[c] + Accounted(c) = SysUtil

(* When every client declares its parameters, the tasks admitted to a CPU   *)
(* never ask for more than sys_rt_free_utils.                               *)
NoCpuOverloaded ==
    \A c \in CPUs : UtilSum(tasks, EDF, c) + UtilSum(tasks, SSRM, c)
                  + UtilSum(tasks, FP, c) + UtilSum(tasks, RR, c) <= SysUtil

(* Removals from anywhere in the list leave the reservations ordered from   *)
(* the newest to the oldest: no two have the same id, and the iterator      *)
(* loops of attach and detach find at most one.                             *)
NewestFirst ==
    /\ \A i, j \in 1 .. Len(tasks) : i < j => tasks[i].id > tasks[j].id
    /\ \A i \in 1 .. Len(tasks) : tasks[i].id <= next_rsv_id

(* A priority, however stale, stays in the pool schedconfig.cfg gives the   *)
(* plugin; for SSRM this rests on the pool test of t_test.                  *)
PrioInPool ==
    \A i \in 1 .. Len(tasks) :
        tasks[i].pluginid # EDF =>
            tasks[i].schedprio \in PrioMin[tasks[i].pluginid] .. PrioMax[tasks[i].pluginid]

(* EDF wins every tie with SSRM, so what SSRM gets has no deadline; its     *)
(* only test point is 0, and workload_analysis, if it read the tasks of the *)
(* list, would refuse every list SSRM has admitted.  That SSRM admits       *)
(* anything rests on the nodes it reads in their place.                     *)
SsrmAdmitsByMisreading ==
    \A c \in CPUs :
        /\ \A i \in 1 .. Len(tasks) : tasks[i].pluginid = SSRM => tasks[i].deadline = 0
        /\ ~WorkloadAnalysis(SsrmTasks(tasks, c))

----------------------------------------------------------------------------
(* WHAT A STEP MAY NEVER DO *)

(* The two ledgers move together: only a single refresh, which reads new    *)
(* estimates, changes what the plugins account for and CPU time left add up *)
(* to.                                                                      *)
LedgersMoveTogether ==
    [][\A c \in CPUs : (free[c] + Accounted(c))' # free[c] + Accounted(c)
          => /\ pc = "loop"
             /\ reply'.rep_type \in {"REFRESH_SINGLE_OK", "REFRESH_SINGLE_OVL"}]_vars

(* A reservation keeps its owner, CPU, plugin and place in the list for as  *)
(* long as it lives, and one step removes at most one.                      *)
PlacementStable ==
    [][/\ Len(tasks') >= Len(tasks) - 1
       /\ \A i \in 1 .. Len(tasks), j \in 1 .. Len(tasks') :
             tasks[i].id = tasks'[j].id =>
                /\ tasks[i].ptid = tasks'[j].ptid
                /\ tasks[i].cpu = tasks'[j].cpu
                /\ tasks[i].pluginid = tasks'[j].pluginid
                /\ i - j \in -1 .. 1]_vars

(* Of two SSRM tasks on one CPU, the one with the shorter period has the    *)
(* higher priority, and no two share one; of two FP tasks, the one with the *)
(* higher user priority is never below the other.                           *)
PriosConsistent(ts) ==
    \A i, j \in 1 .. Len(ts) :
        i # j /\ ts[i].pluginid = ts[j].pluginid =>
            CASE ts[i].pluginid = SSRM /\ ts[i].cpu = ts[j].cpu ->
                    /\ ts[i].schedprio # ts[j].schedprio
                    /\ ts[i].period < ts[j].period => ts[i].schedprio > ts[j].schedprio
              [] ts[i].pluginid \in {FP, RR} ->
                    ts[i].priority >= ts[j].priority => ts[i].schedprio >= ts[j].schedprio
              [] OTHER -> TRUE

(* A system refresh repairs the priorities that admissions and destroys     *)
(* left stale, whatever they were.                                          *)
RefreshRepairsPrios ==
    [][pc = "loop" /\ reply'.rep_type \in {"REFRESH_SYS_OK", "REFRESH_SYS_OVL"}
          => PriosConsistent(tasks')]_vars

(* Detaching a reservation nothing was attached to applies to thread 0, the *)
(* daemon; as long as no client attaches thread 0, the daemon's own policy  *)
(* and affinity survive every attach, detach, destroy and purge.            *)
DaemonKeepsPolicy == kernel[Daemon] = Untouched

(* A thread that has a real-time policy but is free to leave its CPU, where *)
(* no admission test counted it, is the work of a detach that failed half   *)
(* way: an attach pins first, and nothing else sets threads free.           *)
Stray(th) == kernel[th].policy # "OTHER" /\ kernel[th].affinity = AllCpus
StrayOnlyByFailedDetach ==
    [][\A th \in Threads : Stray(th)' /\ ~Stray(th)
          => reply'.rep_type = "RSV_DETACH_ERR"]_vars

(* A thread with a real-time policy that no reservation answers for lost    *)
(* its own: to a destroy or a purge, which do not tell it, or to another    *)
(* thread that was attached in its place.  No refresh, admission or failed  *)
(* detach makes a thread one.                                               *)
Orphan(th) == /\ kernel[th].policy # "OTHER"
              /\ \A i \in 1 .. Len(tasks) : tasks[i].tid # th
OrphanLostItsReservation ==
    [][\A th \in Threads : Orphan(th)' /\ ~Orphan(th) =>
          \E i \in 1 .. Len(tasks) :
             /\ tasks[i].tid = th
             /\ \/ \A j \in 1 .. Len(tasks') : tasks'[j].id # tasks[i].id
                \/ reply'.rep_type \in {"RSV_ATTACH_OK", "RSV_ATTACH_ERR"}]_vars

(* A destroy that is answered OK ends the reservation it names only when    *)
(* that is the newest; if it is another, it stays and one that was not      *)
(* named goes (rts_scheduler_rsv_destroy, list_ptr_remove).                 *)
DestroyHits ==
    [][\A rsvid \in 1 .. MaxRsv : RsvDestroy(rsvid) =>
          (IterIndex(tasks', rsvid) = 0 <=> IterIndex(tasks, rsvid) \in {0, 1})]_vars

(* What the purge of a client leaves is settled by the list it finds: no    *)
(* turn of the loop of rts_scheduler_delete changes it, and the loop ends   *)
(* when it is all that is left.  It is not what the purge is for            *)
(* (rts_daemon.c:236, "Its reservation will be destroyed."): the first      *)
(* stranger's task shields the client's tasks behind it.                    *)
PurgeLeavesDeleteAll ==
    [][/\ DeleteTurn => DeleteAll(tasks', victim) = DeleteAll(tasks, victim)
       /\ DeleteEnds => tasks = DeleteAll(tasks, victim)]_vars

(* The scheduler, with its list, two ledgers, refreshes and purges, keeps   *)
(* the promise of the module Admission, whatever the estimates do.          *)
Grants == {[id |-> tasks[i].id, ptid |-> tasks[i].ptid, cpu |-> tasks[i].cpu,
            pluginid |-> tasks[i].pluginid] : i \in 1 .. Len(tasks)}
A == INSTANCE Admission WITH granted <- Grants, last <- next_rsv_id
ImplementsAdmission == A!Spec

----------------------------------------------------------------------------
(* LIVENESS *)

(* The purge of a lost client ends: list_ptr_remove answers NULL at last,   *)
(* although it removes tasks the purge is not for.                          *)
DeleteTerminates == (pc = "delete") ~> (pc = "loop")

----------------------------------------------------------------------------
(* WHAT THE REPOSITORY SAYS OF THE HANDLERS *)

(* rts_daemon.c:195, "Received RSV_DESTROY REQ for res: %d": a destroy that *)
(* is answered OK ends the reservation the request names.                   *)
DestroyEndsTheNamed ==
    [][\A rsvid \in 1 .. MaxRsv :
          RsvDestroy(rsvid) => IterIndex(tasks', rsvid) = 0]_vars
=============================================================================
