------------------------------ MODULE Plugins ------------------------------
(***************************************************************************)
(* The four scheduling plugins (daemon/plugin/sched_*.c) as functions of   *)
(* the taskset, the free utilization of the CPUs and the candidate task.   *)
(*                                                                         *)
(* A utilization is a whole number of 1/Scale, so 1.0f is Scale.  The code *)
(* keeps floats; the instances use budgets and periods whose quotients are *)
(* exact in both.                                                          *)
(***************************************************************************)
EXTENDS TaskSet, FiniteSets

CONSTANTS cpunum,    \* get_nprocs()
          Scale,     \* what 1.0f of utilization is
          PrioMin,   \* schedconfig.cfg: lower end of each plugin's kernel priority pool
          PrioMax    \* schedconfig.cfg: upper end

CPUs == 0 .. cpunum - 1

(* Importance = index in schedconfig.cfg = pluginid.                        *)
EDF == 0
SSRM == 1
FP == 2
RR == 3
Plugins == {EDF, SSRM, FP, RR}

ASSUME PluginAssumption ==
    /\ cpunum \in Nat \ {0}
    /\ Scale \in Nat \ {0}
    /\ PrioMin \in [Plugins -> Nat]
    /\ PrioMax \in [Plugins -> Nat]
    /\ \A p \in Plugins : PrioMin[p] <= PrioMax[p]

----------------------------------------------------------------------------
(* rts_task_update_util: a parameter left at 0 is read from the estimates   *)
(* the client keeps in shared memory.                                       *)
TaskUtil(t, est) ==
    LET wcet   == IF t.wcet # 0 THEN t.wcet ELSE est.wcet
        period == IF t.period # 0 THEN t.period ELSE est.period
    IN  (wcet * Scale) \div period

(* The running sums of a function from Nat to the integers.                 *)
PrefixSum(a) == LET s[n \in Nat] == IF n = 0 THEN 0 ELSE s[n - 1] + a[n]
                IN  s

(* What each task of the list adds to util_used_percpu[c] of plugin p.      *)
Share(ts, p, c) ==
    [i \in Nat |-> IF i \in 1 .. Len(ts) /\ ts[i].pluginid = p /\ ts[i].cpu = c
                   THEN ts[i].util ELSE 0]

(* ts_recalc_utils: util_used_percpu[c] of plugin p, summed from scratch.   *)
UtilSum(ts, p, c) == PrefixSum(Share(ts, p, c))[Len(ts)]

----------------------------------------------------------------------------
(* sort_taskset: the SSRM tasks of one CPU, by period; [n] is what the loop *)
(* has built when n nodes of the taskset are behind it.                     *)
SsrmSorted(ts, c) ==
    LET sorted[n \in 0 .. Len(ts)] ==
            IF n = 0 THEN <<>>
            ELSE IF ts[n].pluginid = SSRM /\ ts[n].cpu = c
            THEN AddSorted(sorted[n - 1], ts[n])
            ELSE sorted[n - 1]
    IN  sorted

SsrmTasks(ts, c) == SsrmSorted(ts, c)[Len(ts)]

(* hyperbolic_bound: the product of wcet/period + 1 is at most 2.           *)
HyperbolicBound(ts) ==
    LET times(x, y) == x * y
        product(f) == FoldLeft(times, 1, f)
    IN  product([i \in DOMAIN ts |-> ts[i].wcet + ts[i].period])
            <= 2 * product([i \in DOMAIN ts |-> ts[i].period])

(* A seeded fault of SsrmReaches: the pool is taken to be one larger.       *)
SsrmReachesPoolPlusOne(ts, t, free, c) ==
    LET ssrm == AddSorted(SsrmTasks(ts, c), t)
    IN  /\ t.util <= free[c]
        /\ Len(ssrm) <= PrioMax[SSRM] - PrioMin[SSRM] + 2
        /\ HyperbolicBound(ssrm)

(* The CPUs on which the SSRM t_test gets as far as workload_analysis.      *)
SsrmReaches(ts, t, free, c) ==
    LET ssrm == AddSorted(SsrmTasks(ts, c), t)
    IN  /\ t.util <= free[c]
        /\ Len(ssrm) <= PrioMax[SSRM] - PrioMin[SSRM] + 1
        /\ HyperbolicBound(ssrm)

(* A seeded fault of TestCpus: RR, the last resort, does not ask for room.  *)
TestCpusRrUnasked(p, ts, t, free, wa) ==
    IF p = SSRM THEN {c \in CPUs : SsrmReaches(ts, t, free, c) /\ wa[c]}
                ELSE {c \in CPUs : p = RR \/ t.util <= free[c]}

(* The CPUs t_test of plugin p would take.  EDF, FP and RR ask for room     *)
(* only.  wa[c] is what workload_analysis answers on CPU c: it reads the    *)
(* list nodes as if they were tasks (list_ptr_get_i_elem returns the        *)
(* address of the node's field), so either answer is possible.              *)
TestCpus(p, ts, t, free, wa) ==
    IF p = SSRM THEN {c \in CPUs : SsrmReaches(ts, t, free, c) /\ wa[c]}
                ELSE {c \in CPUs : t.util <= free[c]}

(* The score t_test returns when a CPU was found, in sixths: got/3 for EDF, *)
(* got/2 for SSRM, 0 or 1 for FP, 1 for RR.                                 *)
Score(p, t) ==
    LET given(x) == IF x # 0 THEN 1 ELSE 0
    IN  CASE p = EDF  -> 2 * (given(t.wcet) + given(t.period) + given(t.deadline))
          [] p = SSRM -> 3 * (given(t.wcet) + given(t.period))
          [] p = FP   -> 6 * given(t.priority)
          [] p = RR   -> 6

TTest(p, ts, t, free, wa) ==
    IF TestCpus(p, ts, t, free, wa) = {} THEN 0 ELSE Score(p, t)

(* rts_scheduler_assign: the first plugin with the strictly best score,     *)
(* provided it is not 0.                                                    *)
BestPlugins(ts, t, free, wa) ==
    {p \in Plugins : /\ TTest(p, ts, t, free, wa) > 0
                     /\ \A q \in Plugins :
                           TTest(q, ts, t, free, wa) <= TTest(p, ts, t, free, wa)}

----------------------------------------------------------------------------
(* get_prio_bound and prio_remap of FP and RR: the user priorities of the   *)
(* plugin's tasks are spread over its pool.                                 *)
PrioRemap(p, ts, prio) ==
    LET user  == {ts[i].priority : i \in {j \in DOMAIN ts : ts[j].pluginid = p}}
        range == Max(user) - Min(user)
    IN  IF range = 0 THEN PrioMin[p]
        ELSE PrioMin[p] + ((PrioMax[p] - PrioMin[p]) * (prio - Min(user))) \div range

(* t_calc_prio of the task's plugin: the schedprio it gives the task.       *)
CalcPrio(ts, t) ==
    CASE t.pluginid = EDF -> t.schedprio
      [] t.pluginid = SSRM ->
            PrioMax[SSRM] + 1 - IterIndex(SsrmTasks(ts, t.cpu), t.id)
      [] OTHER -> PrioRemap(t.pluginid, ts, t.priority)

(* ts_recalc_prios of every plugin: each task gets its schedprio anew.      *)
RecalcPrios(ts) ==
    [i \in 1 .. Len(ts) |-> [ts[i] EXCEPT !.schedprio = CalcPrio(ts, ts[i])]]
=============================================================================
