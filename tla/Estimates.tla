----------------------------- MODULE Estimates -----------------------------
(***************************************************************************)
(* The estimates a client thread keeps of its own period and execution     *)
(* time (rts_rsv_begin, rts_rsv_end) in a segment the daemon reads when it *)
(* evaluates the reservation (rts_task_update_util), and what they do to   *)
(* the daemon's ledger.                                                    *)
(*                                                                         *)
(* The thread is RT_task of the test program with one activation after the *)
(* other.  Each store to the segment is a step, and so is each of the two  *)
(* reads of the daemon.  Durations are chosen from small sets; at most     *)
(* MaxAct activations and MaxOps requests happen.                          *)
(***************************************************************************)
EXTENDS Units, Sequences, FiniteSets

CONSTANTS EstPeriod,  \* MAX_EST_PERIOD, the first estimate of the period
          EstWcet,    \* MAX_EST_WCET
          Scale,      \* what a utilization of 1.0f is
          Configs,    \* the budget, period and deadline the thread may have
          Starts,     \* the instants it may start at
          Skews,      \* how far CLOCK_MONOTONIC may be ahead of MONOTONIC_RAW
          Garbage,    \* what a word of the segment may hold before it is set
          Overheads,  \* processor time of an activation beyond its computation
          Delays,     \* time the thread is kept from running
          MaxAct, MaxOps

ASSUME EstimatesAssumption ==
    /\ {EstPeriod, EstWcet, Scale} \subseteq Nat \ {0}
    /\ Configs \subseteq [budget : Nat, period : Nat, deadline : Nat]
    /\ Garbage \subseteq 0 .. Word - 1 /\ Skews \subseteq Int
    /\ Starts \subseteq Nat /\ Overheads \subseteq Nat /\ Delays \subseteq Nat
    /\ {MaxAct, MaxOps} \subseteq Nat

VARIABLES cfg,                \* the params: budget, period, deadline
          twcet, tperiod,     \* struct rts_thread: t_wcet, t_period
          act,                \* and t_activation_time
          skew,
          now, cpu,           \* MONOTONIC_RAW and the thread's processor time
          mem,                \* the words of the segment
          pc, left, curr,     \* the thread: activations left, t_abs_act_curr
          start,              \* history: the first activation's time,
          last, began,        \* where now and cpu were at the last begin,
          gaps, peak,         \* the gaps between activations, the costliest one
          dpc, dw,            \* the daemon: its place, the wcet it has read
          rsv,                \* whether the taskset holds the reservation
          util, free, used,   \* t->util, sys_rt_curr_free_utils, util_used_percpu
          ops

thread == <<cfg, twcet, tperiod, skew>>
clocks == <<now, cpu>>
history == <<start, last, began, gaps, peak>>
ledger == <<rsv, util, free, used>>
daemon == <<dpc, dw, ledger, ops>>
vars == <<thread, act, clocks, mem, pc, left, curr, history, daemon>>

Larger(a, b) == IF a < b THEN b ELSE a
Positive(a) == Larger(a, 0)
Ms(ns) == ns \div NsPerMs

----------------------------------------------------------------------------
(* FLOATS: the finite ones are whole numbers of 1/Scale. *)

Fin(n) == [kind |-> "finite", val |-> n]
Inf == [kind |-> "inf", val |-> 0]
MinusInf == [kind |-> "-inf", val |-> 0]
NaN == [kind |-> "nan", val |-> 0]
Finite(a) == a.kind = "finite"

Quotient(w, p) ==
    IF p # 0 THEN Fin((w * Scale) \div p) ELSE IF w = 0 THEN NaN ELSE Inf

Minus(a) == CASE Finite(a) -> Fin(-a.val) [] a = Inf -> MinusInf
              [] a = MinusInf -> Inf [] OTHER -> NaN

Plus(a, b) ==
    CASE Finite(a) /\ Finite(b) -> Fin(a.val + b.val)
      [] Finite(a) /\ ~Finite(b) -> b
      [] ~Finite(a) /\ (Finite(b) \/ a = b) -> a
      [] OTHER -> NaN

(* a <= b, which is false when one of them is not a number.                 *)
AtMost(a, b) ==
    \/ Finite(a) /\ Finite(b) /\ a.val <= b.val
    \/ NaN \notin {a, b} /\ (a = MinusInf \/ b = Inf)

----------------------------------------------------------------------------
(* rts_thread_calc_exec and rts_thread_calc_period: what is not configured  *)
(* follows from what is; when nothing is, rand() decides.                   *)
CalcExec(c) == IF c.budget # 0 THEN {c.budget}
               ELSE IF c.deadline # 0 THEN {c.deadline}
               ELSE IF c.period # 0 THEN {c.period} ELSE 0 .. EstWcet - 1

CalcPeriod(c) == IF c.period # 0 THEN {c.period}
                 ELSE IF c.deadline # 0 THEN {c.deadline * 2}
                 ELSE IF c.budget # 0 THEN {c.budget * 3} ELSE 0 .. EstPeriod - 1

(* rts_params_init sets three words of a segment that may have been another *)
(* client's (Segments); rts_thread_init and _rand_activation_num.           *)
Init ==
    /\ cfg \in Configs
    /\ twcet \in CalcExec(cfg) /\ tperiod \in CalcPeriod(cfg)
    /\ skew \in Skews /\ now \in Starts /\ cpu = 0
    /\ act = Timespec(now)
    /\ \E g \in Garbage :
         mem = [num |-> 0, abs |-> g, period |-> EstPeriod, wcet |-> EstWcet, clk |-> g]
    /\ pc = "check" /\ left \in 0 .. MaxAct /\ curr = 0
    /\ start = now /\ last = 0 /\ began = 0 /\ gaps = <<>> /\ peak = 0
    /\ dpc = "idle" /\ dw = 0 /\ ops = 0
    /\ rsv = FALSE /\ util = Fin(0) /\ free = Fin(Scale) /\ used = Fin(0)

----------------------------------------------------------------------------
(* THE THREAD *)

Goes(from, to) == pc = from /\ pc' = to

(* rts_thread_computation_ended *)
Ended ==
    /\ left = 0 /\ Goes("check", "done")
    /\ UNCHANGED <<thread, act, clocks, mem, left, curr, history, daemon>>

(* Seeded fault: the first activation is not told from the others.          *)
BeginReadFirst ==
    /\ left > 0 /\ left' = left - 1
    /\ Goes("check", "put period")
    /\ curr' = TimespecToMs(Timespec(now))
    /\ UNCHANGED <<thread, act, clocks, mem, history, daemon>>

(* rts_rsv_begin, up to the first store *)
BeginRead ==
    /\ left > 0 /\ left' = left - 1
    /\ Goes("check", IF mem.num > 0 THEN "put period" ELSE "put clk")
    /\ curr' = TimespecToMs(Timespec(now))
    /\ UNCHANGED <<thread, act, clocks, mem, history, daemon>>

(* Seeded fault: gap and estimate are halved before they are added.         *)
PutPeriodHalves ==
    /\ Goes("put period", "put clk")
    /\ mem' = [mem EXCEPT !.period = ((curr - mem.abs) % Word) \div 2 + mem.period \div 2]
    /\ gaps' = Append(gaps, Ms(now) - last)
    /\ UNCHANGED <<thread, act, clocks, left, curr, start, last, began, peak, daemon>>

(* The period estimate is the mean of the last gap, in 32 bits, and itself, *)
(* rounded down (REACTIVITY is 0.5).                                        *)
PutPeriod ==
    /\ Goes("put period", "put clk")
    /\ mem' = [mem EXCEPT !.period = (((curr - mem.abs) % Word) + mem.period) \div 2]
    /\ gaps' = Append(gaps, Ms(now) - last)
    /\ UNCHANGED <<thread, act, clocks, left, curr, start, last, began, peak, daemon>>

PutPerthreadClk ==
    /\ Goes("put clk", "put num")
    /\ mem' = [mem EXCEPT !.clk = TimespecToMs(Timespec(cpu))]
    /\ began' = cpu
    /\ UNCHANGED <<thread, act, clocks, left, curr, start, last, gaps, peak, daemon>>

PutNumActivation ==
    /\ Goes("put num", "put abs")
    /\ mem' = [mem EXCEPT !.num = @ + 1]
    /\ UNCHANGED <<thread, act, clocks, left, curr, history, daemon>>

PutAbsActivation ==
    /\ Goes("put abs", "compute")
    /\ mem' = [mem EXCEPT !.abs = curr]
    /\ last' = Ms(now)
    /\ UNCHANGED <<thread, act, clocks, left, curr, start, began, gaps, peak, daemon>>

(* compute_for: the processor time is read until it is after the one that   *)
(* lies rand() % t_wcet milliseconds ahead.                                 *)
Compute ==
    /\ twcet # 0 /\ Goes("compute", "end")
    /\ \E ms \in 0 .. twcet - 1, over \in Overheads, delay \in Delays :
         /\ cpu' = cpu + ms * NsPerMs + over
         /\ TimeAfter(Timespec(cpu'), TimeAddMs(Timespec(cpu), ms))
         /\ now' = now + ms * NsPerMs + over + delay
    /\ UNCHANGED <<thread, act, mem, left, curr, history, daemon>>

(* rand() % 0: the client dies of SIGFPE.                                   *)
ComputeFails ==
    /\ twcet = 0 /\ Goes("compute", "dead")
    /\ UNCHANGED <<thread, act, clocks, mem, left, curr, history, daemon>>

(* Seeded fault: the last execution time is taken, not the longest.         *)
EndLast ==
    LET cost == (TimespecToMs(Timespec(cpu)) - mem.clk) % Word
    IN  /\ Goes("end", "wait")
        /\ mem' = [mem EXCEPT !.wcet = cost]
        /\ peak' = Larger(peak, cpu - began)
        /\ UNCHANGED <<thread, act, clocks, left, curr, start, last, began, gaps, daemon>>

(* Seeded fault: the value that rts_params_init put there is kept.          *)
EndKeepsInitial ==
    LET cost == (TimespecToMs(Timespec(cpu)) - mem.clk) % Word
    IN  /\ Goes("end", "wait")
        /\ mem' = [mem EXCEPT !.wcet = Larger(@, cost)]
        /\ peak' = Larger(peak, cpu - began)
        /\ UNCHANGED <<thread, act, clocks, left, curr, start, last, began, gaps, daemon>>

(* rts_rsv_end: from the second activation on the longest time is kept; the *)
(* first replaces what rts_params_init put there.                           *)
End ==
    LET cost == (TimespecToMs(Timespec(cpu)) - mem.clk) % Word
    IN  /\ Goes("end", "wait")
        /\ mem' = [mem EXCEPT !.wcet = IF mem.num > 1 THEN Larger(@, cost) ELSE cost]
        /\ peak' = Larger(peak, cpu - began)
        /\ UNCHANGED <<thread, act, clocks, left, curr, start, last, began, gaps, daemon>>

(* rts_thread_wait_activation: an absolute sleep, which clock_nanosleep     *)
(* refuses when tv_nsec is a whole second, and which is over at once when   *)
(* the instant has passed.                                                  *)
Wait ==
    LET next == TimeAddMs(act, tperiod)
        sleep == Positive(Instant(next) - (now + skew))
    IN  /\ Goes("wait", "check")
        /\ act' = next
        /\ \E delay \in Delays :
             now' = now + delay + (IF ValidTimespec(next) THEN sleep ELSE 0)
        /\ UNCHANGED <<thread, cpu, mem, left, curr, history, daemon>>

----------------------------------------------------------------------------
(* THE DAEMON, with one reservation for these params *)

client == <<thread, act, clocks, mem, pc, left, curr, history>>

(* rts_task_update_util of a creation or a refresh: the execution time is   *)
(* read ...                                                                 *)
ReadWcet ==
    /\ dpc = "idle" /\ ops < MaxOps /\ ops' = ops + 1
    /\ dpc' = "read period"
    /\ dw' = IF cfg.budget # 0 THEN cfg.budget ELSE mem.wcet
    /\ UNCHANGED <<client, ledger>>

(* ... and then the period.                                                 *)
NewUtil == Quotient(dw, IF cfg.period # 0 THEN cfg.period ELSE mem.period)

Evaluated == dpc = "read period" /\ dpc' = "idle" /\ UNCHANGED <<client, dw, ops>>

(* rts_scheduler_assign: granted where the utilization fits; the plugin's   *)
(* ledger and the scheduler's take it.                                      *)
Admit ==
    /\ ~rsv /\ AtMost(NewUtil, free)
    /\ Evaluated
    /\ rsv' = TRUE /\ util' = NewUtil
    /\ free' = Plus(free, Minus(NewUtil)) /\ used' = Plus(used, NewUtil)

Refuse ==
    /\ ~rsv /\ ~AtMost(NewUtil, free)
    /\ Evaluated
    /\ UNCHANGED ledger

(* t_recalc_util: the plugin's ledger follows, the scheduler's does not.    *)
RefreshSingle ==
    /\ rsv /\ Evaluated
    /\ util' = NewUtil
    /\ used' = Plus(Plus(used, Minus(util)), NewUtil)
    /\ UNCHANGED <<rsv, free>>

(* ts_recalc_utils sums what rts_task_update_util left in the tasks.        *)
RefreshSys ==
    /\ dpc = "idle" /\ ops < MaxOps /\ ops' = ops + 1
    /\ used' = IF rsv THEN util ELSE Fin(0)
    /\ UNCHANGED <<client, dpc, dw, rsv, util, free>>

RsvDestroy ==
    /\ rsv /\ dpc = "idle" /\ ops < MaxOps /\ ops' = ops + 1
    /\ rsv' = FALSE /\ util' = Fin(0)
    /\ free' = Plus(free, util) /\ used' = Plus(used, Minus(util))
    /\ UNCHANGED <<client, dpc, dw>>

Next == \/ Ended \/ BeginRead \/ PutPeriod \/ PutPerthreadClk \/ PutNumActivation
        \/ PutAbsActivation \/ Compute \/ ComputeFails \/ End \/ Wait
        \/ ReadWcet \/ Admit \/ Refuse \/ RefreshSingle \/ RefreshSys \/ RsvDestroy

Spec == Init /\ [][Next]_vars

----------------------------------------------------------------------------
(* PROPERTIES *)

(* A number halved n times, each time rounded down.                         *)
Halved(e, n) ==
    LET half[k \in Nat] == IF k = 0 THEN e ELSE half[k - 1] \div 2
    IN  half[n]

(* After k gaps the period estimate is no further above the longest of them *)
(* than the first estimate was, halved k times, and likewise below the      *)
(* shortest, rounding against it: what params started with is forgotten,    *)
(* whatever the segment held before, also where the clock of 32 bits wraps. *)
PeriodTracks ==
    LET all == {gaps[k] : k \in DOMAIN gaps}
        halved(e) == Halved(e, Len(gaps))
    IN  gaps # <<>> =>
          \E top, bot \in all :
            /\ \A g \in all : bot <= g /\ g <= top
            /\ mem.period <= top + halved(Positive(EstPeriod - top))
            /\ mem.period >= bot + halved(-Positive(bot - EstPeriod))

(* Between activations the wcet estimate is the costliest of them to the    *)
(* millisecond, as the clock is read: params that were never used are       *)
(* replaced, no later activation makes it smaller.                          *)
WcetWithinOne ==
    pc \in {"wait", "check", "done"} /\ mem.num > 0 =>
        /\ mem.wcet * NsPerMs < peak + NsPerMs
        /\ mem.wcet * NsPerMs > peak - NsPerMs

(* The activations are planned a whole number of periods after the start,   *)
(* however late any of them began or ended; and one begins before its time  *)
(* only if that time falls on a whole second, which time_add_ms leaves in   *)
(* tv_nsec, where clock_nanosleep refuses it.                               *)
OnSchedule ==
    pc = "check" /\ mem.num > 0 =>
        /\ Instant(act) = start + mem.num * tperiod * NsPerMs
        /\ now + skew >= Instant(act) \/ ~ValidTimespec(act)

(* The ledger of the daemon turns infinite, or not a number, only when the  *)
(* params declare no period and two activations of the thread began within  *)
(* one millisecond.                                                         *)
LedgerFinite ==
    ~Finite(free) \/ ~Finite(used) =>
        cfg.period = 0 /\ \E k \in DOMAIN gaps : gaps[k] = 0

(* The two estimates of one evaluation may be of different activations, and *)
(* never so that the execution time is above the one that belongs to the    *)
(* period, except while the first activation has not ended.                 *)
TornUnderstates ==
    dpc = "read period" /\ cfg.budget = 0 => dw <= mem.wcet \/ dw = EstWcet

(* The kernel takes what EDF passes it and reserves the share that the      *)
(* ledger of the daemon counts, for every granted declaration that is in    *)
(* order and below the wrap of the nanoseconds in 32 bits.                  *)
EdfAttrHonest ==
    LET a == SchedAttr(cfg.budget, cfg.deadline, cfg.period)
    IN  /\ rsv /\ cfg.budget # 0
        /\ cfg.budget <= cfg.deadline /\ cfg.deadline <= cfg.period
        /\ cfg.period * NsPerMs < Word
        => KernelAccepts(a) /\ Quotient(a.runtime, a.period) = util
============================================================================
