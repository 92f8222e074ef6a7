------------------------------- MODULE Units -------------------------------
(***************************************************************************)
(* Time as rts_utils.c and the EDF plugin compute with it.  A second has   *)
(* MsPerSec milliseconds, a millisecond has NsPerMs units of tv_nsec, and  *)
(* an unsigned int holds the numbers below Word; the instances use small   *)
(* ones.                                                                   *)
(***************************************************************************)
EXTENDS Integers

CONSTANTS MsPerSec, NsPerMs, Word

ASSUME UnitsAssumption == {MsPerSec, NsPerMs, Word} \subseteq Nat \ {0}

NsPerSec == MsPerSec * NsPerMs

(* The struct timespec of an instant counted in units of tv_nsec.           *)
Timespec(ns) == [sec |-> ns \div NsPerSec, nsec |-> ns % NsPerSec]
Instant(t) == t.sec * NsPerSec + t.nsec

(* Seeded fault: the carry goes one unit too far.                           *)
TimeAddMsCarry(t, ms) ==
    LET nsec == t.nsec + (ms % MsPerSec) * NsPerMs
        sec  == t.sec + ms \div MsPerSec
    IN  IF nsec > NsPerSec THEN [sec |-> sec + 1, nsec |-> nsec - NsPerSec + 1]
        ELSE [sec |-> sec, nsec |-> nsec]

(* time_add_ms: tv_nsec is carried when it exceeds a second, not when it is *)
(* one.                                                                     *)
TimeAddMs(t, ms) ==
    LET nsec == t.nsec + (ms % MsPerSec) * NsPerMs
        sec  == t.sec + ms \div MsPerSec
    IN  IF nsec > NsPerSec THEN [sec |-> sec + 1, nsec |-> nsec - NsPerSec]
        ELSE [sec |-> sec, nsec |-> nsec]

(* What clock_nanosleep accepts. *)
ValidTimespec(t) == t.nsec < NsPerSec

(* time_cmp > 0 *)
TimeAfter(t, u) == t.sec > u.sec \/ (t.sec = u.sec /\ t.nsec > u.nsec)

(* timespec_to_ms: 32 bits of the milliseconds. *)
TimespecToMs(t) == (t.sec * MsPerSec + t.nsec \div NsPerMs) % Word

(* The MILLI_TO_NANO of sched_EDF.c, on a uint32_t. *)
MilliToNano(ms) == (ms * NsPerMs) % Word

(* Seeded fault: runtime and deadline change places.                        *)
SchedAttrSwapped(wcet, deadline, period) ==
    [runtime |-> MilliToNano(deadline), deadline |-> MilliToNano(wcet),
     period |-> MilliToNano(period)]

(* sched_setattr as t_schedule of EDF calls it: the kernel wants            *)
(* 0 < runtime <= deadline <= period, and takes a period of 0 for the       *)
(* deadline.                                                                *)
SchedAttr(wcet, deadline, period) ==
    [runtime |-> MilliToNano(wcet), deadline |-> MilliToNano(deadline),
     period |-> MilliToNano(period)]

KernelAccepts(a) ==
    /\ 0 < a.runtime /\ a.runtime <= a.deadline
    /\ a.period = 0 \/ a.deadline <= a.period
=============================================================================
