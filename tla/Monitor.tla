------------------------------ MODULE Monitor ------------------------------
(***************************************************************************)
(* The test program (test/test.c): the main thread reserves for each       *)
(* thread, spawns it, waits behind a monitor (test/memutils.c) until the   *)
(* thread has published its id, and attaches that id to the reservation.   *)
(* All the threads get their argument through one structure on the main    *)
(* thread's stack, t_par, which is filled again for each of them.          *)
(*                                                                         *)
(* A step is one access to what the threads share: t_par, t_ids, the       *)
(* mutex.  POSIX lets pthread_cond_wait return without a signal; at most   *)
(* MaxSpurious waits do.                                                   *)
(***************************************************************************)
EXTENDS Integers, FiniteSets

CONSTANTS N,            \* nthread
          MaxSpurious   \* bound on the wakeups without a signal

ASSUME MonitorAssumption == N \in Nat /\ MaxSpurious \in Nat

Threads == 0 .. N - 1
Main == -1     \* as a holder of the mutex
Nobody == -2
Nothing == -3  \* a field that nobody has filled yet

Tid(t) == t + 1   \* what gettid returns in thread t; never 0

VARIABLES pc,        \* the main thread
          i,         \* its loop variable
          tpar,      \* t_par
          tids,      \* t_ids
          lock,      \* who holds the mutex of the monitor
          thr,       \* how far each thread got
          num, par,  \* its copy of the two fields
          attached,  \* the id each reservation was attached to
          rsvs,      \* the reservations the daemon holds
          spurious   \* wakeups without a signal so far

vars == <<pc, i, tpar, tids, lock, thr, num, par, attached, rsvs, spurious>>
threads == <<thr, num, par>>
daemon == <<attached, rsvs>>

Init ==
    /\ pc = "create" /\ i = 0
    /\ tpar = [num |-> Nothing, par |-> Nothing]
    /\ tids = [t \in Threads |-> 0]
    /\ lock = Nobody
    /\ thr = [t \in Threads |-> "none"]
    /\ num = [t \in Threads |-> Nothing] /\ par = [t \in Threads |-> Nothing]
    /\ attached = [t \in Threads |-> Nothing] /\ rsvs = {}
    /\ spurious = 0

Goes(from, to) == pc = from /\ pc' = to

----------------------------------------------------------------------------
(* THE MAIN THREAD *)

(* rts_create_rsv, granted *)
Create ==
    /\ i < N /\ Goes("create", "fill_num")
    /\ rsvs' = rsvs \cup {i}
    /\ UNCHANGED <<i, tpar, tids, lock, threads, attached, spurious>>

(* The daemon refuses, or does not answer: exit, which ends every thread.   *)
CreateRefused ==
    /\ i < N /\ Goes("create", "exit")
    /\ UNCHANGED <<i, tpar, tids, lock, threads, daemon, spurious>>

Created ==
    /\ i = N /\ Goes("create", "join") /\ i' = 0
    /\ UNCHANGED <<tpar, tids, lock, threads, daemon, spurious>>

(* fill_params *)
FillNum ==
    /\ Goes("fill_num", "fill_par")
    /\ tpar' = [tpar EXCEPT !.num = i]
    /\ UNCHANGED <<i, tids, lock, threads, daemon, spurious>>

FillPar ==
    /\ Goes("fill_par", "spawn")
    /\ tpar' = [tpar EXCEPT !.par = i]
    /\ UNCHANGED <<i, tids, lock, threads, daemon, spurious>>

(* pthread_create, whose failure is not looked at. *)
Spawn ==
    /\ Goes("spawn", "lock")
    /\ thr' \in {[thr EXCEPT ![i] = "read_num"], [thr EXCEPT ![i] = "failed"]}
    /\ UNCHANGED <<i, tpar, tids, lock, num, par, daemon, spurious>>

(* lock_and_test *)
MainLock ==
    /\ lock = Nobody /\ lock' = Main /\ Goes("lock", "test")
    /\ UNCHANGED <<i, tpar, tids, threads, daemon, spurious>>

(* Seeded fault: lock_and_test returns without giving the mutex back.       *)
TestSetKeepsLock ==
    /\ Goes("test", "attach") /\ tids[i] # 0
    /\ UNCHANGED <<i, tpar, tids, lock, threads, daemon, spurious>>

TestSet ==
    /\ Goes("test", "attach") /\ tids[i] # 0 /\ lock' = Nobody
    /\ UNCHANGED <<i, tpar, tids, threads, daemon, spurious>>

(* Seeded fault: the variable is tested and nobody waits.                   *)
TestUnsetGoesOn ==
    /\ Goes("test", "attach") /\ tids[i] = 0 /\ lock' = Nobody
    /\ UNCHANGED <<i, tpar, tids, threads, daemon, spurious>>

TestUnset ==
    /\ Goes("test", "wait") /\ tids[i] = 0 /\ lock' = Nobody
    /\ UNCHANGED <<i, tpar, tids, threads, daemon, spurious>>

SpuriousWakeup ==
    /\ spurious < MaxSpurious /\ spurious' = spurious + 1
    /\ Goes("wait", "relock")
    /\ UNCHANGED <<i, tpar, tids, lock, threads, daemon>>

(* The wait is over: the mutex is taken again and given back, and the       *)
(* variable is not tested again.                                            *)
Relock ==
    /\ lock = Nobody /\ Goes("relock", "attach")
    /\ UNCHANGED <<i, tpar, tids, lock, threads, daemon, spurious>>

(* rts_rsv_attach_thread with whatever t_ids holds. *)
Attach ==
    /\ Goes("attach", "create") /\ i' = i + 1
    /\ attached' = [attached EXCEPT ![i] = tids[i]]
    /\ UNCHANGED <<tpar, tids, lock, threads, rsvs, spurious>>

(* Seeded fault: the reservation is given back without a join.              *)
JoinDestroyEarly ==
    /\ i < N /\ Goes("join", "join") /\ i' = i + 1
    /\ rsvs' = rsvs \ {i}
    /\ UNCHANGED <<tpar, tids, lock, threads, attached, spurious>>

(* pthread_join and rts_rsv_destroy *)
JoinDestroy ==
    /\ i < N /\ thr[i] = "done" /\ Goes("join", "join") /\ i' = i + 1
    /\ rsvs' = rsvs \ {i}
    /\ UNCHANGED <<tpar, tids, lock, threads, attached, spurious>>

(* rts_daemon_deconnect *)
Deconnect ==
    /\ i = N /\ Goes("join", "end")
    /\ UNCHANGED <<i, tpar, tids, lock, threads, daemon, spurious>>

----------------------------------------------------------------------------
(* A THREAD: RT_task *)

ThreadGoes(t, from, to) ==
    pc # "exit" /\ thr[t] = from /\ thr' = [thr EXCEPT ![t] = to]

ReadNum(t) ==
    /\ ThreadGoes(t, "read_num", "read_par")
    /\ num' = [num EXCEPT ![t] = tpar.num]
    /\ UNCHANGED <<pc, i, tpar, tids, lock, par, daemon, spurious>>

ReadPar(t) ==
    /\ ThreadGoes(t, "read_par", "lock")
    /\ par' = [par EXCEPT ![t] = tpar.par]
    /\ UNCHANGED <<pc, i, tpar, tids, lock, num, daemon, spurious>>

(* copy_and_signal *)
ThreadLock(t) ==
    /\ lock = Nobody /\ lock' = t /\ ThreadGoes(t, "lock", "copy")
    /\ UNCHANGED <<pc, i, tpar, tids, num, par, daemon, spurious>>

Copy(t) ==
    /\ ThreadGoes(t, "copy", "signal")
    /\ tids' = [tids EXCEPT ![num[t]] = Tid(t)]
    /\ UNCHANGED <<pc, i, tpar, lock, num, par, daemon, spurious>>

(* Seeded fault: the id is copied and the mutex given back, no signal sent. *)
SignalForgotten(t) ==
    /\ ThreadGoes(t, "signal", "loop") /\ lock' = Nobody
    /\ UNCHANGED <<pc, i, tpar, tids, num, par, daemon, spurious>>

(* A signal that finds nobody waiting is lost. *)
Signal(t) ==
    /\ ThreadGoes(t, "signal", "loop") /\ lock' = Nobody
    /\ pc' = IF pc = "wait" THEN "relock" ELSE pc
    /\ UNCHANGED <<i, tpar, tids, num, par, daemon, spurious>>

(* The activations, between rts_rsv_begin and rts_rsv_end of the params the *)
(* thread found in t_par; there are finitely many.                          *)
Finish(t) ==
    /\ ThreadGoes(t, "loop", "done")
    /\ UNCHANGED <<pc, i, tpar, tids, lock, num, par, daemon, spurious>>

----------------------------------------------------------------------------
MainStep == \/ Create \/ CreateRefused \/ Created \/ FillNum \/ FillPar \/ Spawn
            \/ MainLock \/ TestSet \/ TestUnset \/ Relock \/ Attach
            \/ JoinDestroy \/ Deconnect

ThreadStep(t) == \/ ReadNum(t) \/ ReadPar(t) \/ ThreadLock(t) \/ Copy(t)
                 \/ Signal(t) \/ Finish(t)

Next == MainStep \/ SpuriousWakeup \/ \E t \in Threads : ThreadStep(t)

(* The main thread and the threads run whenever they can; the mutex is not  *)
(* contended for ever, because each thread takes it once.                   *)
Fairness == WF_vars(MainStep) /\ \A t \in Threads : WF_vars(ThreadStep(t))

Spec == Init /\ [][Next]_vars /\ Fairness

----------------------------------------------------------------------------
(* PROPERTIES *)

TypeOK ==
    /\ pc \in {"create", "fill_num", "fill_par", "spawn", "lock", "test", "wait",
               "relock", "attach", "join", "end", "exit"}
    /\ i \in 0 .. N
    /\ tpar \in [num : Threads \cup {Nothing}, par : Threads \cup {Nothing}]
    /\ tids \in [Threads -> 0 .. N]
    /\ lock \in Threads \cup {Main, Nobody}
    /\ thr \in [Threads -> {"none", "failed", "read_num", "read_par", "lock", "copy",
                            "signal", "loop", "done"}]
    /\ num \in [Threads -> Threads \cup {Nothing}]
    /\ par \in [Threads -> Threads \cup {Nothing}]
    /\ attached \in [Threads -> (0 .. N) \cup {Nothing}]
    /\ rsvs \subseteq Threads
    /\ spurious \in 0 .. MaxSpurious

(* As long as no wait ends without a signal, the one structure is never     *)
(* overwritten before its thread has read it: every thread publishes its id *)
(* in its own place and measures with its own params, and every reservation *)
(* is attached to the thread it was made for.                               *)
OwnThread ==
    spurious = 0 =>
        \A t \in Threads :
           /\ num[t] \in {Nothing, t} /\ par[t] \in {Nothing, t}
           /\ attached[t] \in {Nothing, Tid(t)}

(* A reservation is given back only when the thread that runs under it is   *)
(* through, unless a wait ended without a signal.                           *)
DestroyedWhenDone ==
    spurious = 0 =>
        \A r, t \in Threads :
           attached[r] = Tid(t) /\ r \notin rsvs => thr[t] = "done"

(* The main thread, or thread t, can take a step of its own.                *)
MainCan == \/ pc \in {"create", "fill_num", "fill_par", "spawn", "test", "attach"}
           \/ pc \in {"lock", "relock"} /\ lock = Nobody
           \/ pc = "join" /\ (i = N \/ thr[i] = "done")
ThreadCan(t) == /\ pc # "exit"
                /\ \/ thr[t] \in {"read_num", "read_par", "copy", "signal", "loop"}
                   \/ thr[t] = "lock" /\ lock = Nobody

(* Whatever waits end without a signal: until the program has ended, and    *)
(* unless a thread could not be spawned, somebody can go on.                *)
NeverStuck ==
    pc \notin {"end", "exit"} /\ (\A t \in Threads : thr[t] # "failed")
        => MainCan \/ \E t \in Threads : ThreadCan(t)

(* The program ends, unless it was refused or a thread could not be         *)
(* spawned, which the wait takes no notice of: no signal is missed, because *)
(* the variable is tested and the wait begun under the mutex.               *)
ProgramEnds ==
    <>(pc \in {"end", "exit"} \/ \E t \in Threads : thr[t] = "failed")
============================================================================
