---------------------------- MODULE MonitorProofs ----------------------------
(***************************************************************************)
(* For any number of threads: as long as no wait ends without a signal,    *)
(* each reservation is attached to its own thread and outlives it, though  *)
(* all the threads take their argument from one structure; and however     *)
(* many do, no signal is missed and nobody waits for nobody.               *)
(***************************************************************************)
EXTENDS Monitor, TLAPS

Fresh(t) == /\ thr[t] = "none" /\ tids[t] = 0
            /\ num[t] = Nothing /\ par[t] = Nothing /\ attached[t] = Nothing

(* It has published its id and given the mutex back. *)
Through(t) == /\ thr[t] \in {"loop", "done"} /\ tids[t] = Tid(t)
              /\ num[t] = t /\ par[t] = t

Served(t) == Through(t) /\ attached[t] = Tid(t)

(* The one thread the main thread waits for: t_par is still its own.        *)
Awaited(t) ==
    /\ attached[t] = Nothing /\ tpar.num = t /\ tpar.par = t
    /\ \/ /\ thr[t] \in {"failed", "read_num"}
          /\ tids[t] = 0 /\ num[t] = Nothing /\ par[t] = Nothing
       \/ thr[t] = "read_par" /\ tids[t] = 0 /\ num[t] = t /\ par[t] = Nothing
       \/ thr[t] \in {"lock", "copy"} /\ tids[t] = 0 /\ num[t] = t /\ par[t] = t
       \/ thr[t] = "signal" /\ tids[t] = Tid(t) /\ num[t] = t /\ par[t] = t
       \/ Through(t)

Filling == {"fill_num", "fill_par", "spawn"}
Before == {"create", "exit"} \cup Filling
Behind == {"lock", "test", "wait", "relock", "attach"}

(* The loop variable names a thread wherever it is used as an index.        *)
IndexOK == pc \in Filling \cup Behind \cup {"exit"} => i < N

(* The mutex keeps the test apart from the copy and the signal.             *)
TestHolds == pc = "test" => lock = Main

(* The threads before the loop variable are served, those behind it are     *)
(* not there yet, and its own is as far as pc says.                         *)
Place(t) ==
    /\ thr[t] \in {"copy", "signal"} => lock = t
    /\ pc \in Before \cup Behind /\ t < i => Served(t) /\ t \in rsvs
    /\ pc \in Before \cup Behind /\ t > i => Fresh(t)
    /\ pc \in Before /\ t = i => Fresh(t)
    /\ pc = "fill_par" /\ t = i => tpar.num = t
    /\ pc = "spawn" /\ t = i => tpar.num = t /\ tpar.par = t
    /\ pc \in Filling \cup Behind /\ t = i => t \in rsvs
    /\ pc \in Behind /\ t = i => Awaited(t)
    /\ pc \in {"relock", "attach"} /\ t = i => Through(t)
    /\ pc \in {"join", "end"} => /\ Served(t)
                                 /\ t < i => thr[t] = "done"
                                 /\ t >= i => t \in rsvs

Places == \A t \in Threads : Place(t)

IInv == TypeOK /\ IndexOK /\ (spurious = 0 => TestHolds /\ Places)

LEMMA InitIInv == Init => IInv
BY MonitorAssumption
   DEF Init, IInv, TypeOK, IndexOK, TestHolds, Places, Place, Fresh,
       Filling, Before, Behind, Threads, Nothing, Nobody, Main

LEMMA MainTypeOK ==
    ASSUME TypeOK, IndexOK, MainStep
    PROVE  TypeOK' /\ IndexOK'
<1>1. i \in Int /\ i >= 0 /\ i <= N /\ N \in Nat
  BY MonitorAssumption DEF TypeOK
<1>2. i < N => i \in Threads  BY <1>1 DEF Threads
<1>3. i' \in 0 .. N /\ IndexOK'
  BY <1>1 DEF IndexOK, Filling, Behind, MainStep, Goes, Create, CreateRefused, Created, FillNum,
     FillPar, Spawn, MainLock, TestSet, TestUnset, Relock, Attach, JoinDestroy, Deconnect
<1> USE DEF Goes, threads, daemon
<1>4. CASE Create
  <2>1. rsvs' \subseteq Threads  BY <1>2, <1>4 DEF Create, TypeOK
  <2> QED  BY <1>3, <1>4, <2>1 DEF Create, TypeOK
<1>5. CASE CreateRefused  BY <1>3, <1>5 DEF CreateRefused, TypeOK
<1>6. CASE Created  BY <1>3, <1>6 DEF Created, TypeOK
<1>7. CASE FillNum
  <2>1. i \in Threads  BY <1>2, <1>7 DEF FillNum, IndexOK, Filling
  <2>2. tpar' \in [num : Threads \cup {Nothing}, par : Threads \cup {Nothing}]
    BY <1>7, <2>1 DEF FillNum, TypeOK
  <2> QED  BY <1>3, <1>7, <2>2 DEF FillNum, TypeOK
<1>8. CASE FillPar
  <2>1. i \in Threads  BY <1>2, <1>8 DEF FillPar, IndexOK, Filling
  <2>2. tpar' \in [num : Threads \cup {Nothing}, par : Threads \cup {Nothing}]
    BY <1>8, <2>1 DEF FillPar, TypeOK
  <2> QED  BY <1>3, <1>8, <2>2 DEF FillPar, TypeOK
<1>9. CASE Spawn  BY <1>3, <1>9 DEF Spawn, TypeOK
<1>10. CASE MainLock  BY <1>3, <1>10 DEF MainLock, TypeOK
<1>11. CASE TestSet  BY <1>3, <1>11 DEF TestSet, TypeOK
<1>12. CASE TestUnset  BY <1>3, <1>12 DEF TestUnset, TypeOK
<1>13. CASE Relock  BY <1>3, <1>13 DEF Relock, TypeOK
<1>14. CASE Attach
  <2>1. i \in Threads  BY <1>2, <1>14 DEF Attach, IndexOK, Behind
  <2>2. tids[i] \in 0 .. N  BY <2>1 DEF TypeOK
  <2>3. attached' \in [Threads -> (0 .. N) \cup {Nothing}]
    BY <1>14, <2>1, <2>2 DEF Attach, TypeOK
  <2> QED  BY <1>3, <1>14, <2>3 DEF Attach, TypeOK
<1>15. CASE JoinDestroy
  <2>1. rsvs' \subseteq Threads  BY <1>15 DEF JoinDestroy, TypeOK
  <2> QED  BY <1>3, <1>15, <2>1 DEF JoinDestroy, TypeOK
<1>16. CASE Deconnect  BY <1>3, <1>16 DEF Deconnect, TypeOK
<1> QED  BY <1>4, <1>5, <1>6, <1>7, <1>8, <1>9, <1>10, <1>11, <1>12, <1>13, <1>14, <1>15, <1>16
         DEF MainStep

LEMMA ThreadTypeOK ==
    ASSUME TypeOK, IndexOK, NEW t \in Threads, ThreadStep(t)
    PROVE  TypeOK' /\ IndexOK'
<1>1. Tid(t) \in 0 .. N  BY MonitorAssumption DEF Tid, Threads
<1>2. IndexOK'
  BY DEF IndexOK, Filling, Behind, ThreadStep, ThreadGoes, ReadNum, ReadPar, ThreadLock, Copy,
         Signal, Finish
<1> USE DEF ThreadGoes, daemon
<1>3. CASE ReadNum(t)
  <2>1. tpar.num \in Threads \cup {Nothing}  BY DEF TypeOK
  <2>2. num' \in [Threads -> Threads \cup {Nothing}]  BY <1>3, <2>1 DEF ReadNum, TypeOK
  <2> QED  BY <1>2, <1>3, <2>2 DEF ReadNum, TypeOK
<1>4. CASE ReadPar(t)
  <2>1. tpar.par \in Threads \cup {Nothing}  BY DEF TypeOK
  <2>2. par' \in [Threads -> Threads \cup {Nothing}]  BY <1>4, <2>1 DEF ReadPar, TypeOK
  <2> QED  BY <1>2, <1>4, <2>2 DEF ReadPar, TypeOK
<1>5. CASE ThreadLock(t)  BY <1>2, <1>5 DEF ThreadLock, TypeOK
<1>6. CASE Copy(t)
  <2>1. tids' \in [Threads -> 0 .. N]  BY <1>1, <1>6 DEF Copy, TypeOK
  <2> QED  BY <1>2, <1>6, <2>1 DEF Copy, TypeOK
<1>7. CASE Signal(t)  BY <1>2, <1>7 DEF Signal, TypeOK
<1>8. CASE Finish(t)  BY <1>2, <1>8 DEF Finish, TypeOK
<1> QED  BY <1>3, <1>4, <1>5, <1>6, <1>7, <1>8 DEF ThreadStep

(* The main thread's steps: what it fills in and waits for is its current   *)
(* thread's, and it goes on only when that thread is through.               *)
LEMMA MainPlaces ==
    ASSUME TypeOK, IndexOK, TestHolds, Places, MainStep
    PROVE  TestHolds' /\ Places'
<1>1. TestHolds'
  BY DEF TestHolds, Goes, MainStep, Create, CreateRefused, Created, FillNum, FillPar, Spawn,
         MainLock, TestSet, TestUnset, Relock, Attach, JoinDestroy, Deconnect
<1>2. SUFFICES ASSUME NEW t \in Threads PROVE Place(t)'
  BY <1>1 DEF Places
<1>3. Place(t)  BY DEF Places
<1>4. i \in Int /\ N \in Nat /\ t \in Int /\ t >= 0 /\ t < N
  BY MonitorAssumption DEF TypeOK, Threads
<1> USE DEF Goes, Filling, Before, Behind, threads, daemon, Place
<1>5. CASE Create \/ CreateRefused
  BY <1>3, <1>4, <1>5 DEF Create, CreateRefused, Fresh, Served, Through
<1>6. CASE Created
  BY <1>3, <1>4, <1>6 DEF Created, Served, Through
<1>7. CASE FillNum \/ FillPar
  <2>1. tpar \in [num : Threads \cup {Nothing}, par : Threads \cup {Nothing}]  BY DEF TypeOK
  <2> QED  BY <1>3, <1>4, <1>7, <2>1 DEF FillNum, FillPar, Fresh, Served, Through
<1>8. CASE Spawn
  <2>1. t # i => thr'[t] = thr[t]  BY <1>8 DEF Spawn, TypeOK
  <2>2. t = i => thr'[t] \in {"read_num", "failed"}  BY <1>8 DEF Spawn, TypeOK
  <2>3. CASE t = i
    BY <1>3, <1>4, <1>8, <2>2, <2>3 DEF Spawn, Fresh, Awaited
  <2>4. CASE t # i
    BY <1>3, <1>4, <1>8, <2>1, <2>4 DEF Spawn, Fresh, Served, Through
  <2> QED  BY <2>3, <2>4
<1>9. CASE MainLock \/ TestUnset
  <2>1. thr[t] \notin {"copy", "signal"} \/ lock' = lock
    BY <1>3, <1>9, MonitorAssumption DEF MainLock, TestUnset, TestHolds, Threads, Main, Nobody
  <2> QED  BY <1>3, <1>4, <1>9, <2>1 DEF MainLock, TestUnset, Fresh, Served, Through, Awaited
<1>10. CASE TestSet
  <2>1. thr[t] \notin {"copy", "signal"}
    BY <1>3, <1>4, <1>10 DEF TestSet, TestHolds, Main
  <2>2. t = i => Through(t)
    BY <1>3, <1>10, <2>1 DEF TestSet, Awaited
  <2> QED  BY <1>3, <1>4, <1>10, <2>1, <2>2 DEF TestSet, Fresh, Served, Through, Awaited
<1>11. CASE Relock
  BY <1>3, <1>4, <1>11 DEF Relock, Fresh, Served, Through, Awaited
<1>12. CASE Attach
  <2>1. CASE t = i
    <3>1. attached'[t] = tids[t]  BY <1>12, <2>1 DEF Attach, TypeOK
    <3>2. Through(t) /\ t \in rsvs /\ thr[t] \notin {"copy", "signal"}
      BY <1>3, <1>12, <2>1 DEF Attach, Through
    <3> QED  BY <1>4, <1>12, <2>1, <3>1, <3>2 DEF Attach, Served, Through
  <2>2. CASE t # i
    <3>1. attached'[t] = attached[t]  BY <1>12, <2>2 DEF Attach, TypeOK
    <3> QED  BY <1>3, <1>4, <1>12, <2>2, <3>1 DEF Attach, Fresh, Served, Through
  <2> QED  BY <2>1, <2>2
<1>13. CASE JoinDestroy
  BY <1>3, <1>4, <1>13 DEF JoinDestroy, Served, Through
<1>14. CASE Deconnect
  BY <1>3, <1>4, <1>14 DEF Deconnect, Served, Through
<1> QED  BY <1>5, <1>6, <1>7, <1>8, <1>9, <1>10, <1>11, <1>12, <1>13, <1>14 DEF MainStep

(* A thread that takes a step is the awaited one, or is through already.    *)
LEMMA ThreadPlaces ==
    ASSUME TypeOK, IndexOK, TestHolds, Places, NEW e \in Threads, ThreadStep(e)
    PROVE  TestHolds' /\ Places'
<1> USE DEF ThreadGoes, Filling, Before, Behind, daemon
<1>1. Place(e)  BY DEF Places
<1>2. i \in Int /\ N \in Nat /\ e \in Int /\ e >= 0 /\ e < N
  BY MonitorAssumption DEF TypeOK, Threads
<1>3. CASE Finish(e)
  <2>1. TestHolds'  BY <1>3 DEF Finish, TestHolds
  <2>2. ASSUME NEW t \in Threads PROVE Place(t)'
    <3>1. Place(t)  BY DEF Places
    <3>2. CASE t = e
      <4>1. thr[t] = "loop" /\ thr'[t] = "done"  BY <1>3, <3>2 DEF Finish, TypeOK
      <4> QED  BY <1>3, <3>1, <4>1 DEF Finish, Place, Fresh, Served, Through, Awaited
    <3>3. CASE t # e
      <4>1. thr'[t] = thr[t]  BY <1>3, <3>3 DEF Finish, TypeOK
      <4> QED  BY <1>3, <3>1, <4>1 DEF Finish, Place, Fresh, Served, Through, Awaited
    <3> QED  BY <3>2, <3>3
  <2> QED  BY <2>1, <2>2 DEF Places
<1>4. CASE ~Finish(e)
  <2>1. thr[e] \in {"read_num", "read_par", "lock", "copy", "signal"}
    BY <1>4 DEF ThreadStep, ReadNum, ReadPar, ThreadLock, Copy, Signal
  <2>2. pc # "exit"
    BY <1>4 DEF ThreadStep, ReadNum, ReadPar, ThreadLock, Copy, Signal
  <2>3. pc \in Behind /\ e = i
    BY <1>1, <1>2, <2>1, <2>2 DEF Place, Served, Through, Fresh, TypeOK
  <2>4. pc \notin {"relock", "attach"}
    BY <1>1, <2>1, <2>3 DEF Place, Through
  <2>5. Awaited(e) /\ e \in rsvs  BY <1>1, <2>3 DEF Place
  <2>6. ASSUME NEW t \in Threads, t # e PROVE thr[t] \notin {"copy", "signal"}
    <3>1. Place(t) /\ t \in Int  BY DEF Places, Threads
    <3> QED  BY <1>2, <2>3, <2>6, <3>1 DEF Place, Served, Through, Fresh
  <2>7. TestHolds'
    BY <1>1, <1>2, <1>4, <2>3 DEF TestHolds, ThreadStep, ReadNum, ReadPar, ThreadLock, Copy,
       Signal, Place, Main, Nobody
  <2>8. ASSUME NEW t \in Threads, t # e PROVE Place(t)'
    <3>1. Place(t) /\ t \in Int  BY DEF Places, Threads
    <3>2. /\ thr'[t] = thr[t] /\ num'[t] = num[t] /\ par'[t] = par[t]
          /\ UNCHANGED <<i, tpar, daemon>>
      BY <1>4, <2>8 DEF ThreadStep, ReadNum, ReadPar, ThreadLock, Copy, Signal, TypeOK
    <3>3. tids'[t] = tids[t]
      BY <1>4, <2>5, <2>8 DEF ThreadStep, ReadNum, ReadPar, ThreadLock, Copy, Signal, TypeOK,
                              Awaited, Through
    <3>4. pc' \in Behind
      BY <1>4, <2>3 DEF ThreadStep, ReadNum, ReadPar, ThreadLock, Copy, Signal
    <3> QED  BY <1>2, <2>3, <2>6, <2>8, <3>1, <3>2, <3>3, <3>4
             DEF Place, Fresh, Served, Through
  <2>9. Place(e)'
    <3> USE <1>2, <2>3, <2>4, <2>5 DEF Place
    <3>1. CASE ReadNum(e)
      <4>1. thr[e] = "read_num" /\ thr'[e] = "read_par" /\ num'[e] = e
        BY <3>1 DEF ReadNum, TypeOK, Awaited
      <4> QED  BY <3>1, <4>1 DEF ReadNum, Awaited, Through
    <3>2. CASE ReadPar(e)
      <4>1. thr[e] = "read_par" /\ thr'[e] = "lock" /\ par'[e] = e
        BY <3>2 DEF ReadPar, TypeOK, Awaited
      <4> QED  BY <3>2, <4>1 DEF ReadPar, Awaited, Through
    <3>3. CASE ThreadLock(e)
      <4>1. thr[e] = "lock" /\ thr'[e] = "copy"
        BY <3>3 DEF ThreadLock, TypeOK
      <4> QED  BY <3>3, <4>1 DEF ThreadLock, Awaited, Through
    <3>4. CASE Copy(e)
      <4>1. thr[e] = "copy" /\ thr'[e] = "signal" /\ num[e] = e /\ par[e] = e
        BY <3>4 DEF Copy, TypeOK, Awaited, Through
      <4>2. tids'[e] = Tid(e)  BY <3>4, <4>1 DEF Copy, TypeOK
      <4> QED  BY <1>1, <3>4, <4>1, <4>2 DEF Copy, Awaited, Through
    <3>5. CASE Signal(e)
      <4>1. thr[e] = "signal" /\ thr'[e] = "loop" /\ tids[e] = Tid(e) /\ num[e] = e /\ par[e] = e
        BY <3>5 DEF Signal, TypeOK, Awaited, Through
      <4> QED  BY <3>5, <4>1 DEF Signal, Awaited, Through
    <3> QED  BY <1>4, <3>1, <3>2, <3>3, <3>4, <3>5 DEF ThreadStep
  <2> QED  BY <2>7, <2>8, <2>9 DEF Places
<1> QED  BY <1>3, <1>4

LEMMA Inductive == IInv /\ [Next]_vars => IInv'
<1> SUFFICES ASSUME IInv, [Next]_vars PROVE IInv'  OBVIOUS
<1>1. CASE MainStep
  <2>1. spurious' = spurious
    BY <1>1 DEF MainStep, Create, CreateRefused, Created, FillNum, FillPar, Spawn, MainLock,
                TestSet, TestUnset, Relock, Attach, JoinDestroy, Deconnect
  <2> QED  BY <1>1, <2>1, MainTypeOK, MainPlaces DEF IInv
<1>2. CASE SpuriousWakeup
  <2>1. spurious' # 0  BY <1>2, MonitorAssumption DEF SpuriousWakeup, IInv, TypeOK
  <2>2. TypeOK' /\ IndexOK'
    BY <1>2, MonitorAssumption
       DEF SpuriousWakeup, IInv, TypeOK, IndexOK, Goes, threads, daemon, Filling, Behind
  <2> QED  BY <2>1, <2>2 DEF IInv
<1>3. ASSUME NEW t \in Threads, ThreadStep(t) PROVE IInv'
  <2>1. spurious' = spurious
    BY <1>3 DEF ThreadStep, ReadNum, ReadPar, ThreadLock, Copy, Signal, Finish
  <2> QED  BY <1>3, <2>1, ThreadTypeOK, ThreadPlaces DEF IInv
<1>4. CASE UNCHANGED vars
  BY <1>4 DEF vars, threads, daemon, IInv, TypeOK, IndexOK, TestHolds, Places, Place,
              Fresh, Through, Served, Awaited
<1> QED  BY <1>1, <1>2, <1>3, <1>4 DEF Next

(* The inductive invariant holds in every reachable state.                  *)
LEMMA Invariant == Spec => []IInv
BY InitIInv, Inductive, PTL DEF Spec

(* The variables keep their types, spurious wakeups or not: no index leaves *)
(* t_ids and the reservations are those of the threads (test.c main).       *)
THEOREM TypeCorrect == Spec => []TypeOK
BY Invariant, PTL DEF IInv

(* Without spurious wakeups every thread publishes its id in its own place  *)
(* and every reservation is attached to its own thread, for any number of   *)
(* threads that share t_par (lock_and_test, RT_task).                       *)
THEOREM OwnThreads == Spec => []OwnThread
<1>1. ASSUME IInv, spurious = 0, NEW t \in Threads
      PROVE  /\ num[t] \in {Nothing, t} /\ par[t] \in {Nothing, t}
             /\ attached[t] \in {Nothing, Tid(t)}
  <2>1. Place(t) /\ TypeOK /\ t \in Int /\ i \in Int
    BY <1>1, MonitorAssumption DEF IInv, Places, TypeOK, Threads
  <2>2. Fresh(t) \/ Awaited(t) \/ Served(t)
    BY <2>1 DEF Place, TypeOK, Before, Behind, Filling
  <2> QED  BY <2>2 DEF Fresh, Awaited, Served, Through
<1>2. IInv => OwnThread  BY <1>1 DEF OwnThread
<1> QED  BY Invariant, <1>2, PTL

(* Without spurious wakeups a reservation is given back only when the       *)
(* thread attached to it is through (the joins of test.c main).             *)
THEOREM DestroyedLate == Spec => []DestroyedWhenDone
<1>1. ASSUME IInv, spurious = 0, NEW r \in Threads, NEW t \in Threads,
             attached[r] = Tid(t), r \notin rsvs
      PROVE  thr[t] = "done"
  <2>1. Place(r) /\ TypeOK /\ r \in Int /\ t \in Int /\ t >= 0 /\ i \in Int
    BY <1>1, MonitorAssumption DEF IInv, Places, TypeOK, Threads
  <2>2. Tid(t) # Nothing  BY <2>1 DEF Tid, Nothing
  <2>3. ~Fresh(r) /\ ~Awaited(r)  BY <1>1, <2>2 DEF Fresh, Awaited
  <2>4. Served(r) /\ thr[r] = "done"
    BY <1>1, <2>1, <2>3 DEF Place, TypeOK, Before, Behind, Filling
  <2>5. r = t  BY <1>1, <2>1, <2>4 DEF Served, Tid
  <2> QED  BY <2>4, <2>5
<1>2. IInv => DestroyedWhenDone  BY <1>1 DEF DestroyedWhenDone
<1> QED  BY Invariant, <1>2, PTL

----------------------------------------------------------------------------
(* WHATEVER WAITS END WITHOUT A SIGNAL *)

(* No signal is missed: the main thread waits only for a thread that has    *)
(* still to send it.                                                        *)
SignalToCome == pc = "wait" => thr[i] \notin {"loop", "done"}

(* What is true of thread t even after a spurious wakeup.                   *)
Stands(t) ==
    /\ thr[t] \in {"copy", "signal"} <=> lock = t
    /\ pc \in Before \cup Behind /\ t < i => thr[t] # "none"
    /\ pc \in Before \cup Behind /\ t > i => thr[t] = "none"
    /\ pc \in Before /\ t = i => thr[t] = "none"
    /\ pc \in {"join", "end"} => thr[t] # "none"
    /\ pc \in Behind \cup {"fill_par", "spawn"} /\ t = i => tpar.num = t
    /\ pc \in Behind /\ t = i =>
          /\ thr[t] # "none"
          /\ thr[t] \in {"read_par", "lock", "copy", "signal"} => num[t] = t
          /\ thr[t] \in {"signal", "loop", "done"} => tids[t] # 0
    /\ pc = "wait" /\ t = i => thr[t] \notin {"loop", "done"}

SInv == /\ TypeOK /\ IndexOK
        /\ pc = "test" <=> lock = Main
        /\ \A t \in Threads : Stands(t)

LEMMA StandsAtFirst == Init => SInv
BY InitIInv, MonitorAssumption
   DEF Init, IInv, SInv, Stands, Filling, Before, Behind, Threads, Nothing, Nobody, Main

LEMMA MainStands ==
    ASSUME SInv, MainStep
    PROVE  SInv'
<1>1. TypeOK /\ IndexOK /\ TypeOK' /\ IndexOK'
  BY MainTypeOK DEF SInv
<1>2. /\ i \in Int /\ N \in Nat
      /\ \A t \in Threads : t \in Int /\ t >= 0 /\ t < N /\ t # Main /\ t # Nobody
  BY <1>1, MonitorAssumption DEF TypeOK, Threads, Main, Nobody
<1>3. Main # Nobody /\ (pc = "test" <=> lock = Main)
  BY DEF SInv, Main, Nobody
<1>4. pc' = "test" <=> lock' = Main
  BY <1>3 DEF Goes, MainStep, Create, CreateRefused, Created, FillNum, FillPar, Spawn,
              MainLock, TestSet, TestUnset, Relock, Attach, JoinDestroy, Deconnect
<1>5. SUFFICES ASSUME NEW t \in Threads PROVE Stands(t)'
  BY <1>1, <1>4 DEF SInv
<1>6. Stands(t)
  BY DEF SInv
<1> USE DEF Goes, Filling, Before, Behind, threads, daemon, Stands
<1>7. CASE Create \/ CreateRefused \/ Created
  BY <1>1, <1>2, <1>6, <1>7 DEF Create, CreateRefused, Created, TypeOK
<1>8. CASE FillNum \/ FillPar
  <2>1. pc = "fill_num" => tpar'.num = i
    BY <1>1, <1>8 DEF FillNum, FillPar, TypeOK
  <2>2. pc = "fill_par" => tpar'.num = tpar.num
    BY <1>1, <1>8 DEF FillNum, FillPar, TypeOK
  <2> QED  BY <1>1, <1>2, <1>6, <1>8, <2>1, <2>2 DEF FillNum, FillPar
<1>9. CASE Spawn
  <2>1. t # i => thr'[t] = thr[t]
    BY <1>1, <1>9 DEF Spawn, TypeOK
  <2>2. t = i => thr'[t] \in {"read_num", "failed"} /\ thr[t] = "none"
    BY <1>1, <1>6, <1>9 DEF Spawn, TypeOK
  <2>3. CASE t = i
    BY <1>2, <1>6, <1>9, <2>2, <2>3 DEF Spawn
  <2>4. CASE t # i
    BY <1>2, <1>6, <1>9, <2>1, <2>4 DEF Spawn
  <2> QED  BY <2>3, <2>4
<1>10. CASE MainLock
  <2>1. thr[t] \notin {"copy", "signal"}
    BY <1>2, <1>6, <1>10 DEF MainLock
  <2> QED  BY <1>2, <1>6, <1>10, <2>1 DEF MainLock
<1>11. CASE TestSet \/ TestUnset
  <2>1. thr[t] \notin {"copy", "signal"}
    BY <1>2, <1>3, <1>6, <1>11 DEF TestSet, TestUnset
  <2>2. pc' = "wait" /\ t = i => tids[t] = 0
    BY <1>11 DEF TestSet, TestUnset
  <2> QED  BY <1>2, <1>6, <1>11, <2>1, <2>2 DEF TestSet, TestUnset
<1>12. CASE Relock
  BY <1>2, <1>6, <1>12 DEF Relock
<1>13. CASE Attach
  BY <1>2, <1>6, <1>13 DEF Attach
<1>14. CASE JoinDestroy \/ Deconnect
  BY <1>2, <1>6, <1>14 DEF JoinDestroy, Deconnect
<1> QED  BY <1>7, <1>8, <1>9, <1>10, <1>11, <1>12, <1>13, <1>14 DEF MainStep

LEMMA ThreadStands ==
    ASSUME SInv, NEW e \in Threads, ThreadStep(e)
    PROVE  SInv'
<1>1. TypeOK /\ IndexOK /\ TypeOK' /\ IndexOK'
  BY ThreadTypeOK DEF SInv
<1>2. /\ i \in Int /\ N \in Nat
      /\ \A t \in Threads : t \in Int /\ t >= 0 /\ t < N /\ t # Main /\ t # Nobody
  BY <1>1, MonitorAssumption DEF TypeOK, Threads, Main, Nobody
<1>3. Main # Nobody /\ (pc = "test" <=> lock = Main) /\ Stands(e)
  BY DEF SInv, Main, Nobody
<1>4. i' = i /\ tpar' = tpar /\ (pc' = pc \/ (pc = "wait" /\ pc' = "relock"))
  BY DEF ThreadStep, ReadNum, ReadPar, ThreadLock, Copy, Signal, Finish, daemon
<1>5. \A t \in Threads : t # e => thr'[t] = thr[t] /\ num'[t] = num[t]
  BY <1>1 DEF ThreadStep, ThreadGoes, ReadNum, ReadPar, ThreadLock, Copy, Signal, Finish, TypeOK
<1>6. thr[e] # "none" /\ thr'[e] # "none"
  BY <1>1 DEF ThreadStep, ThreadGoes, ReadNum, ReadPar, ThreadLock, Copy, Signal, Finish, TypeOK
<1>7. \A t \in Threads : tids[t] # 0 => tids'[t] # 0
  <2>1. Tid(e) # 0
    BY <1>2 DEF Tid
  <2> QED  BY <1>1, <2>1 DEF ThreadStep, ReadNum, ReadPar, ThreadLock, Copy, Signal, Finish,
                              TypeOK
<1>8. \/ lock' = lock /\ (thr[e] \in {"copy", "signal"} <=> thr'[e] \in {"copy", "signal"})
      \/ lock = Nobody /\ lock' = e /\ thr'[e] \in {"copy", "signal"}
      \/ lock = e /\ lock' = Nobody /\ thr'[e] \notin {"copy", "signal"}
  BY <1>1, <1>3 DEF ThreadStep, ThreadGoes, ReadNum, ReadPar, ThreadLock, Copy, Signal, Finish,
                    TypeOK, Stands
<1>9. pc' = "test" <=> lock' = Main
  BY <1>2, <1>3, <1>4, <1>8
<1>10. ASSUME NEW t \in Threads, t # e PROVE Stands(t)'
  <2>1. Stands(t)
    BY DEF SInv
  <2> QED  BY <1>2, <1>4, <1>5, <1>7, <1>8, <1>10, <2>1 DEF Stands, Before, Behind, Filling
<1>11. Stands(e)'
  <2>1. thr'[e] \in {"copy", "signal"} <=> lock' = e
    BY <1>2, <1>3, <1>8 DEF Stands
  <2>2. ASSUME pc \in Behind, e = i
        PROVE  /\ thr'[e] \in {"read_par", "lock", "copy", "signal"} => num'[e] = e
               /\ thr'[e] \in {"signal", "loop", "done"} => tids'[e] # 0
               /\ pc' = "wait" => thr'[e] \notin {"loop", "done"}
    <3> USE <1>3, <2>2 DEF Stands, ThreadGoes
    <3>1. CASE ReadNum(e)
      <4>1. thr[e] = "read_num" /\ thr'[e] = "read_par" /\ num'[e] = e
        BY <1>1, <3>1 DEF ReadNum, TypeOK
      <4> QED  BY <4>1
    <3>2. CASE ReadPar(e)
      <4>1. thr[e] = "read_par" /\ thr'[e] = "lock" /\ num' = num
        BY <1>1, <3>2 DEF ReadPar, TypeOK
      <4> QED  BY <4>1
    <3>3. CASE ThreadLock(e)
      <4>1. thr[e] = "lock" /\ thr'[e] = "copy" /\ num' = num
        BY <1>1, <3>3 DEF ThreadLock, TypeOK
      <4> QED  BY <4>1
    <3>4. CASE Copy(e)
      <4>1. thr[e] = "copy" /\ thr'[e] = "signal" /\ num' = num /\ num[e] = e
        BY <1>1, <3>4 DEF Copy, TypeOK
      <4>2. tids'[e] = Tid(e) /\ Tid(e) # 0
        BY <1>1, <1>2, <3>4, <4>1 DEF Copy, TypeOK, Tid
      <4> QED  BY <4>1, <4>2
    <3>5. CASE Signal(e)
      <4>1. thr[e] = "signal" /\ thr'[e] = "loop" /\ tids' = tids /\ pc' # "wait"
        BY <1>1, <3>5 DEF Signal, TypeOK
      <4> QED  BY <4>1
    <3>6. CASE Finish(e)
      <4>1. thr[e] = "loop" /\ thr'[e] = "done" /\ tids' = tids /\ pc' = pc
        BY <1>1, <3>6 DEF Finish, TypeOK
      <4> QED  BY <4>1
    <3> QED  BY <3>1, <3>2, <3>3, <3>4, <3>5, <3>6 DEF ThreadStep
  <2> QED  BY <1>3, <1>4, <1>6, <2>1, <2>2 DEF Stands, Before, Behind, Filling
<1> QED  BY <1>1, <1>9, <1>10, <1>11 DEF SInv

LEMMA StandsAlways == Spec => []SInv
<1>1. SInv /\ [Next]_vars => SInv'
  <2> SUFFICES ASSUME SInv, [Next]_vars PROVE SInv'
    OBVIOUS
  <2>1. CASE SpuriousWakeup
    <3>1. TypeOK' /\ IndexOK'
      BY <2>1, MonitorAssumption
         DEF SpuriousWakeup, SInv, TypeOK, IndexOK, Goes, threads, daemon, Filling, Behind
    <3> QED  BY <2>1, <3>1 DEF SpuriousWakeup, SInv, Stands, Goes, threads, daemon, Filling,
                               Before, Behind
  <2>2. CASE UNCHANGED vars
    BY <2>2 DEF vars, threads, daemon, SInv, TypeOK, IndexOK, Stands
  <2> QED  BY <2>1, <2>2, MainStands, ThreadStands DEF Next
<1> QED  BY <1>1, StandsAtFirst, PTL DEF Spec

(* However many waits end without a signal, no signal is missed: the        *)
(* variable is tested and the wait begun under the mutex, so a wait always  *)
(* has its signal before it (lock_and_test, copy_and_signal).               *)
THEOREM NoSignalMissed == Spec => []SignalToCome
<1>1. SInv => SignalToCome
  <2> SUFFICES ASSUME SInv, pc = "wait" PROVE thr[i] \notin {"loop", "done"}
    BY DEF SignalToCome
  <2>1. i \in Threads
    BY MonitorAssumption DEF SInv, IndexOK, Behind, TypeOK, Threads
  <2> QED  BY <2>1 DEF SInv, Stands
<1> QED  BY <1>1, StandsAlways, PTL

(* The main thread and the threads never wait for each other: as long as    *)
(* the program runs, some of them can take a step.                          *)
THEOREM NeverAllStuck == Spec => []NeverStuck
<1>1. SInv => NeverStuck
  <2> SUFFICES ASSUME SInv, pc \notin {"end", "exit"}, \A t \in Threads : thr[t] # "failed",
                      ~MainCan
               PROVE  \E t \in Threads : ThreadCan(t)
    BY DEF NeverStuck
  <2>1. pc \in {"lock", "wait", "relock", "join"} /\ TypeOK /\ i \in 0 .. N /\ N \in Nat
    BY MonitorAssumption DEF SInv, TypeOK, MainCan
  <2>2. ASSUME lock # Nobody PROVE \E t \in Threads : ThreadCan(t)
    <3>1. lock \in Threads
      BY <2>1, <2>2 DEF SInv, TypeOK
    <3>2. thr[lock] \in {"copy", "signal"}
      BY <3>1 DEF SInv, Stands
    <3> QED  BY <2>1, <3>1, <3>2 DEF ThreadCan
  <2>3. ASSUME lock = Nobody PROVE \E t \in Threads : ThreadCan(t)
    <3>1. pc \in {"wait", "join"} /\ (pc = "join" => i # N /\ thr[i] # "done")
      BY <2>1, <2>3 DEF MainCan
    <3>2. i \in Threads
      BY <2>1, <3>1 DEF SInv, IndexOK, Behind, Threads
    <3>3. thr[i] \notin {"none", "failed", "done"}
      BY <3>1, <3>2 DEF SInv, Stands, Behind
    <3>4. thr[i] \in {"read_num", "read_par", "lock", "copy", "signal", "loop"}
      BY <2>1, <3>2, <3>3 DEF TypeOK
    <3> QED  BY <2>1, <2>3, <3>2, <3>4 DEF ThreadCan
  <2> QED  BY <2>2, <2>3
<1> QED  BY <1>1, StandsAlways, PTL
=============================================================================
