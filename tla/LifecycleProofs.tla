-------------------------- MODULE LifecycleProofs --------------------------
(***************************************************************************)
(* For any number of daemons and any plugin files: the limit is removed    *)
(* exactly while the one clean daemon runs, its value is lost only by the  *)
(* named faults, and a whole file loads wholly.                            *)
(***************************************************************************)
EXTENDS Lifecycle, TLAPS

(* While a daemon holds what it read, that is a value of the kernel's file. *)
SavedSet == \A d \in Daemons : pc[d] \in Holding => saved[d] \in {Orig, Unlimited}

(* At most one daemon is between the reading and the restoring.             *)
OneHolds ==
    \A d, e \in Daemons : d # e /\ pc[d] \in Holding => pc[e] \notin Holding

Removed == \E d \in Daemons : pc[d] \in Holding \ {"read"}

LimitFollows == limit = Unlimited <=> Removed

(* Whoever holds a value holds the administrator's, shares out that, and    *)
(* has the path once it has bound it.                                       *)
HoldsOrig ==
    \A d \in Daemons :
       /\ pc[d] \in Holding => saved[d] = Orig
       /\ pc[d] \in {"register", "loop", "term"} => free[d] = Orig
       /\ pc[d] \in {"plugins", "register", "loop", "term"} => path = d

CleanInv == clean => OneHolds /\ LimitFollows /\ HoldsOrig

IInv == TypeOK /\ SavedSet /\ CleanInv /\ WholeFileLoads

Handlers(d) ==
    \/ ReadLimit(d) \/ RemoveLimit(d) \/ BindCarrier(d) \/ BindFails(d)
    \/ SchedulerInit(d) \/ RegisterSigInt(d) \/ NullCall(d)
    \/ SigInt(d) \/ Restore(d) \/ Exit(d) \/ Die(d)

(* What the table of a plugin file counts and loads: loaded entries are     *)
(* counted ones, and a whole file is counted and loaded as it is.           *)
LEMMA TableFacts ==
    ASSUME NEW f \in Files
    PROVE  /\ PluginsInit(f).loaded \subseteq 0 .. PluginsInit(f).num - 1
           /\ Whole(f) => PluginsInit(f) = [num |-> f.lines, loaded |-> 0 .. f.lines - 1]
<1>1. f.lines \in Nat /\ f.libs \subseteq 0 .. f.lines - 1  BY LifecycleAssumption
<1>2. LoadLibraries(f) \subseteq 0 .. CountPlugins(f) - 1  BY DEF LoadLibraries
<1>3. PluginsInit(f).loaded \subseteq 0 .. PluginsInit(f).num - 1
  BY <1>2 DEF PluginsInit
<1>4. ASSUME Whole(f)
      PROVE  PluginsInit(f) = [num |-> f.lines, loaded |-> 0 .. f.lines - 1]
  <2>1. CountPlugins(f) = f.lines  BY <1>1, <1>4 DEF Whole, CountPlugins
  <2>2. \A i \in 0 .. f.lines - 1 : \A j \in 0 .. i : j \in f.libs
    BY <1>1, <1>4 DEF Whole
  <2>3. LoadLibraries(f) = 0 .. f.lines - 1  BY <2>1, <2>2 DEF LoadLibraries
  <2> QED  BY <1>4, <2>1, <2>3 DEF PluginsInit, Whole
<1> QED  BY <1>3, <1>4

LEMMA InitIInv == Init => IInv
<1> SUFFICES ASSUME Init PROVE IInv  OBVIOUS
<1>1. TypeOK  BY LifecycleAssumption DEF Init, TypeOK, Phases, Holding
<1>2. SavedSet /\ CleanInv /\ WholeFileLoads
  BY LifecycleAssumption
     DEF Init, SavedSet, CleanInv, OneHolds, LimitFollows, HoldsOrig, Removed,
         WholeFileLoads, Holding
<1> QED  BY <1>1, <1>2 DEF IInv

LEMMA StepTypeOK ==
    ASSUME TypeOK, SavedSet, NEW d \in Daemons, Handlers(d)
    PROVE  TypeOK'
<1> USE LifecycleAssumption DEF TypeOK, Goes, Phases, Holding
<1>1. CASE ReadLimit(d)  BY <1>1 DEF ReadLimit, Alone
<1>2. CASE RemoveLimit(d)  BY <1>2 DEF RemoveLimit
<1>3. CASE BindCarrier(d)  BY <1>3 DEF BindCarrier
<1>4. CASE BindFails(d)  BY <1>4 DEF BindFails
<1>5. CASE SchedulerInit(d)
  <2>1. saved[d] \in {Orig, Unlimited}  BY <1>5 DEF SchedulerInit, SavedSet
  <2>2. free' \in [Daemons -> {0, Orig, RtPeriod}]  BY <1>5, <2>1 DEF SchedulerInit
  <2>3. \A e \in Daemons : table'[e].loaded \subseteq 0 .. table'[e].num - 1
    <3> TAKE e \in Daemons
    <3> QED  BY <1>5, TableFacts DEF SchedulerInit
  <2>4. table' = [e \in Daemons |-> table'[e]]  BY <1>5 DEF SchedulerInit
  <2> QED  BY <1>5, <2>2, <2>3, <2>4 DEF SchedulerInit
<1>6. CASE RegisterSigInt(d)  BY <1>6 DEF RegisterSigInt
<1>7. CASE NullCall(d)  BY <1>7 DEF NullCall
<1>8. CASE SigInt(d)  BY <1>8 DEF SigInt
<1>9. CASE Restore(d)  BY <1>9 DEF Restore, SavedSet
<1>10. CASE Exit(d)  BY <1>10 DEF Exit
<1>11. CASE Die(d)  BY <1>11 DEF Die
<1> QED  BY <1>1, <1>2, <1>3, <1>4, <1>5, <1>6, <1>7, <1>8, <1>9, <1>10, <1>11
         DEF Handlers

LEMMA StepSavedSet ==
    ASSUME TypeOK, SavedSet, NEW d \in Daemons, Handlers(d)
    PROVE  SavedSet'
BY LifecycleAssumption
   DEF SavedSet, TypeOK, Handlers, Goes, Holding, ReadLimit, RemoveLimit, BindCarrier,
       BindFails, SchedulerInit, RegisterSigInt, NullCall, SigInt, Restore, Exit, Die

(* The table is made once, from the file that is there.                     *)
LEMMA StepLoads ==
    ASSUME TypeOK, WholeFileLoads, NEW d \in Daemons, Handlers(d)
    PROVE  WholeFileLoads'
<1> SUFFICES ASSUME Whole(file)', NEW e \in Daemons, pc'[e] \in {"register", "loop", "term"}
             PROVE  table'[e] = [num |-> file'.lines, loaded |-> 0 .. file'.lines - 1]
  BY DEF WholeFileLoads
<1>1. file' = file /\ file \in Files
  BY DEF TypeOK, Handlers, ReadLimit, RemoveLimit, BindCarrier, BindFails, SchedulerInit,
         RegisterSigInt, NullCall, SigInt, Restore, Exit, Die
<1>2. Whole(file)  BY <1>1 DEF Whole
<1>3. CASE SchedulerInit(d)
  <2>1. CASE e = d
    <3>1. table'[e] = PluginsInit(file)
      BY <1>3, <2>1 DEF SchedulerInit, TypeOK
    <3> QED  BY <1>1, <1>2, <3>1, TableFacts
  <2>2. CASE e # d
    <3>1. pc[e] = pc'[e] /\ table'[e] = table[e]
      BY <1>3, <2>2 DEF SchedulerInit, Goes, TypeOK
    <3> QED  BY <1>1, <1>2, <3>1 DEF WholeFileLoads
  <2> QED  BY <2>1, <2>2
<1>4. CASE ~SchedulerInit(d)
  <2>1. table' = table
    BY <1>4 DEF Handlers, ReadLimit, RemoveLimit, BindCarrier, BindFails, RegisterSigInt,
                NullCall, SigInt, Restore, Exit, Die
  <2>2. pc[e] \in {"register", "loop", "term"}
    BY <1>4 DEF Handlers, Goes, TypeOK, ReadLimit, RemoveLimit, BindCarrier, BindFails,
                RegisterSigInt, NullCall, SigInt, Restore, Exit, Die
  <2> QED  BY <1>1, <1>2, <2>1, <2>2 DEF WholeFileLoads
<1> QED  BY <1>3, <1>4

(* What stays clean was clean; only a daemon that holds changes the limit,  *)
(* and as it is the only one, the limit follows it.                         *)
LEMMA StepClean ==
    ASSUME TypeOK, SavedSet, CleanInv, NEW d \in Daemons, Handlers(d)
    PROVE  CleanInv'
<1> SUFFICES ASSUME clean'
             PROVE  OneHolds' /\ LimitFollows' /\ HoldsOrig'
  BY DEF CleanInv
<1> USE LifecycleAssumption DEF TypeOK, Goes, Phases, Holding
<1>1. clean
  BY DEF Handlers, ReadLimit, RemoveLimit, BindCarrier, BindFails, SchedulerInit,
         RegisterSigInt, NullCall, SigInt, Restore, Exit, Die
<1>2. OneHolds /\ LimitFollows /\ HoldsOrig
  BY <1>1 DEF CleanInv
<1>3. OneHolds'
  <2>1. CASE ReadLimit(d)
    BY <2>1, <1>1 DEF OneHolds, Alone, ReadLimit
  <2>2. CASE ~ReadLimit(d)
    <3>1. \A e \in Daemons : pc'[e] \in Holding => pc[e] \in Holding
      BY <2>2 DEF Handlers, RemoveLimit, BindCarrier, BindFails, SchedulerInit,
                  RegisterSigInt, NullCall, SigInt, Restore, Exit, Die
    <3> QED  BY <1>2, <3>1 DEF OneHolds
  <2> QED  BY <2>1, <2>2
<1>4. HoldsOrig'
  <2>1. CASE ReadLimit(d)
    <3>1. \A e \in Daemons \ {d} : pc[e] \notin Holding
      BY <2>1 DEF ReadLimit, Alone
    <3>2. ~Removed
      BY <2>1, <3>1 DEF ReadLimit, Removed
    <3>3. limit = Orig
      BY <1>2, <3>2 DEF LimitFollows
    <3> QED  BY <1>2, <2>1, <3>1, <3>3 DEF ReadLimit, HoldsOrig
  <2>2. CASE BindCarrier(d)
    BY <1>2, <2>2 DEF BindCarrier, HoldsOrig, OneHolds
  <2>3. CASE SchedulerInit(d)
    BY <1>2, <2>3 DEF HoldsOrig, SchedulerInit
  <2>4. CASE BindFails(d)
    BY <2>4 DEF BindFails
  <2>5. CASE RemoveLimit(d) \/ RegisterSigInt(d) \/ NullCall(d) \/ SigInt(d)
             \/ Restore(d) \/ Exit(d) \/ Die(d)
    <3>1. UNCHANGED <<path, saved, free>>
      BY <2>5 DEF RemoveLimit, RegisterSigInt, NullCall, SigInt, Restore, Exit, Die
    <3>2. \A e \in Daemons :
             /\ pc'[e] \in Holding => pc[e] \in Holding
             /\ pc'[e] \in {"register", "loop", "term"} =>
                    pc[e] \in {"register", "loop", "term"}
             /\ pc'[e] = "plugins" => pc[e] = "plugins"
      BY <2>5 DEF RemoveLimit, RegisterSigInt, NullCall, SigInt, Restore, Exit, Die
    <3> QED  BY <1>2, <3>1, <3>2 DEF HoldsOrig
  <2> QED  BY <2>1, <2>2, <2>3, <2>4, <2>5 DEF Handlers
<1>5. LimitFollows'
  <2>1. CASE RemoveLimit(d)
    BY <2>1 DEF RemoveLimit, LimitFollows, Removed
  <2>2. CASE Restore(d)
    <3>1. limit' = Orig
      BY <1>2, <2>2 DEF Restore, HoldsOrig
    <3>2. \A e \in Daemons : pc'[e] \notin Holding
      BY <1>2, <2>2 DEF Restore, OneHolds
    <3> QED  BY <3>1, <3>2 DEF LimitFollows, Removed
  <2>3. CASE ~RemoveLimit(d) /\ ~Restore(d)
    <3>1. limit' = limit
      BY <2>3 DEF Handlers, ReadLimit, BindCarrier, BindFails, SchedulerInit,
                  RegisterSigInt, NullCall, SigInt, Exit, Die
    <3>2. \A e \in Daemons : pc'[e] \in Holding \ {"read"} <=> pc[e] \in Holding \ {"read"}
      BY <2>3, <1>1 DEF Handlers, ReadLimit, BindCarrier, BindFails, SchedulerInit,
                        RegisterSigInt, NullCall, SigInt, Exit, Die
    <3> QED  BY <1>2, <3>1, <3>2 DEF LimitFollows, Removed
  <2> QED  BY <2>1, <2>2, <2>3
<1> QED  BY <1>3, <1>4, <1>5

LEMMA Inductive == IInv /\ [Next]_vars => IInv'
<1> SUFFICES ASSUME IInv, [Next]_vars PROVE IInv'  OBVIOUS
<1>1. CASE Next
  <2>1. PICK d \in Daemons : Handlers(d)  BY <1>1 DEF Next, Handlers
  <2> QED  BY <2>1, StepTypeOK, StepSavedSet, StepClean, StepLoads DEF IInv
<1>2. CASE UNCHANGED vars
  BY <1>2 DEF vars, IInv, TypeOK, SavedSet, CleanInv, OneHolds, LimitFollows, HoldsOrig,
              Removed, WholeFileLoads, Whole
<1> QED  BY <1>1, <1>2

(* The inductive invariant holds in every reachable state.                  *)
LEMMA Invariant == Spec => []IInv
BY InitIInv, Inductive, PTL DEF Spec

(* The variables keep their types; in particular the limit is never         *)
(* anything but the administrator's or none (restore_rt_kernel_limit).      *)
THEOREM TypeCorrect == Spec => []TypeOK
BY Invariant, PTL DEF IInv

(* While the daemons run one at a time and end through the handler, the     *)
(* limit is removed exactly while one runs, and restored when it has ended. *)
THEOREM RoundTrip == Spec => []CleanRoundTrip
<1>1. IInv => CleanRoundTrip
  BY DEF IInv, CleanInv, LimitFollows, Removed, HoldsOrig, CleanRoundTrip
<1> QED  BY Invariant, <1>1, PTL

(* A whole plugin file is counted and loaded wholly, however long it is.    *)
THEOREM FileLoads == Spec => []WholeFileLoads
BY Invariant, PTL DEF IInv

(* The administrator's value is lost only by the death of a holder or by a  *)
(* daemon that started while the limit was removed, and never comes back.   *)
THEOREM LossFaulty == Spec => LossNeedsFault
<1> DEFINE Fault ==
      \/ \E d \in Daemons : saved[d] = Orig /\ pc[d] \in Holding /\ pc'[d] = "off"
      \/ \E d \in Daemons : saved[d] = Unlimited /\ pc[d] \in {"read", "term"}
                            /\ pc'[d] \in {"bind", "freeing"}
<1>1. ASSUME IInv, Next
      PROVE  (Kept /\ ~Kept' => Fault) /\ (~Kept => ~Kept')
  <2>1. PICK d \in Daemons : Handlers(d)  BY <1>1 DEF Next, Handlers
  <2> USE LifecycleAssumption DEF Goes, Holding
  <2>2. TypeOK /\ SavedSet  BY <1>1 DEF IInv
  <2>3. ASSUME Kept, ~Kept' PROVE Fault
    BY <2>1, <2>2, <2>3
       DEF Kept, TypeOK, SavedSet, Handlers, ReadLimit, RemoveLimit, BindCarrier, BindFails,
           SchedulerInit, RegisterSigInt, NullCall, SigInt, Restore, Exit, Die
  <2>4. ASSUME ~Kept PROVE ~Kept'
    BY <2>1, <2>2, <2>4
       DEF Kept, TypeOK, SavedSet, Handlers, ReadLimit, RemoveLimit, BindCarrier, BindFails,
           SchedulerInit, RegisterSigInt, NullCall, SigInt, Restore, Exit, Die
  <2> QED  BY <2>3, <2>4
<1>2. IInv /\ [Next]_vars
        => [(Kept /\ ~Kept' => Fault) /\ (~Kept => ~Kept')]_vars
  BY <1>1
<1> QED  BY Invariant, <1>2, PTL DEF Spec, LossNeedsFault
============================================================================
