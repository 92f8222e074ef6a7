----------------------------- MODULE Admission -----------------------------
(***************************************************************************)
(* What the scheduler promises its clients, without its list, its plugins' *)
(* ledgers or its handlers: a grant has an id no other grant ever had, an  *)
(* owner, one CPU and one plugin for as long as it lives; it takes time    *)
(* its CPU has left; grants end one at a time and give time back to their  *)
(* own CPU.  Nothing else changes what a CPU has left.                     *)
(*                                                                         *)
(* How much comes back is not promised: with estimates it may differ from  *)
(* what was taken.  Nor is it promised which grant a removal ends.         *)
(***************************************************************************)
EXTENDS Integers

CONSTANTS CPUs, Plugins, Pids,
          SysUtil  \* the time every CPU has to give

VARIABLES granted,  \* the grants that live
          last,     \* the last id given to a request, granted or not
          free      \* the time each CPU has left

Init ==
    /\ granted = {}
    /\ last = 0
    /\ free = [c \in CPUs |-> SysUtil]

(* Only what CPU c has left may change. *)
Only(c) == \A d \in CPUs \ {c} : free'[d] = free[d]

Grant(owner, c, p) ==
    /\ last' > last
    /\ granted' = granted \cup {[id |-> last', ptid |-> owner, cpu |-> c, pluginid |-> p]}
    /\ 0 <= free'[c] /\ free'[c] <= free[c] /\ Only(c)

Refuse ==
    /\ last' > last
    /\ UNCHANGED <<granted, free>>

End(g) ==
    /\ granted' = granted \ {g}
    /\ free'[g.cpu] >= free[g.cpu] /\ Only(g.cpu)
    /\ UNCHANGED last

Next == \/ \E owner \in Pids, c \in CPUs, p \in Plugins : Grant(owner, c, p)
        \/ Refuse
        \/ \E g \in granted : End(g)

Spec == Init /\ [][Next]_<<granted, last, free>>
=============================================================================
