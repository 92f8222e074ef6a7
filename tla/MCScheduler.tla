---------------------------- MODULE MCScheduler ----------------------------
(***************************************************************************)
(* Constants for checking Scheduler on small instances.  1.0f is 4, every  *)
(* quotient of a budget and a period below is exact in quarters.           *)
(***************************************************************************)
EXTENDS Scheduler

P(b, p, d, prio) == [budget |-> b, period |-> p, deadline |-> d, priority |-> prio]
E(w, p) == [wcet |-> w, period |-> p]

(* The pools of schedconfig.cfg, shrunk: two SSRM priorities per CPU.       *)
PoolMin == [p \in Plugins |-> CASE p = EDF -> 9 [] p = SSRM -> 5 [] p = FP -> 1 [] p = RR -> 1]
PoolMax == [p \in Plugins |-> CASE p = EDF -> 9 [] p = SSRM -> 6 [] p = FP -> 4 [] p = RR -> 9]

(* Budget and period declared: EDF, and SSRM or FP.                         *)
Declared == {P(3, 4, 4, 0), P(2, 4, 0, 1), P(2, 8, 0, 3), P(1, 4, 2, 0)}

(* Something left to the estimates: FP, RR; and SSRM, which leaves nothing. *)
Estimated == {P(0, 0, 0, 1), P(0, 4, 0, 0), P(1, 4, 0, 0)}

OneParam == {P(1, 4, 0, 0)}

NoEstimate == {E(1, 2)}
SomeEstimates == {E(1, 4), E(6, 4)}

PidSymmetry == Permutations(Pids)
=============================================================================
