---------------------------- MODULE MCEstimates ----------------------------
(* Scaled-down time: a second of 4 ms, a millisecond of 3 units of tv_nsec, *)
(* words of 4 bits, so that the clocks wrap within three activations.  The  *)
(* thread declares nothing, a deadline only, or everything: below the wrap  *)
(* of the nanoseconds and above it.                                         *)
EXTENDS Estimates

Declared(b, p, d) == [budget |-> b, period |-> p, deadline |-> d]
SomeConfigs == {Declared(0, 0, 0), Declared(0, 0, 2), Declared(2, 5, 4),
                Declared(2, 6, 6)}

SomeSkews == {0, 6}
============================================================================
