---------------------------- MODULE MCLifecycle ----------------------------
(* Two daemons, started and ended any number of times, over every plugin    *)
(* file of Lines entries: there or not, with or without the '!' line, with  *)
(* or without a newline at the end, any of the objects in place.            *)
EXTENDS Lifecycle

CONSTANT Lines

SomeFiles == [present : BOOLEAN, marked : BOOLEAN, newline : BOOLEAN,
              lines : {Lines}, libs : SUBSET (0 .. Lines - 1)]
============================================================================
