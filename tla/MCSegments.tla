---------------------------- MODULE MCSegments ----------------------------
(* Two clients, the first with two sets of params, over four inodes: the    *)
(* first and the last have the same key, the third has the key 0.           *)
EXTENDS Segments

CONSTANTS p1, p2, s1, s2, s3, x1, x2, x3, x4, k1, k2

SetOwner == [s \in {s1, s2, s3} |-> IF s = s3 THEN p2 ELSE p1]
InodeKey == [x \in {x1, x2, x3, x4} |->
               IF x = x3 THEN Private ELSE IF x = x2 THEN k2 ELSE k1]
============================================================================
