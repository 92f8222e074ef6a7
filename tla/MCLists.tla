------------------------------ MODULE MCLists ------------------------------
(***************************************************************************)
(* LinkedList on a heap of three nodes and four tasks of two clients.      *)
(***************************************************************************)
EXTENDS LinkedList

T(id, ptid, period) == [id |-> id, ptid |-> ptid, period |-> period]
SomeTasks == {T(1, "a", 4), T(2, "b", 2), T(3, "a", 4), T(4, "b", 6)}
SomeKeys == {{t \in SomeTasks : t.id = id} : id \in 1 .. 2}
            \cup {{t \in SomeTasks : t.ptid = p} : p \in {"a", "b"}}
=============================================================================
