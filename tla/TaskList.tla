------------------------------ MODULE TaskList ------------------------------
(***************************************************************************)
(* What a taskset promises its callers: a sequence of tasks and the task   *)
(* the last removal or search handed out.  Every operation is one step.    *)
(* The module LinkedList implements it with nodes and pointers.            *)
(***************************************************************************)
EXTENDS TaskSet

CONSTANTS Tasks,  \* the tasks there are
          Keys,   \* for each key of a removal or search, the tasks it matches
          NULL    \* what is returned when there is no task to return

VARIABLES list,
          ret

Hits(key) == {i \in 1 .. Len(list) : list[i] \in key}

Init == list = <<>> /\ ret = NULL

Insert(t) == /\ list' \in {AddTop(list, t), AddSorted(list, t)}
             /\ UNCHANGED ret

Take(key) ==
    LET k == RemoveIndex(list, Hits(key))
    IN  IF k = 0 THEN ret' = NULL /\ UNCHANGED list
                 ELSE ret' = list[k] /\ list' = RemoveAt(list, k)

Search(key) ==
    LET k == SearchIndex(list, Hits(key))
    IN  /\ ret' = IF k = 0 THEN NULL ELSE list[k]
        /\ UNCHANGED list

Next == \/ \E t \in Tasks : Insert(t)
        \/ \E key \in Keys : Take(key) \/ Search(key)

Spec == Init /\ [][Next]_<<list, ret>>
=============================================================================
