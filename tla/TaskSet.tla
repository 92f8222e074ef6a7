------------------------------ MODULE TaskSet ------------------------------
(***************************************************************************)
(* The daemon keeps its reservations in a singly linked list, the taskset  *)
(* (daemon/lib/rts_taskset.c over daemon/components/list_ptr.c).  Here the *)
(* list is a sequence whose first element is the root node, and every      *)
(* operation is the sequence it leaves behind.  An operation that the code *)
(* gives a comparison function gets the set of indexes that function       *)
(* answers "not zero" for.                                                 *)
(***************************************************************************)
EXTENDS Integers, Sequences, SequencesExt

(* What cmp_ppid and cmp_rsvid say of every node: both return 1 on a match. *)
IndexesByPpid(ts, ppid) == {i \in 1 .. Len(ts) : ts[i].ptid = ppid}
IndexesByRsvid(ts, rsvid) == {i \in 1 .. Len(ts) : ts[i].id = rsvid}

----------------------------------------------------------------------------
(* list_ptr_add_top: the new node becomes the root. *)
AddTop(ts, t) == <<t>> \o ts

(* rts_taskset_add_sorted_pr: before the root if strictly smaller, else     *)
(* before the first later node that is not smaller than the new task.       *)
AddSorted(ts, t) ==
    LET stop == {j \in 2 .. Len(ts) : t.period <= ts[j].period}
    IN  IF ts = <<>> \/ t.period < ts[1].period THEN AddTop(ts, t)
        ELSE InsertAt(ts, IF stop = {} THEN Len(ts) + 1 ELSE Min(stop), t)

----------------------------------------------------------------------------
(* The node list_ptr_remove unlinks, 0 for NULL.  The root goes if the      *)
(* comparison function answers "not zero" for it; otherwise the loop skips  *)
(* every further node it answers "not zero" for, and the first one it       *)
(* answers zero for goes.                                                   *)
RemoveIndex(ts, hits) ==
    LET misses == (2 .. Len(ts)) \ hits
    IN  IF ts = <<>> THEN 0
        ELSE IF 1 \in hits THEN 1
        ELSE IF misses = {} THEN 0
        ELSE Min(misses)

(* list_ptr_search_elem returns the first node its comparison function      *)
(* answers zero for, 0 for NULL.                                            *)
SearchIndex(ts, hits) ==
    LET misses == (1 .. Len(ts)) \ hits
    IN  IF misses = {} THEN 0 ELSE Min(misses)

(* The iterator loops of attach and detach stop at the first node whose id  *)
(* is the one asked for, 0 if they run off the list.                        *)
IterIndex(ts, rsvid) ==
    LET hits == IndexesByRsvid(ts, rsvid)
    IN  IF hits = {} THEN 0 ELSE Min(hits)

----------------------------------------------------------------------------
(* The nodes at the places K, in the order of the list; [n] is what the     *)
(* first n nodes contribute.                                                *)
Chosen(ts, K) ==
    LET chosen[n \in 0 .. Len(ts)] ==
            IF n = 0 THEN <<>>
            ELSE IF n \in K THEN Append(chosen[n - 1], ts[n])
            ELSE chosen[n - 1]
    IN  chosen

(* What is left when remove_by_ppid has been called until it returns NULL   *)
(* (rts_scheduler_delete, rts_taskset_remove_all_by_ppid): nothing if every *)
(* task matches, otherwise the first task that does not match followed by   *)
(* the tasks after it that do.                                              *)
DeleteAll(ts, ppid) ==
    LET misses == (1 .. Len(ts)) \ IndexesByPpid(ts, ppid)
        k == Min(misses)
        behind == {i \in IndexesByPpid(ts, ppid) : i > k}
    IN  IF misses = {} THEN <<>> ELSE Chosen(ts, {k} \cup behind)[Len(ts)]
=============================================================================
