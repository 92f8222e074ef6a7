------------------------------ MODULE ListSort ------------------------------
(***************************************************************************)
(* The merge sort of the two lists (daemon/components/list_ptr.c and       *)
(* list_int.c, whose texts are the same) and the orders the taskset offers *)
(* to sort by (rts_taskset_sort, task_cmp).  Nothing in the daemon sorts a *)
(* list this way today; the taskset's interface offers it.                 *)
(*                                                                         *)
(* A list is the sequence of the elements linked from its root; less holds *)
(* the pairs <<a, b>> the comparison answers below 0 for.                  *)
(***************************************************************************)
EXTENDS Integers, Sequences, Functions

(* merge returns the list that is empty when one is, not the other one;     *)
(* [<<i, j>>] is what it makes of l1 from i on and l2 from j on.            *)
Merge(l1, l2, less) ==
    LET merge[at \in (1 .. Len(l1) + 1) \X (1 .. Len(l2) + 1)] ==
            LET i == at[1]
                j == at[2]
            IN  IF i > Len(l1) \/ j > Len(l2) THEN <<>>
                ELSE IF <<l1[i], l2[j]>> \in less THEN <<l1[i]>> \o merge[<<i + 1, j>>]
                ELSE <<l2[j]>> \o merge[<<i, j + 1>>]
    IN  merge[<<1, 1>>]

(* split: the last place of the front half of the list from i to j.         *)
FrontEnd(i, j) == i + (j - i) \div 2

(* merge_sort; [<<i, j>>] is what it makes of the list from i to j.         *)
MergeSort(l, less) ==
    LET sort[s \in (1 .. Len(l)) \X (1 .. Len(l))] ==
            LET m == FrontEnd(s[1], s[2])
            IN  IF s[1] >= s[2] THEN <<l[s[1]]>>
                ELSE Merge(sort[<<s[1], m>>], sort[<<m + 1, s[2]>>], less)
    IN  IF l = <<>> THEN l ELSE sort[<<1, Len(l)>>]

(* list_int_sort with int_cmp_asc or int_cmp_dsc.                           *)
IntSort(l, asc) ==
    MergeSort(l, {p \in Range(l) \X Range(l) : IF asc THEN p[1] < p[2] ELSE p[1] > p[2]})

(* task_cmp, below 0: each parameter has its own comparison, DSC flips it.  *)
TaskLess(t1, t2, param, asc) ==
    IF asc THEN t1[param] < t2[param] ELSE t1[param] > t2[param]

(* rts_taskset_sort: a parameter it does not know sorts nothing.            *)
TasksetSort(ts, param, asc) ==
    IF param \in {"period", "deadline", "priority", "wcet"}
    THEN MergeSort(ts, {p \in Range(ts) \X Range(ts) : TaskLess(p[1], p[2], param, asc)})
    ELSE ts
=============================================================================
