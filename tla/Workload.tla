------------------------------ MODULE Workload ------------------------------
(***************************************************************************)
(* workload_analysis of the SSRM plugin (daemon/plugin/sched_SSRM.c) with  *)
(* the list of integers it keeps its test points in                        *)
(* (daemon/components/list_int.c), for a list whose elements are read as   *)
(* what they are.  The code reads the nodes in their place                 *)
(* (list_ptr_get_i_elem), which is why the module Plugins leaves its       *)
(* answer open; this module says what the answer would be.                 *)
(***************************************************************************)
EXTENDS Plugins

IntAddTop(l, e) == <<e>> \o l

(* list_int_add_sorted with cmp: before the root if smaller, else before    *)
(* the first later element that is not smaller.                             *)
IntAddSorted(l, e) ==
    LET stop == {j \in 2 .. Len(l) : e <= l[j]}
    IN  IF l = <<>> \/ e < l[1] THEN IntAddTop(l, e)
        ELSE InsertAt(l, IF stop = {} THEN Len(l) + 1 ELSE Min(stop), e)

IntSearch(l, e) == \E j \in 1 .. Len(l) : l[j] = e

(* workload_function: what task i and the tasks before it ask for in the    *)
(* first t units of time.                                                   *)
WorkloadFunction(ts, i, t) ==
    LET ceil(a, b) == (a + b - 1) \div b
        asks == [j \in Nat |->
                    CASE j = i -> ts[j].wcet
                      [] j \in 1 .. i - 1 -> ceil(t, ts[j].period) * ts[j].wcet
                      [] OTHER -> 0]
    IN  PrefixSum(asks)[i]

(* A seeded fault of TestingSet: a deadline left at 0 is the period.        *)
TestingSetPeriods(ts, points, i) ==
    LET deadline == IF ts[i].deadline = 0 THEN ts[i].period ELSE ts[i].deadline
    IN  IntAddTop(points, deadline)

(* testing_set_fp: the deadline of task i and the multiples below it of the *)
(* periods before it join the points of the tasks already tested.           *)
TestingSet(ts, points, i) ==
    LET multiples(j) == LET p == ts[j].period
                        IN  [k \in 1 .. (ts[i].deadline - 1) \div p |-> k * p]
        add(l, e) == IF IntSearch(l, e) THEN l ELSE IntAddSorted(l, e)
        joined[j \in 0 .. i - 1] ==
            IF j = 0 THEN IntAddTop(points, ts[i].deadline)
            ELSE FoldLeft(add, joined[j - 1], multiples(j))
    IN  joined[i - 1]

(* workload_analysis: tasks are tested in turn, up to the first that fits   *)
(* at none of the points.                                                   *)
WorkloadAnalysis(ts) ==
    LET run[i \in 0 .. Len(ts)] ==
          IF i = 0 THEN [points |-> <<>>, fits |-> TRUE]
          ELSE IF ~run[i - 1].fits THEN run[i - 1]
          ELSE LET points == TestingSet(ts, run[i - 1].points, i)
               IN  [points |-> points,
                    fits |-> \E j \in 1 .. Len(points) :
                                WorkloadFunction(ts, i, points[j]) <= points[j]]
    IN  ts # <<>> /\ run[Len(ts)].fits

=============================================================================
