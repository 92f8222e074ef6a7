----------------------------- MODULE LinkedList -----------------------------
(***************************************************************************)
(* The linked list under the taskset (daemon/components/list_ptr.c),       *)
(* store by store, and the SIGINT handler of the daemon, which walks and   *)
(* frees the same list whatever the loop was doing (daemon/daemon.c,       *)
(* rts_daemon_destroy).  The daemon is compiled with -O0, so that stores   *)
(* happen in the order of the text.                                        *)
(*                                                                         *)
(* A step is a store, or a run of stores that touch only what the handler  *)
(* cannot reach.  Reads of the whole list are one step.                    *)
(***************************************************************************)
EXTENDS ListSort, FiniteSets

CONSTANTS Nodes,  \* the heap; when all are taken calloc fails
          Tasks,  \* the tasks that are put into the list, each with a period
          Keys,   \* for each key of a removal or search, the tasks it matches
          NULL

ASSUME LinkedListAssumption ==
    /\ NULL \notin Nodes /\ IsFiniteSet(Nodes)
    /\ \A t \in Tasks : t.period \in Nat
    /\ Keys \subseteq SUBSET Tasks

VARIABLES next, elem,  \* the fields of the nodes
          allocated,   \* the nodes calloc gave out and free did not take back
          root, n,     \* struct list_ptr
          pc,          \* what the call under way does next; "idle": none is
          task, key,   \* its argument: the task to add, the key to compare with
          seek, prec,  \* the local variables; seek is also the node added
          ret,         \* the task the last removal or search returned
          end          \* how the process ended, "no" while it runs

list == <<next, elem, allocated, root, n>>
local == <<task, key, seek, prec>>
vars == <<list, pc, local, ret, end>>

Init ==
    /\ next = [x \in Nodes |-> NULL] /\ elem = [x \in Nodes |-> NULL]
    /\ allocated = {} /\ root = NULL /\ n = 0
    /\ pc = "idle" /\ task = NULL /\ key = NULL /\ seek = NULL /\ prec = NULL
    /\ ret = NULL /\ end = "no"

(* iterator_init, iterator_get_next: the nodes from the root to NULL.  The  *)
(* walk is cut where it would meet a node again.                            *)
Linked ==
    LET walk[k \in 0 .. Cardinality(Nodes)] ==
          IF k = 0 THEN <<>>
          ELSE LET w == walk[k - 1]
                   x == IF w = <<>> THEN root ELSE next[w[Len(w)]]
               IN  IF x = NULL \/ Len(w) < k - 1 THEN w ELSE Append(w, x)
    IN  walk[Cardinality(Nodes)]

Content == [k \in 1 .. Len(Linked) |-> elem[Linked[k]]]

(* list_ptr_get_i_node, 0-based: NULL beyond n, else i steps from the root. *)
INode(i) ==
    LET steps[j \in 0 .. i] == IF j = 0 THEN root ELSE next[steps[j - 1]]
    IN  IF n < i + 1 THEN NULL ELSE steps[i]

Return == /\ pc' = "idle"
          /\ task' = NULL /\ key' = NULL /\ seek' = NULL /\ prec' = NULL

----------------------------------------------------------------------------
(* ADDITION *)

(* rts_scheduler_assign adds on top a task that is in no list.              *)
AddTopCall(t) ==
    /\ pc = "idle" /\ end = "no" /\ \A x \in allocated : elem[x] # t
    /\ pc' = "top calloc" /\ task' = t
    /\ UNCHANGED <<list, key, seek, prec, ret, end>>

(* list_ptr_add_sorted up to calloc: on top if smaller than the root.       *)
AddSortedCall(t) ==
    /\ pc = "idle" /\ end = "no" /\ \A x \in allocated : elem[x] # t
    /\ pc' = IF n = 0 \/ t.period < elem[root].period
                 THEN "sorted top calloc" ELSE "sorted calloc"
    /\ task' = t
    /\ UNCHANGED <<list, key, seek, prec, ret, end>>

Callocs == {"top calloc", "sorted top calloc", "sorted calloc"}

(* calloc and the stores into the new node, which no one else can reach.    *)
(* Addresses decide nothing, so any free one stands for all.                *)
Calloc ==
    /\ pc \in Callocs /\ end = "no"
    /\ allocated # Nodes
    /\ LET x == CHOOSE x \in Nodes : x \notin allocated
       IN  /\ allocated' = allocated \cup {x}
           /\ elem' = [elem EXCEPT ![x] = task]
           /\ IF pc = "sorted calloc"
                 THEN /\ next' = [next EXCEPT ![x] = next[root]]
                      /\ prec' = root /\ pc' = "place"
                 ELSE /\ next' = [next EXCEPT ![x] = root]
                      /\ prec' = prec
                      /\ pc' = IF pc = "top calloc" THEN "count" ELSE "sorted count"
           /\ seek' = x
    /\ UNCHANGED <<root, n, task, key, ret, end>>

(* alloc when the system is out of memory: exit(-1), with the kernel's      *)
(* limit as it is.                                                          *)
CallocFails ==
    /\ pc \in Callocs /\ end = "no" /\ allocated = Nodes
    /\ end' = "exit"
    /\ UNCHANGED <<list, pc, local, ret>>

(* A seeded fault of Count: the root is set first.                          *)
CountLinksFirst ==
    /\ pc \in {"count", "sorted count"} /\ end = "no"
    /\ root' = seek /\ pc' = "link"
    /\ UNCHANGED <<next, elem, allocated, n, local, ret, end>>

(* list_ptr_add_top: l->n++ ...                                             *)
Count ==
    /\ pc \in {"count", "sorted count"} /\ end = "no"
    /\ n' = n + 1
    /\ pc' = IF pc = "count" THEN "link" ELSE "sorted link"
    /\ UNCHANGED <<next, elem, allocated, root, local, ret, end>>

(* ... and then l->root = n.                                                *)
Link ==
    /\ pc \in {"link", "sorted link"} /\ end = "no"
    /\ root' = seek /\ Return
    /\ UNCHANGED <<next, elem, allocated, n, ret, end>>

(* The loop of list_ptr_add_sorted goes on; the successor of the new node   *)
(* stands for the local variable seek.                                      *)
GoesOn == next[seek] # NULL /\ task.period > elem[next[seek]].period

PlaceTurn ==
    /\ pc = "place" /\ end = "no" /\ GoesOn
    /\ prec' = next[prec]
    /\ next' = [next EXCEPT ![seek] = next[next[seek]]]
    /\ UNCHANGED <<elem, allocated, root, n, pc, task, key, seek, ret, end>>

(* It ends: prec->next = new and l->n++.                              *)
Place ==
    /\ pc = "place" /\ end = "no" /\ ~GoesOn
    /\ next' = [next EXCEPT ![prec] = seek]
    /\ n' = n + 1 /\ Return
    /\ UNCHANGED <<elem, allocated, root, ret, end>>

----------------------------------------------------------------------------
(* REMOVAL *)

(* list_ptr_remove up to its loop.                                          *)
RemoveCall(k) ==
    /\ pc = "idle" /\ end = "no"
    /\ IF n = 0 THEN /\ ret' = NULL
                     /\ UNCHANGED <<pc, local>>
                ELSE /\ pc' = IF elem[root] \in k THEN "remove top" ELSE "seek"
                     /\ key' = k /\ prec' = root /\ seek' = next[root]
                     /\ UNCHANGED <<task, ret>>
    /\ UNCHANGED <<list, end>>

(* list_ptr_remove_top: the root is unlinked.                               *)
RemoveTop ==
    /\ pc = "remove top" /\ end = "no"
    /\ root' = next[root] /\ seek' = root
    /\ ret' = elem[root]
    /\ pc' = "uncount"
    /\ UNCHANGED <<next, elem, allocated, n, task, key, prec, end>>

(* A seeded fault of SeekTurn: prec stays at the root.                      *)
SeekTurnPrecStays ==
    /\ pc = "seek" /\ end = "no"
    /\ seek # NULL /\ elem[seek] \in key
    /\ seek' = next[seek]
    /\ UNCHANGED <<list, pc, task, key, prec, ret, end>>

(* Another: the loop tests its node again.                                  *)
SeekTurnStays ==
    /\ pc = "seek" /\ end = "no"
    /\ seek # NULL /\ elem[seek] \in key
    /\ UNCHANGED vars

(* One turn of the loop of list_ptr_remove, which goes on while the         *)
(* comparison answers "not zero".                                           *)
SeekTurn ==
    /\ pc = "seek" /\ end = "no"
    /\ seek # NULL /\ elem[seek] \in key
    /\ prec' = next[prec] /\ seek' = next[seek]
    /\ UNCHANGED <<list, pc, task, key, ret, end>>

NotFound ==
    /\ pc = "seek" /\ end = "no" /\ seek = NULL
    /\ ret' = NULL /\ Return
    /\ UNCHANGED <<list, end>>

(* The loop ends at a node: prec->next = seek->next.                        *)
Unlink ==
    /\ pc = "seek" /\ end = "no" /\ seek # NULL /\ elem[seek] \notin key
    /\ next' = [next EXCEPT ![prec] = next[seek]]
    /\ ret' = elem[seek]
    /\ pc' = "uncount"
    /\ UNCHANGED <<elem, allocated, root, n, local, end>>

(* l->n--.                                                                  *)
Uncount ==
    /\ pc = "uncount" /\ end = "no"
    /\ n' = n - 1 /\ pc' = "free"
    /\ UNCHANGED <<next, elem, allocated, root, local, ret, end>>

(* A seeded fault of Free: the node removed is forgotten.                   *)
FreeForgets ==
    /\ pc = "free" /\ end = "no"
    /\ Return
    /\ UNCHANGED <<list, ret, end>>

(* free(): what the node held may be overwritten.                           *)
Free ==
    /\ pc = "free" /\ end = "no"
    /\ allocated' = allocated \ {seek}
    /\ next' = [next EXCEPT ![seek] = NULL] /\ elem' = [elem EXCEPT ![seek] = NULL]
    /\ Return
    /\ UNCHANGED <<root, n, ret, end>>

(* list_ptr_search_elem: the first node the comparison answers zero for.    *)
SearchElem(k) ==
    LET misses == {i \in 1 .. Len(Linked) : elem[Linked[i]] \notin k}
    IN  /\ pc = "idle" /\ end = "no"
        /\ ret' = IF misses = {} THEN NULL
                  ELSE elem[Linked[CHOOSE i \in misses : \A j \in misses : i <= j]]
        /\ UNCHANGED <<list, pc, local, end>>

----------------------------------------------------------------------------
(* THE SIGNAL *)

(* The lists that are sorted are built by the plugins for themselves; the   *)
(* handler does not know them.                                              *)
Local == {"sorted top calloc", "sorted calloc", "place", "sorted count", "sorted link"}

(* term, rts_daemon_destroy: list_ptr_remove_top until n is 0, then the     *)
(* limit is restored.  With more counted than linked the root is read       *)
(* through NULL.  The handler calls free; if it came while calloc or free   *)
(* held the heap's lock, it may wait for it for ever.                       *)
Sigint ==
    /\ end = "no" /\ pc \notin Local
    /\ \/ end' = IF n > Len(Linked) THEN "crash" ELSE "restored"
       \/ pc \in {"top calloc", "free"} /\ end' = "hang"
    /\ allocated' = allocated \ {Linked[k] : k \in {j \in 1 .. Len(Linked) : j <= n}}
    /\ UNCHANGED <<next, elem, root, n, pc, local, ret>>

Step == \/ Calloc \/ CallocFails \/ Count \/ Link \/ PlaceTurn \/ Place
        \/ RemoveTop \/ SeekTurn \/ NotFound \/ Unlink \/ Uncount \/ Free

Next == \/ \E t \in Tasks : AddTopCall(t) \/ AddSortedCall(t)
        \/ \E k \in Keys : RemoveCall(k) \/ SearchElem(k)
        \/ Step
        \/ Sigint

(* A call under way goes on; calls and signals need not come.               *)
Fairness == WF_vars(Step)

Spec == Init /\ [][Next]_vars /\ Fairness

----------------------------------------------------------------------------
(* PROPERTIES *)

(* Whatever the call under way has done so far, the list consists of        *)
(* distinct nodes that are allocated, so that a signal handler that walks   *)
(* it and frees its nodes neither reads nor frees one that is free; and     *)
(* when no call is under way no other node is allocated: nothing leaks.     *)
LinksAreLive ==
    end = "no" =>
        LET nodes == {Linked[k] : k \in 1 .. Len(Linked)}
        IN  /\ nodes \subseteq allocated /\ Cardinality(nodes) = Len(Linked)
            /\ pc = "idle" => nodes = allocated

(* The count is never behind the links, so the handler destroys every task, *)
(* and ahead of them, where the handler crashes, only between the two       *)
(* stores of an addition or of a removal; between calls it is exact, and    *)
(* list_ptr_get_i_node finds every node it promises.                        *)
CountIsLength ==
    end = "no" =>
        /\ n - Len(Linked) \in {0, 1}
        /\ n # Len(Linked) => pc \in {"link", "sorted link", "uncount"}
        /\ pc = "idle" => \A i \in 0 .. n : INode(i) = IF i < n THEN Linked[i + 1] ELSE NULL

(* The stores implement the operations on sequences that the scheduler's    *)
(* model is built on, and hand out the task they say.                       *)
L == INSTANCE TaskList WITH list <- Content
ImplementsTaskList == L!Spec

(* Sorting a taskset of two or more tasks would leave one node linked, the  *)
(* one that orders first, while l->n goes on counting all of them, although *)
(* list_ptr.c:340 promises "to sort the entire list".  Nothing calls        *)
(* rts_taskset_sort; this is what its first caller would get.               *)
SortLeavesTheLeast ==
    \A param \in {"period", "id"}, asc \in BOOLEAN :
        LET sorted == TasksetSort(Content, param, asc)
        IN  IF Len(Content) < 2 \/ param = "id" THEN sorted = Content
            ELSE /\ Len(sorted) = 1
                 /\ \A i \in 1 .. Len(Content) : ~TaskLess(Content[i], sorted[1], param, asc)

(* Where a node is in the list.                                             *)
Position(x) == CHOOSE k \in 1 .. Len(Linked) : Linked[k] = x

(* How many stores a call under way has still to do, at most.               *)
StepsLeft ==
    CASE pc = "idle" -> 0
      [] pc \in {"link", "sorted link", "free"} -> 1
      [] pc \in {"count", "sorted count", "uncount"} -> 2
      [] pc \in {"top calloc", "sorted top calloc", "remove top"} -> 3
      [] pc = "sorted calloc" -> Len(Linked) + 1
      [] pc = "place" -> Len(Linked) + 1 - Position(prec)
      [] pc = "seek" -> Len(Linked) + 4 - Position(prec)

(* Every step of a call under way leaves it fewer of them, unless it ends   *)
(* the process: the walks of list_ptr_remove and rts_taskset_add_sorted_pr  *)
(* do not outrun the list.                                                  *)
CallsShrink ==
    [][pc # "idle" /\ end' = "no" => StepsLeft' \in Nat /\ StepsLeft' < StepsLeft]_vars

(* No loop over the list goes on for ever, whatever additions and removals  *)
(* have done to the links before.                                           *)
CallsEnd == pc # "idle" ~> pc = "idle" \/ end # "no"
=============================================================================
