-------------------------- MODULE LinkedListProofs --------------------------
(***************************************************************************)
(* The theorems about the linked list, for any heap, any tasks and any     *)
(* comparisons: the links reach live nodes only, the count is right        *)
(* between calls, and the stores implement the operations on sequences of  *)
(* TaskList that the scheduler's model is built on.                        *)
(***************************************************************************)
EXTENDS LinkedList, ListProofs, FiniteSetTheorems

----------------------------------------------------------------------------
(* CHAINS *)

(* s is the list that begins at rt and that the links nx string together.   *)
At(s, i) == IF i \in 1 .. Len(s) THEN s[i] ELSE NULL

On(s) == {s[i] : i \in 1 .. Len(s)}

Chain(s, rt, nx) ==
    /\ s \in Seq(Nodes)
    /\ \A i, j \in 1 .. Len(s) : s[i] = s[j] => i = j
    /\ rt = At(s, 1)
    /\ \A i \in 1 .. Len(s) : nx[s[i]] = At(s, i + 1)

(* Linked and INode, with the root and the links as parameters.             *)
Walk(rt, nx) ==
    LET walk[k \in 0 .. Cardinality(Nodes)] ==
          IF k = 0 THEN <<>>
          ELSE LET w == walk[k - 1]
                   x == IF w = <<>> THEN rt ELSE nx[w[Len(w)]]
               IN  IF x = NULL \/ Len(w) < k - 1 THEN w ELSE Append(w, x)
    IN  walk[Cardinality(Nodes)]

Image(el, s) == [k \in 1 .. Len(s) |-> el[s[k]]]

----------------------------------------------------------------------------
(* THE INVARIANT *)

Typed == /\ next \in [Nodes -> Nodes \cup {NULL}]
         /\ elem \in [Nodes -> Tasks \cup {NULL}]
         /\ allocated \in SUBSET Nodes

(* Where the node that seek is at is allocated and not linked.              *)
Loose == {"count", "sorted count", "link", "sorted link", "place", "uncount", "free"}

(* Where the count is one ahead of the links.                               *)
Ahead == {"link", "sorted link", "uncount"}

Adding == Callocs \cup {"count", "sorted count", "link", "sorted link", "place"}

(* The heap is the list and at most one node more, which the call under way *)
(* has not linked yet or has unlinked.                                      *)
Heap(s) ==
    /\ IF pc \in Loose THEN seek \in Nodes \ On(s) /\ allocated = On(s) \cup {seek}
                       ELSE allocated = On(s)
    /\ n = IF pc \in Ahead THEN Len(s) + 1 ELSE Len(s)
    /\ \A x \in On(s) : elem[x] \in Tasks

(* The new node is complete before it is linked.                            *)
NewNode(s) ==
    pc \in Adding =>
        /\ task \in Tasks
        /\ pc \in Loose => elem[seek] = task
        /\ pc \in Loose \ {"place"} => next[seek] = At(s, 1)
        /\ pc \in {"sorted calloc", "place"} =>
              s # <<>> /\ elem[s[1]].period <= task.period

(* The loop that looks for the place of a new node is between two nodes;    *)
(* all it passed but the root are smaller.                                  *)
Placing(s) ==
    pc = "place" =>
        \E m \in 1 .. Len(s) :
            /\ prec = s[m] /\ next[seek] = At(s, m + 1)
            /\ \A i \in 2 .. m : elem[s[i]].period < task.period

(* The loop that looks for the node to remove is between two nodes; the     *)
(* comparison answers "zero" for the root and "not zero" for the others.    *)
Seeking(s) ==
    /\ pc = "remove top" => s # <<>> /\ key \in Keys /\ elem[s[1]] \in key
    /\ pc = "seek" =>
          /\ key \in Keys
          /\ \E m \in 1 .. Len(s) :
                /\ prec = s[m] /\ seek = At(s, m + 1)
                /\ elem[s[1]] \notin key
                /\ \A i \in 2 .. m : elem[s[i]] \in key

Held(s) == Chain(s, root, next) /\ Heap(s) /\ NewNode(s) /\ Placing(s) /\ Seeking(s)

ListInv == /\ Typed
           /\ end = "no" => Held(Linked)

----------------------------------------------------------------------------
(* THE WALKS *)

LEMMA ChainFacts ==
    ASSUME NEW s, NEW rt, NEW nx, Chain(s, rt, nx)
    PROVE  /\ Len(s) \in Nat /\ \A i \in 1 .. Len(s) : s[i] \in Nodes /\ s[i] # NULL
           /\ Len(s) <= Cardinality(Nodes) /\ Cardinality(Nodes) \in Nat
           /\ Cardinality(On(s)) = Len(s) /\ On(s) \in SUBSET Nodes
<1> DEFINE len == Len(s)
<1>1. s \in [1 .. len -> Nodes] /\ len \in Nat
  BY LenProperties DEF Chain
<1>2. \A i, j \in 1 .. len : s[i] = s[j] => i = j
  BY DEF Chain
<1>3. On(s) = {s[i] : i \in 1 .. len}
  BY DEF On
<1>4. IsFiniteSet(Nodes) /\ NULL \notin Nodes
  BY LinkedListAssumption
<1> HIDE DEF len
<1>5. s \in Injection(1 .. len, Nodes)
  BY <1>1, <1>2 DEF Injection, IsInjective
<1>6. IsFiniteSet(1 .. len) /\ Cardinality(1 .. len) = len
  BY <1>1, FS_Interval
<1>7. len <= Cardinality(Nodes)
  BY <1>4, <1>5, <1>6, FS_Injection
<1>8. s \in Bijection(1 .. len, On(s))
  BY <1>1, <1>2, <1>3 DEF Bijection, Injection, Surjection, IsInjective
<1>9. Cardinality(On(s)) = len
  BY <1>6, <1>8, FS_Bijection DEF ExistsBijection
<1>10. On(s) \in SUBSET Nodes
  BY <1>1, <1>3
<1>11. Cardinality(Nodes) \in Nat
  BY <1>4, FS_CardinalityType
<1> QED  BY <1>1, <1>4, <1>7, <1>9, <1>10, <1>11 DEF len

(* One turn of the walk. *)
Turn(w, k, rt, nx) ==
    LET x == IF w = <<>> THEN rt ELSE nx[w[Len(w)]]
    IN  IF x = NULL \/ Len(w) < k - 1 THEN w ELSE Append(w, x)

(* The first k nodes of a list.                                             *)
Upto(s, k) == [i \in 1 .. (IF k <= Len(s) THEN k ELSE Len(s)) |-> s[i]]

LEMMA TurnGoesOn ==
    ASSUME NEW s, NEW rt, NEW nx, Chain(s, rt, nx), NEW k \in Nat \ {0}
    PROVE  Turn(Upto(s, k - 1), k, rt, nx) = Upto(s, k)
<1> DEFINE w == Upto(s, k - 1)
           x == IF w = <<>> THEN rt ELSE nx[w[Len(w)]]
           len == Len(s)
<1>1. len \in Nat /\ \A i \in 1 .. len : s[i] \in Nodes /\ s[i] # NULL
  BY ChainFacts
<1>2. rt = At(s, 1) /\ \A i \in 1 .. len : nx[s[i]] = At(s, i + 1)
  BY DEF Chain
<1>3. Turn(w, k, rt, nx) = IF x = NULL \/ Len(w) < k - 1 THEN w ELSE Append(w, x)
  BY DEF Turn
<1>4. CASE k - 1 < len
  <2>1. w = [i \in 1 .. k - 1 |-> s[i]] /\ Upto(s, k) = [i \in 1 .. k |-> s[i]]
    BY <1>1, <1>4 DEF Upto
  <2>2. w \in Seq(Nodes) /\ Len(w) = k - 1 /\ Upto(s, k) \in Seq(Nodes) /\ Len(Upto(s, k)) = k
    BY <1>1, <1>4, <2>1
  <2> HIDE DEF w
  <2>3. x = At(s, k)
    <3>1. CASE k = 1
      BY <1>2, <2>2, <3>1
    <3>2. CASE k # 1
      <4>1. k - 1 \in 1 .. len /\ k - 1 \in 1 .. k - 1 /\ (k - 1) + 1 = k
        BY <1>1, <1>4, <3>2
      <4>2. w # <<>> /\ w[Len(w)] = s[k - 1]
        BY <2>1, <2>2, <4>1
      <4> QED  BY <1>2, <4>1, <4>2
    <3> QED  BY <3>1, <3>2
  <2>4. x = s[k] /\ s[k] \in Nodes /\ s[k] # NULL
    BY <1>1, <1>4, <2>3 DEF At
  <2> HIDE DEF x
  <2>5. Turn(w, k, rt, nx) = Append(w, s[k])
    BY <1>3, <2>2, <2>4
  <2>6. Append(w, s[k]) = Upto(s, k)
    <3>1. Append(w, s[k]) \in Seq(Nodes) /\ Len(Append(w, s[k])) = k
      BY <2>2, <2>4, AppendProperties
    <3>2. \A i \in 1 .. k : Append(w, s[k])[i] = Upto(s, k)[i]
      BY <2>1, <2>2, <2>4, AppendProperties
    <3> QED  BY <2>2, <3>1, <3>2, SeqEqual
  <2> QED  BY <2>5, <2>6 DEF w
<1>5. CASE ~(k - 1 < len)
  <2>1. w = [i \in 1 .. len |-> s[i]] /\ Upto(s, k) = [i \in 1 .. len |-> s[i]]
    BY <1>1, <1>5 DEF Upto
  <2>2. w \in Seq(Nodes) /\ Len(w) = len
    BY <1>1, <2>1
  <2> HIDE DEF w
  <2>3. x = At(s, len + 1)
    <3>1. CASE len = 0
      BY <1>2, <2>2, <3>1
    <3>2. CASE len # 0
      <4>1. len \in 1 .. len
        BY <1>1, <3>2
      <4>2. w # <<>> /\ w[Len(w)] = s[len]
        BY <2>1, <2>2, <4>1
      <4> QED  BY <1>2, <4>1, <4>2
    <3> QED  BY <3>1, <3>2
  <2>4. x = NULL
    BY <1>1, <2>3 DEF At
  <2> HIDE DEF x
  <2>5. Turn(w, k, rt, nx) = w
    BY <1>3, <2>4
  <2> QED  BY <2>1, <2>5 DEF w
<1> QED  BY <1>4, <1>5

(* The walk of the iterator finds the list.                                 *)
LEMMA WalkIs ==
    ASSUME NEW s, NEW rt, NEW nx, Chain(s, rt, nx)
    PROVE  Walk(rt, nx) = s
<1> DEFINE N == Cardinality(Nodes)
           Eq(f) == f = [k \in 0 .. N |-> IF k = 0 THEN <<>> ELSE Turn(f[k - 1], k, rt, nx)]
           w == [k \in 0 .. N |-> Upto(s, k)]
           walk == CHOOSE f : Eq(f)
<1>1. Walk(rt, nx) = walk[N]
  BY DEF Walk, Turn
<1>2. N \in Nat /\ Len(s) \in Nat /\ Len(s) <= N /\ s \in Seq(Nodes)
  BY ChainFacts DEF Chain
<1>3. Upto(s, 0) = <<>>
  BY <1>2 DEF Upto
<1>4. Upto(s, N) = s
  <2>1. Upto(s, N) = [i \in 1 .. Len(s) |-> s[i]]
    BY <1>2 DEF Upto
  <2> QED  BY <1>2, <2>1, LenProperties
<1>5. \A k \in 1 .. N : Turn(Upto(s, k - 1), k, rt, nx) = Upto(s, k)
  BY <1>2, TurnGoesOn
<1> HIDE DEF N
<1>6. Eq(w)
  BY <1>2, <1>3, <1>5
<1>7. Eq(walk)
  <2> HIDE DEF Eq
  <2> QED  BY <1>6
<1> HIDE DEF walk, w
<1>8. \A k \in Nat : k <= N => walk[k] = Upto(s, k)
  <2> DEFINE S == {k \in Nat : k <= N => walk[k] = Upto(s, k)}
  <2>1. 0 \in S
    BY <1>2, <1>3, <1>7
  <2>2. ASSUME NEW k \in Nat, k \in S PROVE k + 1 \in S
    <3> SUFFICES ASSUME k + 1 <= N PROVE walk[k + 1] = Upto(s, k + 1)
      OBVIOUS
    <3>1. k + 1 \in 1 .. N /\ (k + 1) - 1 = k /\ walk[k] = Upto(s, k)
      BY <1>2, <2>2
    <3>2. walk[k + 1] = Turn(walk[k], k + 1, rt, nx)
      BY <1>2, <1>7, <3>1
    <3> QED  BY <1>5, <3>1, <3>2
  <2> HIDE DEF S
  <2>3. \A k \in Nat : k \in S
    BY <2>1, <2>2, SetInduction
  <2> QED  BY <2>3 DEF S
<1> QED  BY <1>1, <1>2, <1>4, <1>8

LEMMA LinkedIs ==
    ASSUME NEW s, Chain(s, root, next)
    PROVE  Linked = s
<1>1. Linked = Walk(root, next)
  BY DEF Linked, Walk
<1> QED  BY <1>1, WalkIs

LEMMA LinkedIsNext ==
    ASSUME NEW s, Chain(s, root', next')
    PROVE  Linked' = s
<1>1. Linked' = Walk(root', next')
  BY DEF Linked, Walk
<1> QED  BY <1>1, WalkIs

(* Between calls list_ptr_get_i_node finds the i-th node of the list.       *)
LEMMA INodeIs ==
    ASSUME NEW s, Chain(s, root, next), n = Len(s), NEW i \in 0 .. n
    PROVE  INode(i) = IF i < n THEN s[i + 1] ELSE NULL
<1> DEFINE Eq(f) == f = [j \in 0 .. i |-> IF j = 0 THEN root ELSE next[f[j - 1]]]
           steps == CHOOSE f : Eq(f)
           w == [j \in 0 .. i |-> At(s, j + 1)]
<1>1. INode(i) = IF n < i + 1 THEN NULL ELSE steps[i]
  BY DEF INode
<1>2. n \in Nat /\ i \in Nat /\ i <= n /\ Len(s) = n
  BY ChainFacts
<1>3. root = At(s, 1) /\ \A j \in 1 .. n : next[s[j]] = At(s, j + 1)
  BY DEF Chain
<1> SUFFICES ASSUME i < n PROVE steps[i] = s[i + 1]
  BY <1>1, <1>2
<1>4. \A j \in 1 .. n : At(s, j) = s[j]
  BY <1>2 DEF At
<1>5. Eq(w)
  <2>1. ASSUME NEW j \in 0 .. i
        PROVE  At(s, j + 1) = IF j = 0 THEN root ELSE next[w[j - 1]]
    <3>1. CASE j = 0
      BY <1>3, <3>1
    <3>2. CASE j # 0
      <4>1. j \in 1 .. n /\ j - 1 \in 0 .. i /\ (j - 1) + 1 = j
        BY <1>2, <3>2
      <4>2. w[j - 1] = s[j]
        BY <1>4, <4>1
      <4> QED  BY <1>3, <3>2, <4>1, <4>2
    <3> QED  BY <3>1, <3>2
  <2> QED  BY <2>1
<1>6. Eq(steps)
  <2> HIDE DEF Eq
  <2> QED  BY <1>5
<1> HIDE DEF steps, w
<1>7. \A j \in Nat : j <= i => steps[j] = s[j + 1]
  <2> DEFINE S == {j \in Nat : j <= i => steps[j] = s[j + 1]}
  <2>1. 0 \in S
    BY <1>2, <1>3, <1>4, <1>6
  <2>2. ASSUME NEW j \in Nat, j \in S PROVE j + 1 \in S
    <3> SUFFICES ASSUME j + 1 <= i PROVE steps[j + 1] = s[(j + 1) + 1]
      OBVIOUS
    <3>1. /\ j + 1 \in 0 .. i /\ j + 1 # 0 /\ (j + 1) - 1 = j
          /\ j + 1 \in 1 .. n /\ (j + 1) + 1 \in 1 .. n
      BY <1>2
    <3>2. steps[j + 1] = next[steps[j]]
      BY <1>6, <3>1
    <3>3. steps[j] = s[j + 1]
      BY <2>2
    <3> QED  BY <1>3, <1>4, <3>1, <3>2, <3>3
  <2> HIDE DEF S
  <2>3. \A j \in Nat : j \in S
    BY <2>1, <2>2, SetInduction
  <2> QED  BY <2>3 DEF S
<1> QED  BY <1>2, <1>7

----------------------------------------------------------------------------
(* WHAT THE STORES DO TO A CHAIN *)

(* Links of other nodes do not matter.                                      *)
LEMMA ChainSame ==
    ASSUME NEW s, NEW rt, NEW nx, NEW nx2, Chain(s, rt, nx),
           \A x \in On(s) : nx2[x] = nx[x]
    PROVE  Chain(s, rt, nx2)
<1>1. \A i \in 1 .. Len(s) : s[i] \in On(s)
  BY DEF On
<1> QED  BY <1>1 DEF Chain

(* A node in front.                                                         *)
LEMMA ChainAddTop ==
    ASSUME NEW s, NEW rt, NEW nx, Chain(s, rt, nx),
           NEW x \in Nodes \ On(s), nx[x] = At(s, 1)
    PROVE  Chain(AddTop(s, x), x, nx) /\ On(AddTop(s, x)) = On(s) \cup {x}
<1> DEFINE t == AddTop(s, x)
           len == Len(s)
<1>1. /\ t \in Seq(Nodes) /\ Len(t) = len + 1 /\ t[1] = x
      /\ \A i \in 1 .. len : t[i + 1] = s[i]
  BY AddTopFacts DEF Chain
<1>2. len \in Nat /\ \A i \in 1 .. len : s[i] \in On(s) /\ nx[s[i]] = At(s, i + 1)
  BY ChainFacts DEF Chain, On
<1>3. \A i, j \in 1 .. len : s[i] = s[j] => i = j
  BY DEF Chain
<1>4. On(s) = {s[i] : i \in 1 .. len} /\ On(t) = {t[i] : i \in 1 .. Len(t)}
  BY DEF On
<1>5. /\ \A i \in 1 .. len : At(s, i) = s[i]
      /\ At(s, len + 1) = NULL
      /\ \A i \in 1 .. len + 1 : At(t, i) = t[i]
      /\ At(t, (len + 1) + 1) = NULL
  BY <1>1, <1>2 DEF At
<1> HIDE DEF t, len
<1>6. \A i \in 1 .. len + 1 : t[i] = IF i = 1 THEN x ELSE s[i - 1]
  <2> SUFFICES ASSUME NEW i \in 1 .. len + 1, i # 1 PROVE t[i] = s[i - 1]
    BY <1>1
  <2>1. i - 1 \in 1 .. len /\ (i - 1) + 1 = i
    BY <1>2
  <2> QED  BY <1>1, <2>1
<1>7. \A i, j \in 1 .. Len(t) : t[i] = t[j] => i = j
  <2> SUFFICES ASSUME NEW i \in 1 .. len + 1, NEW j \in 1 .. len + 1, t[i] = t[j], i # 1
               PROVE  i = j
    BY <1>1, <1>2, <1>6
  <2>1. i - 1 \in 1 .. len
    BY <1>2
  <2>2. t[i] = s[i - 1] /\ s[i - 1] \in On(s)
    BY <1>2, <1>6, <2>1
  <2>3. j # 1
    BY <1>6, <2>2
  <2>4. j - 1 \in 1 .. len /\ t[j] = s[j - 1]
    BY <1>2, <1>6, <2>3
  <2>5. i - 1 = j - 1
    BY <1>3, <2>1, <2>2, <2>4
  <2> QED  BY <1>2, <2>5
<1>8. x = At(t, 1)
  BY <1>1, <1>2, <1>5
<1>9. ASSUME NEW i \in 1 .. len + 1 PROVE nx[t[i]] = At(t, i + 1)
  <2>1. CASE i = 1
    <3>1. nx[t[i]] = At(s, 1)
      BY <1>1, <2>1
    <3>2. CASE len = 0
      BY <1>5, <2>1, <3>1, <3>2
    <3>3. CASE len # 0
      <4>1. 1 \in 1 .. len /\ i + 1 \in 1 .. len + 1
        BY <1>2, <2>1, <3>3
      <4> QED  BY <1>1, <1>5, <2>1, <3>1, <4>1
    <3> QED  BY <3>2, <3>3
  <2>2. CASE i # 1
    <3>1. i - 1 \in 1 .. len /\ (i - 1) + 1 = i
      BY <1>2, <2>2
    <3>2. nx[t[i]] = At(s, i)
      BY <1>2, <1>6, <2>2, <3>1
    <3>3. CASE i = len + 1
      BY <1>5, <3>2, <3>3
    <3>4. CASE i # len + 1
      <4>1. i \in 1 .. len /\ i + 1 \in 1 .. len + 1
        BY <1>2, <3>4
      <4> QED  BY <1>1, <1>5, <3>2, <4>1
    <3> QED  BY <3>3, <3>4
  <2> QED  BY <2>1, <2>2
<1>10. On(t) = On(s) \cup {x}
  <2>1. \A i \in 1 .. len : i + 1 \in 1 .. Len(t)
    BY <1>1, <1>2
  <2>2. 1 \in 1 .. Len(t)
    BY <1>1, <1>2
  <2>3. \A i \in 1 .. Len(t) : t[i] = x \/ t[i] \in On(s)
    <3> SUFFICES ASSUME NEW i \in 1 .. len + 1, i # 1 PROVE t[i] \in On(s)
      BY <1>1
    <3>1. i - 1 \in 1 .. len
      BY <1>2
    <3> QED  BY <1>2, <1>6, <3>1
  <2> QED  BY <1>1, <1>4, <2>1, <2>2, <2>3
<1> QED  BY <1>1, <1>7, <1>8, <1>9, <1>10 DEF Chain, t

(* One node less: what stood before it is linked to what comes after it.    *)
Unlinks(s, k, rt, nx, rt2, nx2) ==
    /\ k = 1 => rt2 = nx[s[1]]
    /\ k # 1 => rt2 = rt /\ nx2[s[k - 1]] = nx[s[k]]
    /\ \A i \in 1 .. Len(s) : i # k - 1 => nx2[s[i]] = nx[s[i]]

LEMMA ChainRemove ==
    ASSUME NEW s, NEW rt, NEW nx, Chain(s, rt, nx), NEW k \in 1 .. Len(s),
           NEW rt2, NEW nx2, Unlinks(s, k, rt, nx, rt2, nx2)
    PROVE  Chain(RemoveAt(s, k), rt2, nx2) /\ On(RemoveAt(s, k)) = On(s) \ {s[k]}
<1> USE DEF Unlinks
<1> DEFINE t == RemoveAt(s, k)
           len == Len(s)
<1>1. /\ t \in Seq(Nodes) /\ Len(t) = len - 1
      /\ \A i \in 1 .. len - 1 : t[i] = IF i < k THEN s[i] ELSE s[i + 1]
  BY RemoveAtFacts DEF Chain
<1>2. len \in Nat /\ k \in 1 .. len /\ \A i \in 1 .. len : nx[s[i]] = At(s, i + 1)
  BY ChainFacts DEF Chain
<1>3. \A i, j \in 1 .. len : s[i] = s[j] => i = j
  BY DEF Chain
<1>4. On(s) = {s[i] : i \in 1 .. len} /\ On(t) = {t[i] : i \in 1 .. Len(t)}
  BY DEF On
<1>5. /\ \A i \in 1 .. len : At(s, i) = s[i]
      /\ At(s, len + 1) = NULL
      /\ \A i \in 1 .. len - 1 : At(t, i) = t[i]
      /\ At(t, len) = NULL
  BY <1>1, <1>2 DEF At
<1>6. rt = At(s, 1)
  BY DEF Chain
<1>7. \A i \in 1 .. len : i # k - 1 => nx2[s[i]] = nx[s[i]]
  OBVIOUS
<1> HIDE DEF t, len
<1>8. \A i \in 1 .. len : At(t, i) = At(s, IF i < k THEN i ELSE i + 1)
  <2> SUFFICES ASSUME NEW i \in 1 .. len
               PROVE  At(t, i) = At(s, IF i < k THEN i ELSE i + 1)
    OBVIOUS
  <2>1. CASE i = len
    <3>1. ~(i < k)
      BY <1>2, <2>1
    <3> QED  BY <1>5, <2>1, <3>1
  <2>2. CASE i # len
    <3>1. i \in 1 .. len - 1 /\ i + 1 \in 1 .. len
      BY <1>2, <2>2
    <3> QED  BY <1>1, <1>5, <3>1
  <2> QED  BY <2>1, <2>2
<1>8a. ASSUME NEW i \in 1 .. len - 1
       PROVE  \E a \in 1 .. len : t[i] = s[a] /\ a = IF i < k THEN i ELSE i + 1
  <2>1. i \in 1 .. len /\ i + 1 \in 1 .. len
    BY <1>2
  <2>2. CASE i < k
    <3>1. t[i] = s[i]
      BY <1>1, <2>2
    <3> QED  BY <2>1, <2>2, <3>1
  <2>3. CASE ~(i < k)
    <3>1. t[i] = s[i + 1]
      BY <1>1, <2>3
    <3> QED  BY <2>1, <2>3, <3>1
  <2> QED  BY <2>2, <2>3
<1>9. \A i, j \in 1 .. Len(t) : t[i] = t[j] => i = j
  <2> SUFFICES ASSUME NEW i \in 1 .. len - 1, NEW j \in 1 .. len - 1, t[i] = t[j]
               PROVE  i = j
    BY <1>1
  <2>1. PICK a \in 1 .. len : t[i] = s[a] /\ a = IF i < k THEN i ELSE i + 1
    BY <1>8a
  <2>2. PICK b \in 1 .. len : t[j] = s[b] /\ b = IF j < k THEN j ELSE j + 1
    BY <1>8a
  <2>3. a = b
    <3>1. s[a] = s[b]
      BY <2>1, <2>2
    <3> QED  BY <1>3, <3>1
  <2> QED  BY <1>2, <2>1, <2>2, <2>3
<1>10. rt2 = At(t, 1)
  <2>1. 1 \in 1 .. len
    BY <1>2
  <2>2. CASE k = 1
    BY <1>2, <1>8, <2>1, <2>2
  <2>3. CASE k # 1
    <3>1. 1 < k
      BY <1>2, <2>3
    <3> QED  BY <1>6, <1>8, <2>1, <2>3, <3>1
  <2> QED  BY <2>2, <2>3
<1>11. ASSUME NEW i \in 1 .. len - 1 PROVE nx2[t[i]] = At(t, i + 1)
  <2>1. i \in 1 .. len /\ i + 1 \in 1 .. len
    BY <1>2
  <2>2. CASE i < k - 1
    <3>1. t[i] = s[i] /\ At(t, i + 1) = At(s, i + 1)
      BY <1>1, <1>2, <1>8, <2>1, <2>2
    <3>2. i # k - 1
      BY <1>2, <2>2
    <3>3. nx2[s[i]] = nx[s[i]]
      BY <1>7, <2>1, <3>2
    <3> QED  BY <1>2, <2>1, <3>1, <3>3
  <2>3. CASE i = k - 1
    <3>1. t[i] = s[k - 1] /\ At(t, i + 1) = At(s, (i + 1) + 1) /\ i + 1 = k /\ k # 1
      BY <1>1, <1>2, <1>8, <2>1, <2>3
    <3>2. nx2[s[k - 1]] = At(s, k + 1)
      BY <1>2, <3>1
    <3> QED  BY <3>1, <3>2
  <2>4. CASE ~(i < k - 1) /\ i # k - 1
    <3>1. t[i] = s[i + 1] /\ At(t, i + 1) = At(s, (i + 1) + 1) /\ i + 1 # k - 1
      BY <1>1, <1>2, <1>8, <2>1, <2>4
    <3>2. nx2[s[i + 1]] = nx[s[i + 1]]
      BY <1>7, <2>1, <3>1
    <3> QED  BY <1>2, <2>1, <3>1, <3>2
  <2> QED  BY <2>2, <2>3, <2>4
<1>12. On(t) = On(s) \ {s[k]}
  <2>1. ASSUME NEW i \in 1 .. len - 1 PROVE t[i] \in On(s) \ {s[k]}
    <3>1. PICK a \in 1 .. len : t[i] = s[a] /\ a = IF i < k THEN i ELSE i + 1
      BY <1>8a
    <3>2. a # k
      BY <1>2, <3>1
    <3>3. s[a] # s[k]
      BY <1>2, <1>3, <3>2
    <3> QED  BY <1>4, <3>1, <3>3
  <2>2. ASSUME NEW i \in 1 .. len, s[i] # s[k] PROVE s[i] \in On(t)
    <3>1. CASE i < k
      <4>1. i \in 1 .. len - 1
        BY <1>2, <3>1
      <4>2. t[i] = s[i]
        BY <1>1, <3>1, <4>1
      <4> QED  BY <1>1, <1>4, <4>1, <4>2
    <3>2. CASE ~(i < k)
      <4>1. i # k
        BY <2>2
      <4>2. i - 1 \in 1 .. len - 1 /\ ~(i - 1 < k) /\ (i - 1) + 1 = i
        BY <1>2, <3>2, <4>1
      <4>3. t[i - 1] = s[i]
        BY <1>1, <4>2
      <4> QED  BY <1>1, <1>4, <4>2, <4>3
    <3> QED  BY <3>1, <3>2
  <2>3. On(t) \subseteq On(s) \ {s[k]}
    BY <1>1, <1>4, <2>1
  <2>4. On(s) \ {s[k]} \subseteq On(t)
    BY <1>4, <2>2
  <2> QED  BY <2>3, <2>4
<1> QED  BY <1>1, <1>9, <1>10, <1>11, <1>12 DEF Chain, t

(* A node between the m-th and the next.                                    *)
InsertAfter(s, m, x) == InsertAt(s, m + 1, x)

Links(s, m, x, nx, nx2) ==
    /\ x \in Nodes \ On(s)
    /\ nx2[x] = At(s, m + 1) /\ nx2[s[m]] = x
    /\ \A i \in 1 .. Len(s) : i # m => nx2[s[i]] = nx[s[i]]

LEMMA ChainInsert ==
    ASSUME NEW s, NEW rt, NEW nx, Chain(s, rt, nx), NEW m \in 1 .. Len(s),
           NEW x, NEW nx2, Links(s, m, x, nx, nx2)
    PROVE  /\ Chain(InsertAfter(s, m, x), rt, nx2)
           /\ On(InsertAfter(s, m, x)) = On(s) \cup {x}
<1> USE DEF Links, InsertAfter
<1> DEFINE t == InsertAt(s, m + 1, x)
           len == Len(s)
<1>1. len \in Nat /\ m \in 1 .. len /\ \A i \in 1 .. len : nx[s[i]] = At(s, i + 1) /\ s[i] \in On(s)
  BY ChainFacts DEF Chain, On
<1>2. m + 1 \in 1 .. Len(s) + 1
  BY <1>1
<1>3. /\ t \in Seq(Nodes) /\ Len(t) = len + 1
      /\ \A i \in 1 .. len + 1 :
            t[i] = IF i < m + 1 THEN s[i] ELSE IF i = m + 1 THEN x ELSE s[i - 1]
  <2> DEFINE k == m + 1
  <2>1. s \in Seq(Nodes) /\ x \in Nodes /\ k \in 1 .. Len(s) + 1
    BY <1>2 DEF Chain
  <2> HIDE DEF k
  <2>2. /\ InsertAt(s, k, x) \in Seq(Nodes) /\ Len(InsertAt(s, k, x)) = Len(s) + 1
        /\ \A i \in 1 .. Len(s) + 1 :
              InsertAt(s, k, x)[i] = IF i < k THEN s[i] ELSE IF i = k THEN x ELSE s[i - 1]
    BY <2>1, InsertAtFacts
  <2> QED  BY <2>2 DEF k
<1>4. \A i, j \in 1 .. len : s[i] = s[j] => i = j
  BY DEF Chain
<1>5. On(s) = {s[i] : i \in 1 .. len} /\ On(t) = {t[i] : i \in 1 .. Len(t)}
  BY DEF On
<1>6. /\ \A i \in 1 .. len : At(s, i) = s[i]
      /\ At(s, len + 1) = NULL
      /\ \A i \in 1 .. len + 1 : At(t, i) = t[i]
      /\ At(t, (len + 1) + 1) = NULL
  BY <1>1, <1>3 DEF At
<1>7. rt = At(s, 1)
  BY DEF Chain
<1>8. \A i \in 1 .. len : i # m => nx2[s[i]] = nx[s[i]]
  OBVIOUS
<1> HIDE DEF t, len
<1>9. /\ \A i \in 1 .. m : t[i] = s[i]
      /\ t[m + 1] = x
      /\ \A i \in m + 1 .. len : t[i + 1] = s[i]
  <2>1. ASSUME NEW i \in m + 1 .. len PROVE t[i + 1] = s[i]
    <3>1. i + 1 \in 1 .. len + 1 /\ ~(i + 1 < m + 1) /\ i + 1 # m + 1 /\ (i + 1) - 1 = i
      BY <1>1
    <3> QED  BY <1>3, <3>1
  <2>2. ASSUME NEW i \in 1 .. m PROVE t[i] = s[i]
    <3>1. i \in 1 .. len + 1 /\ i < m + 1
      BY <1>1
    <3> QED  BY <1>3, <3>1
  <2>3. m + 1 \in 1 .. len + 1 /\ ~(m + 1 < m + 1)
    BY <1>1
  <2> QED  BY <1>3, <2>1, <2>2, <2>3
<1>10. ASSUME NEW i \in 1 .. len + 1
       PROVE  \/ i \in 1 .. m /\ t[i] = s[i]
              \/ i = m + 1 /\ t[i] = x
              \/ i - 1 \in m + 1 .. len /\ t[i] = s[i - 1]
  <2>1. CASE i - 1 \in m + 1 .. len
    <3>1. (i - 1) + 1 = i
      BY <1>1
    <3> QED  BY <1>9, <2>1, <3>1
  <2>2. CASE i - 1 \notin m + 1 .. len
    <3>1. i \in 1 .. m \/ i = m + 1
      BY <1>1, <2>2
    <3> QED  BY <1>9, <3>1
  <2> QED  BY <2>1, <2>2
<1>11. \A i, j \in 1 .. Len(t) : t[i] = t[j] => i = j
  <2> SUFFICES ASSUME NEW i \in 1 .. len + 1, NEW j \in 1 .. len + 1, t[i] = t[j]
               PROVE  i = j
    BY <1>3
  <2>1. ASSUME NEW a \in 1 .. len, NEW b \in 1 .. len PROVE s[a] # x /\ (s[a] = s[b] => a = b)
    BY <1>1, <1>4
  <2>2. CASE i \in 1 .. m /\ t[i] = s[i]
    <3>1. CASE j \in 1 .. m /\ t[j] = s[j]
      <4>1. i \in 1 .. len /\ j \in 1 .. len
        BY <1>1, <2>2, <3>1
      <4> QED  BY <2>1, <2>2, <3>1, <4>1
    <3>2. CASE j = m + 1 /\ t[j] = x
      <4>1. i \in 1 .. len
        BY <1>1, <2>2
      <4> QED  BY <2>1, <2>2, <3>2, <4>1
    <3>3. CASE j - 1 \in m + 1 .. len /\ t[j] = s[j - 1]
      <4>1. i \in 1 .. len /\ j - 1 \in 1 .. len /\ i # j - 1
        BY <1>1, <2>2, <3>3
      <4> QED  BY <2>1, <2>2, <3>3, <4>1
    <3> QED  BY <1>10, <3>1, <3>2, <3>3
  <2>3. CASE i = m + 1 /\ t[i] = x
    <3>1. CASE j \in 1 .. m /\ t[j] = s[j]
      <4>1. j \in 1 .. len
        BY <1>1, <3>1
      <4> QED  BY <2>1, <2>3, <3>1, <4>1
    <3>2. CASE j = m + 1 /\ t[j] = x
      BY <2>3, <3>2
    <3>3. CASE j - 1 \in m + 1 .. len /\ t[j] = s[j - 1]
      <4>1. j - 1 \in 1 .. len
        BY <1>1, <3>3
      <4> QED  BY <2>1, <2>3, <3>3, <4>1
    <3> QED  BY <1>10, <3>1, <3>2, <3>3
  <2>4. CASE i - 1 \in m + 1 .. len /\ t[i] = s[i - 1]
    <3>0. i - 1 \in 1 .. len
      BY <1>1, <2>4
    <3>1. CASE j \in 1 .. m /\ t[j] = s[j]
      <4>1. j \in 1 .. len /\ j # i - 1
        BY <1>1, <2>4, <3>1
      <4> QED  BY <2>1, <2>4, <3>0, <3>1, <4>1
    <3>2. CASE j = m + 1 /\ t[j] = x
      BY <2>1, <2>4, <3>0, <3>2
    <3>3. CASE j - 1 \in m + 1 .. len /\ t[j] = s[j - 1]
      <4>1. j - 1 \in 1 .. len
        BY <1>1, <3>3
      <4>2. i - 1 = j - 1
        BY <2>1, <2>4, <3>0, <3>3, <4>1
      <4> QED  BY <1>1, <4>2
    <3> QED  BY <1>10, <3>1, <3>2, <3>3
  <2> QED  BY <1>10, <2>2, <2>3, <2>4
<1>12. rt = At(t, 1)
  <2>1. 1 \in 1 .. m /\ 1 \in 1 .. len /\ 1 \in 1 .. len + 1
    BY <1>1
  <2> QED  BY <1>6, <1>7, <1>9, <2>1
<1>13. ASSUME NEW i \in 1 .. len + 1 PROVE nx2[t[i]] = At(t, i + 1)
  <2>1. CASE i \in 1 .. m /\ t[i] = s[i]
    <3>1. CASE i = m
      <4>1. At(t, i + 1) = x
        BY <1>1, <1>6, <1>9, <3>1
      <4> QED  BY <2>1, <3>1, <4>1
    <3>2. CASE i # m
      <4>1. i \in 1 .. len /\ i + 1 \in 1 .. m /\ i + 1 \in 1 .. len /\ i + 1 \in 1 .. len + 1
        BY <1>1, <2>1, <3>2
      <4>2. nx2[s[i]] = At(s, i + 1) /\ At(s, i + 1) = s[i + 1] /\ At(t, i + 1) = t[i + 1]
        BY <1>1, <1>6, <1>8, <3>2, <4>1
      <4> QED  BY <1>9, <2>1, <4>1, <4>2
    <3> QED  BY <3>1, <3>2
  <2>2. CASE i = m + 1 /\ t[i] = x
    <3>1. nx2[t[i]] = At(s, m + 1)
      BY <2>2
    <3>2. CASE m = len
      BY <1>6, <2>2, <3>1, <3>2
    <3>3. CASE m # len
      <4>1. m + 1 \in 1 .. len /\ m + 1 \in m + 1 .. len /\ i + 1 = (m + 1) + 1 /\ i + 1 \in 1 .. len + 1
        BY <1>1, <2>2, <3>3
      <4>2. At(s, m + 1) = s[m + 1] /\ At(t, i + 1) = t[i + 1] /\ t[(m + 1) + 1] = s[m + 1]
        BY <1>6, <1>9, <4>1
      <4> QED  BY <3>1, <4>1, <4>2
    <3> QED  BY <3>2, <3>3
  <2>3. CASE i - 1 \in m + 1 .. len /\ t[i] = s[i - 1]
    <3>1. i - 1 \in 1 .. len /\ i - 1 # m /\ (i - 1) + 1 = i
      BY <1>1, <2>3
    <3>2. nx2[t[i]] = At(s, i)
      BY <1>1, <1>8, <2>3, <3>1
    <3>3. CASE i = len + 1
      BY <1>6, <3>2, <3>3
    <3>4. CASE i # len + 1
      <4>1. i \in 1 .. len /\ i \in m + 1 .. len /\ i + 1 \in 1 .. len + 1
        BY <1>1, <2>3, <3>4
      <4> QED  BY <1>6, <1>9, <3>2, <4>1
    <3> QED  BY <3>3, <3>4
  <2> QED  BY <1>10, <2>1, <2>2, <2>3
<1>14. On(t) = On(s) \cup {x}
  <2>1. ASSUME NEW i \in 1 .. len + 1 PROVE t[i] \in On(s) \cup {x}
    <3>1. i \in 1 .. m => i \in 1 .. len
      BY <1>1
    <3>2. i - 1 \in m + 1 .. len => i - 1 \in 1 .. len
      BY <1>1
    <3> QED  BY <1>1, <1>10, <3>1, <3>2
  <2>2. ASSUME NEW i \in 1 .. len PROVE s[i] \in On(t)
    <3>1. CASE i \in 1 .. m
      <4>1. i \in 1 .. len + 1
        BY <1>1
      <4> QED  BY <1>3, <1>5, <1>9, <3>1, <4>1
    <3>2. CASE i \notin 1 .. m
      <4>1. i \in m + 1 .. len /\ i + 1 \in 1 .. len + 1
        BY <1>1, <3>2
      <4> QED  BY <1>3, <1>5, <1>9, <4>1
    <3> QED  BY <3>1, <3>2
  <2>3. x \in On(t)
    <3>1. m + 1 \in 1 .. len + 1
      BY <1>1
    <3> QED  BY <1>3, <1>5, <1>9, <3>1
  <2> QED  BY <1>3, <1>5, <2>1, <2>2, <2>3
<1> QED  BY <1>3, <1>11, <1>12, <1>13, <1>14 DEF Chain, t

----------------------------------------------------------------------------
(* THE STEPS *)

(* What the invariant says of the nodes of the list.                        *)
LEMMA HeldFacts ==
    ASSUME Typed, NEW s, Held(s)
    PROVE  /\ Chain(s, root, next) /\ Len(s) \in Nat
           /\ \A i \in 1 .. Len(s) :
                 /\ s[i] \in Nodes /\ s[i] # NULL /\ s[i] \in On(s) /\ s[i] \in allocated
                 /\ elem[s[i]] \in Tasks /\ next[s[i]] = At(s, i + 1)
           /\ root = At(s, 1) /\ (s # <<>> => 1 \in 1 .. Len(s)) /\ (s = <<>> => Len(s) = 0)
           /\ \A t \in Tasks : t.period \in Nat
           /\ NULL \notin Nodes
<1>1. Chain(s, root, next)
  BY DEF Held
<1>2. \A i \in 1 .. Len(s) : s[i] \in On(s) /\ next[s[i]] = At(s, i + 1)
  BY <1>1 DEF On, Chain
<1>3. \A x \in On(s) : elem[x] \in Tasks /\ x \in allocated
  BY DEF Held, Heap
<1>4. s \in Seq(Nodes) /\ root = At(s, 1)
  BY <1>1 DEF Chain
<1>5. (s # <<>> => 1 \in 1 .. Len(s)) /\ (s = <<>> => Len(s) = 0)
  BY <1>4, EmptySeq, LenProperties
<1> QED  BY <1>1, <1>2, <1>3, <1>4, <1>5, ChainFacts, LinkedListAssumption

LEMMA NotLess == \A a, b \in Nat : ~(a < b) => b <= a
OBVIOUS

LEMMA StepDown == \A k \in Nat : (k + 1) - 1 = k /\ (k - 1) + 1 = k
OBVIOUS

LEMMA OneFurther == \A m \in Nat : \A i \in 2 .. m + 1 : i \in 2 .. m \/ i = m + 1
OBVIOUS

(* Behind the m-th node is the next one or NULL.                            *)
LEMMA Behind ==
    ASSUME NEW s \in Seq(Nodes), NEW m \in 1 .. Len(s)
    PROVE  /\ m \in Nat /\ Len(s) \in Nat /\ m + 1 \in 1 .. Len(s) + 1
           /\ At(s, m + 1) = NULL => m = Len(s)
           /\ At(s, m + 1) # NULL =>
                 m + 1 \in 1 .. Len(s) /\ At(s, m + 1) = s[m + 1] /\ m + 1 # 1 /\ (m + 1) - 1 = m
           /\ m # Len(s) => m + 1 \in 1 .. Len(s) /\ At(s, m + 1) = s[m + 1]
<1> DEFINE len == Len(s)
<1>1. len \in Nat /\ \A i \in 1 .. len : s[i] \in Nodes
  BY LenProperties, ElementOfSeq
<1>2. NULL \notin Nodes
  BY LinkedListAssumption
<1>3. At(s, m + 1) = IF m + 1 \in 1 .. len THEN s[m + 1] ELSE NULL
  BY DEF At
<1>4. m \in 1 .. len
  OBVIOUS
<1> HIDE DEF len
<1>5. m \in Nat /\ m + 1 \in 1 .. len + 1 /\ m + 1 # 1 /\ (m + 1) - 1 = m
  BY <1>1, <1>4
<1>6. m + 1 \in 1 .. len <=> m # len
  BY <1>1, <1>4
<1> QED  BY <1>1, <1>2, <1>3, <1>5, <1>6 DEF len

LEMMA AddCalls ==
    ASSUME Typed, NEW s, Held(s), NEW t \in Tasks, AddTopCall(t) \/ AddSortedCall(t)
    PROVE  Typed' /\ Held(s)'
<1> USE DEF list
<1>1. CASE AddTopCall(t)
  BY <1>1 DEF AddTopCall, Typed, Held, Heap, NewNode, Placing, Seeking, Callocs, Adding, Loose, Ahead
<1>2. CASE AddSortedCall(t)
  <2>1. pc = "idle" /\ pc' \in {"sorted top calloc", "sorted calloc"} /\ task' = t
        /\ UNCHANGED <<next, elem, allocated, root, n, seek, prec, key>>
    BY <1>2 DEF AddSortedCall
  <2>2. pc' = "sorted calloc" => s # <<>> /\ elem[s[1]].period <= t.period
    <3> SUFFICES ASSUME pc' = "sorted calloc" PROVE s # <<>> /\ elem[s[1]].period <= t.period
      OBVIOUS
    <3>1. n # 0 /\ ~(t.period < elem[root].period)
      BY <1>2 DEF AddSortedCall
    <3>2. n = Len(s)
      BY <2>1 DEF Held, Heap, Ahead
    <3>3. s # <<>> /\ 1 \in 1 .. Len(s)
      BY <3>1, <3>2, HeldFacts
    <3>4. root = s[1] /\ elem[s[1]] \in Tasks
      BY <3>3, HeldFacts DEF At
    <3>5. elem[s[1]].period \in Nat /\ t.period \in Nat
      BY <3>4, HeldFacts
    <3>6. ~(t.period < elem[s[1]].period)
      BY <3>1, <3>4
    <3>7. elem[s[1]].period <= t.period
      BY <3>5, <3>6, NotLess
    <3> QED  BY <3>3, <3>7
  <2>3. Typed' /\ Chain(s, root, next)'
    BY <2>1, HeldFacts DEF Typed, Chain, At
  <2>4. Heap(s)'
    BY <2>1 DEF Held, Heap, Loose, Ahead
  <2>5. NewNode(s)'
    BY <2>1, <2>2 DEF NewNode, Adding, Callocs, Loose
  <2>6. Placing(s)' /\ Seeking(s)'
    BY <2>1 DEF Placing, Seeking
  <2> QED  BY <2>3, <2>4, <2>5, <2>6 DEF Held
<1> QED  BY <1>1, <1>2

LEMMA CallocStep ==
    ASSUME Typed, NEW s, Held(s), Calloc
    PROVE  /\ Typed' /\ Held(s)'
           /\ \A y \in On(s) : elem'[y] = elem[y]
<1> DEFINE x == CHOOSE y \in Nodes : y \notin allocated
<1>1. x \in Nodes /\ x \notin allocated
  BY DEF Calloc, Typed
<1>2. /\ pc \in Callocs /\ allocated' = allocated \cup {x}
      /\ elem' = [elem EXCEPT ![x] = task] /\ seek' = x
      /\ UNCHANGED <<root, n, task, key>>
      /\ next' = [next EXCEPT ![x] = IF pc = "sorted calloc" THEN next[root] ELSE root]
      /\ pc = "sorted calloc" => prec' = root /\ pc' = "place"
      /\ pc = "top calloc" => pc' = "count"
      /\ pc = "sorted top calloc" => pc' = "sorted count"
  BY DEF Calloc, Callocs
<1> HIDE DEF x
<1>3. allocated = On(s) /\ n = Len(s) /\ task \in Tasks
  BY <1>2 DEF Held, Heap, NewNode, Callocs, Loose, Ahead, Adding
<1>4. (\A y \in On(s) : y \in Nodes /\ y # x) /\ On(s) \in SUBSET Nodes
  BY <1>1, <1>3, HeldFacts, ChainFacts
<1>5. /\ \A y \in On(s) : elem'[y] = elem[y] /\ next'[y] = next[y]
      /\ elem'[x] = task
  BY <1>1, <1>2, <1>4 DEF Typed
<1>6. Chain(s, root', next')
  <2>1. root' = root
    BY <1>2
  <2>2. Chain(s, root, next)
    BY HeldFacts
  <2>3. Chain(s, root, next')
    BY <1>5, <2>2, ChainSame
  <2> QED  BY <2>1, <2>3
<1>7. root \in Nodes \cup {NULL} /\ root = At(s, 1)
  BY HeldFacts DEF At
<1>8. CASE pc = "sorted calloc"
  <2>1. s # <<>> /\ elem[s[1]].period <= task.period
    BY <1>8 DEF Held, NewNode, Callocs, Adding
  <2>2. 1 \in 1 .. Len(s) /\ root = s[1] /\ next[root] = At(s, 1 + 1) /\ s[1] \in On(s)
    <3>1. 1 \in 1 .. Len(s)
      BY <2>1, HeldFacts
    <3>2. root = s[1]
      BY <1>7, <3>1 DEF At
    <3> QED  BY <3>1, <3>2, HeldFacts
  <2>3. next'[x] = At(s, 1 + 1) /\ prec' = s[1] /\ pc' = "place"
    BY <1>1, <1>2, <1>8, <2>2 DEF Typed
  <2>4. elem'[s[1]].period <= task'.period
    BY <1>2, <1>5, <2>1, <2>2
  <2>5. Typed'
    BY <1>1, <1>2, <1>3, <1>4, <1>7, <1>8, <2>2 DEF Typed
  <2>6. Heap(s)'
    BY <1>1, <1>2, <1>3, <1>5, <2>3 DEF Heap, Held, Loose, Ahead
  <2>7. NewNode(s)'
    BY <1>2, <1>3, <1>5, <2>1, <2>3, <2>4 DEF NewNode, Adding, Loose
  <2>8. Placing(s)'
    <3>1. \A i \in 2 .. 1 : elem'[s[i]].period < task'.period
      OBVIOUS
    <3>2. prec' = s[1] /\ next'[seek'] = At(s, 1 + 1)
      BY <1>2, <2>3
    <3> QED  BY <2>2, <3>1, <3>2 DEF Placing
  <2>9. Seeking(s)'
    BY <2>3 DEF Seeking
  <2> QED  BY <1>5, <1>6, <2>5, <2>6, <2>7, <2>8, <2>9 DEF Held
<1>9. CASE pc # "sorted calloc"
  <2>1. pc' \in {"count", "sorted count"} /\ next'[x] = root
    BY <1>1, <1>2, <1>9 DEF Callocs, Typed
  <2>2. Typed'
    BY <1>1, <1>2, <1>3, <1>4, <1>7, <1>9 DEF Typed
  <2>3. Heap(s)'
    BY <1>1, <1>2, <1>3, <1>5, <2>1 DEF Heap, Held, Loose, Ahead
  <2>4. NewNode(s)'
    BY <1>2, <1>3, <1>5, <1>7, <2>1 DEF NewNode, Adding, Loose
  <2>5. Placing(s)' /\ Seeking(s)'
    BY <2>1 DEF Placing, Seeking
  <2> QED  BY <1>5, <1>6, <2>2, <2>3, <2>4, <2>5 DEF Held
<1> QED  BY <1>8, <1>9

LEMMA CountStep ==
    ASSUME Typed, NEW s, Held(s), Count
    PROVE  Typed' /\ Held(s)'
<1>1. /\ pc \in {"count", "sorted count"} /\ n' = n + 1
      /\ pc' \in {"link", "sorted link"}
      /\ UNCHANGED <<next, elem, allocated, root, task, key, seek, prec>>
  BY DEF Count, local
<1>2. n' = Len(s) + 1
  BY <1>1 DEF Held, Heap, Ahead
<1> QED  BY <1>1, <1>2 DEF Typed, Held, Heap, NewNode, Placing, Seeking, Adding, Callocs, Loose, Ahead

LEMMA LinkStep ==
    ASSUME Typed, NEW s, Held(s), Link, NEW t, t = AddTop(s, seek)
    PROVE  /\ Typed' /\ Held(t)'
           /\ task \in Tasks /\ elem[seek] = task /\ seek \in Nodes
           /\ elem' = elem /\ ret' = ret
<1>1. /\ pc \in {"link", "sorted link"} /\ root' = seek /\ pc' = "idle"
      /\ UNCHANGED <<next, elem, allocated, n, ret>>
  BY DEF Link, Return
<1>2. /\ seek \in Nodes \ On(s) /\ allocated = On(s) \cup {seek} /\ n = Len(s) + 1
      /\ task \in Tasks /\ elem[seek] = task /\ next[seek] = At(s, 1)
      /\ \A x \in On(s) : elem[x] \in Tasks
  BY <1>1 DEF Held, Heap, NewNode, Adding, Loose, Ahead
<1>3. Chain(t, seek, next) /\ On(t) = On(s) \cup {seek}
  <2>1. Chain(s, root, next)
    BY HeldFacts
  <2> QED  BY <1>2, <2>1, ChainAddTop
<1>4. Len(t) = Len(s) + 1
  <2>1. s \in Seq(Nodes)
    BY HeldFacts DEF Chain
  <2> QED  BY <1>2, <2>1, AddTopFacts
<1>5. Chain(t, root', next')
  BY <1>1, <1>3
<1>6. Heap(t)'
  BY <1>1, <1>2, <1>3, <1>4 DEF Heap, Loose, Ahead
<1>7. NewNode(t)' /\ Placing(t)' /\ Seeking(t)'
  BY <1>1 DEF NewNode, Placing, Seeking, Adding, Callocs
<1>8. Typed'
  BY <1>1 DEF Typed
<1> QED  BY <1>1, <1>2, <1>5, <1>6, <1>7, <1>8 DEF Held

LEMMA PlaceTurnStep ==
    ASSUME Typed, NEW s, Held(s), PlaceTurn
    PROVE  Typed' /\ Held(s)' /\ elem' = elem
<1>1. /\ pc = "place" /\ pc' = pc /\ prec' = next[prec]
      /\ next[seek] # NULL /\ task.period > elem[next[seek]].period
      /\ next' = [next EXCEPT ![seek] = next[next[seek]]]
      /\ UNCHANGED <<elem, allocated, root, n, task, key, seek>>
  BY DEF PlaceTurn, GoesOn
<1>2. PICK m \in 1 .. Len(s) :
         /\ prec = s[m] /\ next[seek] = At(s, m + 1)
         /\ \A i \in 2 .. m : elem[s[i]].period < task.period
  BY <1>1 DEF Held, Placing
<1>3. seek \in Nodes \ On(s)
  BY <1>1 DEF Held, Heap, Loose
<1>4. m \in Nat /\ m + 1 \in 1 .. Len(s) /\ next[seek] = s[m + 1]
  <2>1. s \in Seq(Nodes)
    BY HeldFacts DEF Chain
  <2> QED  BY <1>1, <1>2, <2>1, Behind
<1>5. prec' = s[m + 1] /\ next[s[m + 1]] = At(s, (m + 1) + 1) /\ s[m + 1] \in Nodes
  BY <1>1, <1>2, <1>4, HeldFacts
<1>6. next'[seek] = At(s, (m + 1) + 1)
  BY <1>1, <1>3, <1>4, <1>5 DEF Typed
<1>7. Chain(s, root, next)'
  <2>1. Chain(s, root, next) /\ \A x \in On(s) : x # seek /\ x \in Nodes
    BY <1>3, HeldFacts, ChainFacts
  <2>2. \A x \in On(s) : next'[x] = next[x]
    BY <1>1, <2>1 DEF Typed
  <2>3. Chain(s, root, next')
    BY <2>1, <2>2, ChainSame
  <2> QED  BY <1>1, <2>3
<1>8. \A i \in 2 .. m + 1 : elem[s[i]].period < task.period
  <2>1. task \in Tasks /\ elem[s[m + 1]] \in Tasks
    BY <1>1, <1>4, HeldFacts DEF Held, NewNode, Adding
  <2>2. task.period \in Nat /\ elem[s[m + 1]].period \in Nat
    BY <2>1, HeldFacts
  <2>3. elem[s[m + 1]].period < task.period
    BY <1>1, <1>4, <2>2
  <2> QED  BY <1>2, <1>4, <2>3, OneFurther
<1>9. Typed'
  <2>1. next[next[seek]] \in Nodes \cup {NULL}
    BY <1>4, <1>5 DEF Typed
  <2> QED  BY <1>1, <2>1 DEF Typed
<1>10. Heap(s)'
  BY <1>1 DEF Held, Heap, Loose, Ahead
<1>11. NewNode(s)'
  BY <1>1 DEF Held, NewNode, Loose, Adding, Callocs
<1>12. Placing(s)'
  BY <1>1, <1>4, <1>5, <1>6, <1>8 DEF Placing
<1>13. Seeking(s)'
  BY <1>1 DEF Seeking
<1> QED  BY <1>1, <1>7, <1>9, <1>10, <1>11, <1>12, <1>13 DEF Held

(* Where the loop of list_ptr_add_sorted stands.                            *)
Between(s, m) ==
    /\ prec = s[m] /\ next[seek] = At(s, m + 1)
    /\ \A i \in 2 .. m : elem[s[i]].period < task.period

LEMMA PlaceStep ==
    ASSUME Typed, NEW s, Held(s), Place,
           NEW m \in 1 .. Len(s), Between(s, m), NEW t, t = InsertAt(s, m + 1, seek)
    PROVE  /\ Typed' /\ Held(t)'
           /\ task \in Tasks /\ elem[seek] = task /\ seek \in Nodes /\ s # <<>>
           /\ elem[s[1]].period <= task.period /\ ~GoesOn
           /\ elem' = elem /\ ret' = ret
<1>1. /\ pc = "place" /\ pc' = "idle" /\ n' = n + 1
      /\ next' = [next EXCEPT ![prec] = seek] /\ ~GoesOn
      /\ UNCHANGED <<elem, allocated, root, ret>>
  BY DEF Place, Return
<1>2. /\ seek \in Nodes \ On(s) /\ allocated = On(s) \cup {seek} /\ n = Len(s)
      /\ \A x \in On(s) : elem[x] \in Tasks
  BY <1>1 DEF Held, Heap, Loose, Ahead
<1>3. /\ task \in Tasks /\ elem[seek] = task
      /\ s # <<>> /\ elem[s[1]].period <= task.period
  BY <1>1 DEF Held, NewNode, Loose, Adding
<1>4. prec = s[m] /\ next[seek] = At(s, m + 1)
  BY DEF Between
<1>5. Chain(s, root, next) /\ s \in Seq(Nodes)
  BY HeldFacts DEF Chain
<1>6. \A i \in 1 .. Len(s) : s[i] \in Nodes /\ s[i] # seek /\ (i # m => s[i] # s[m])
  <2>1. \A i \in 1 .. Len(s) : s[i] \in Nodes /\ s[i] \in On(s)
    BY HeldFacts
  <2>2. \A i \in 1 .. Len(s) : s[i] = s[m] => i = m
    BY <1>5 DEF Chain
  <2> QED  BY <1>2, <2>1, <2>2
<1>7. Links(s, m, seek, next, next')
  BY <1>1, <1>2, <1>4, <1>6 DEF Typed, Links
<1>8. Chain(t, root, next') /\ On(t) = On(s) \cup {seek}
  <2>1. Chain(s, root, next) /\ seek \in Nodes \ On(s)
    BY <1>2, <1>5
  <2>2. /\ Chain(InsertAfter(s, m, seek), root, next')
        /\ On(InsertAfter(s, m, seek)) = On(s) \cup {seek}
    BY <1>7, <2>1, ChainInsert
  <2> QED  BY <2>2 DEF InsertAfter
<1>9. Len(t) = Len(s) + 1
  <2> DEFINE k == m + 1
  <2>1. k \in 1 .. Len(s) + 1 /\ seek \in Nodes
    BY <1>2, <1>5, Behind
  <2> HIDE DEF k
  <2>2. Len(InsertAt(s, k, seek)) = Len(s) + 1
    BY <1>5, <2>1, InsertAtFacts
  <2> QED  BY <2>2 DEF k
<1>10. Typed'
  BY <1>1, <1>2 DEF Typed
<1>11. Chain(t, root', next')
  BY <1>1, <1>8
<1>12. Heap(t)'
  BY <1>1, <1>2, <1>3, <1>8, <1>9 DEF Heap, Loose, Ahead
<1>13. NewNode(t)' /\ Placing(t)' /\ Seeking(t)'
  BY <1>1 DEF NewNode, Placing, Seeking, Adding, Callocs
<1> QED  BY <1>1, <1>2, <1>3, <1>10, <1>11, <1>12, <1>13 DEF Held

LEMMA RemoveCalls ==
    ASSUME Typed, NEW s, Held(s), NEW k \in Keys, RemoveCall(k)
    PROVE  /\ Typed' /\ Held(s)'
           /\ \/ ret' = ret
              \/ s = <<>> /\ ret' = NULL
<1>1. pc = "idle" /\ UNCHANGED <<next, elem, allocated, root, n, end>>
  BY DEF RemoveCall, list
<1>2. n = Len(s)
  BY <1>1 DEF Held, Heap, Ahead
<1>3. Typed' /\ Chain(s, root', next')
  BY <1>1, HeldFacts DEF Typed
<1>4. CASE n = 0
  <2>1. ret' = NULL /\ UNCHANGED <<pc, task, key, seek, prec>>
    BY <1>4 DEF RemoveCall, local
  <2>2. s = <<>>
    <3>1. Len(s) = 0 /\ (s # <<>> => 1 \in 1 .. Len(s))
      BY <1>2, <1>4, HeldFacts
    <3> QED  BY <3>1
  <2>3. Heap(s)' /\ NewNode(s)' /\ Placing(s)' /\ Seeking(s)'
    BY <1>1, <2>1 DEF Held, Heap, NewNode, Placing, Seeking
  <2> QED  BY <1>3, <2>1, <2>2, <2>3 DEF Held
<1>5. CASE n # 0
  <2>1. /\ pc' = IF elem[root] \in k THEN "remove top" ELSE "seek"
        /\ key' = k /\ prec' = root /\ seek' = next[root] /\ task' = task /\ ret' = ret
    BY <1>5 DEF RemoveCall
  <2>2. s # <<>> /\ 1 \in 1 .. Len(s)
    BY <1>2, <1>5, HeldFacts
  <2>3. root = s[1] /\ next[s[1]] = At(s, 1 + 1)
    <3>1. root = At(s, 1)
      BY HeldFacts
    <3>2. root = s[1]
      BY <2>2, <3>1 DEF At
    <3> QED  BY <2>2, <3>2, HeldFacts
  <2>4. Heap(s)'
    BY <1>1, <2>1 DEF Held, Heap, Loose, Ahead
  <2>5. NewNode(s)' /\ Placing(s)'
    BY <2>1 DEF NewNode, Placing, Adding, Callocs
  <2>6. Seeking(s)'
    <3>1. CASE elem[root] \in k
      BY <1>1, <2>1, <2>2, <2>3, <3>1 DEF Seeking
    <3>2. CASE elem[root] \notin k
      <4>1. pc' = "seek" /\ prec' = s[1] /\ seek' = At(s, 1 + 1) /\ elem'[s[1]] \notin key'
        BY <1>1, <2>1, <2>3, <3>2
      <4>2. \A i \in 2 .. 1 : elem'[s[i]] \in key'
        OBVIOUS
      <4> QED  BY <2>1, <2>2, <4>1, <4>2 DEF Seeking
    <3> QED  BY <3>1, <3>2
  <2>7. Held(s)'
    BY <1>3, <2>4, <2>5, <2>6 DEF Held
  <2> QED  BY <1>3, <2>1, <2>2, <2>7
<1> QED  BY <1>4, <1>5

LEMMA RemoveTopStep ==
    ASSUME Typed, NEW s, Held(s), RemoveTop, NEW t, t = RemoveAt(s, 1)
    PROVE  /\ Typed' /\ Held(t)' /\ 1 \in 1 .. Len(s)
           /\ key \in Keys /\ elem[s[1]] \in key /\ elem' = elem /\ ret' = elem[s[1]]
<1>1. /\ pc = "remove top" /\ root' = next[root] /\ seek' = root /\ ret' = elem[root]
      /\ pc' = "uncount"
      /\ UNCHANGED <<next, elem, allocated, n, task, key, prec>>
  BY DEF RemoveTop
<1>2. /\ allocated = On(s) /\ n = Len(s) /\ \A x \in On(s) : elem[x] \in Tasks
      /\ s # <<>> /\ key \in Keys /\ elem[s[1]] \in key
  BY <1>1 DEF Held, Heap, Seeking, Loose, Ahead
<1>3. 1 \in 1 .. Len(s) /\ s[1] \in Nodes /\ s[1] \in On(s) /\ s \in Seq(Nodes) /\ Len(s) \in Nat
  BY <1>2, HeldFacts DEF Chain
<1>4. root = s[1]
  BY <1>3, HeldFacts DEF At
<1>5. Chain(s, root, next)
  BY HeldFacts
<1>6. Chain(t, next[s[1]], next) /\ On(t) = On(s) \ {s[1]}
  <2>1. Unlinks(s, 1, root, next, next[s[1]], next)
    BY DEF Unlinks
  <2> QED  BY <1>3, <1>5, <2>1, ChainRemove
<1>7. Len(t) = Len(s) - 1
  BY <1>3, RemoveAtFacts
<1>8. Typed'
  BY <1>1 DEF Typed
<1>9. Chain(t, root', next')
  BY <1>1, <1>4, <1>6
<1>10. Heap(t)'
  <2>1. n' = Len(t) + 1
    BY <1>1, <1>2, <1>3, <1>7, StepDown
  <2> QED  BY <1>1, <1>2, <1>3, <1>4, <1>6, <2>1 DEF Heap, Loose, Ahead
<1>11. NewNode(t)' /\ Placing(t)' /\ Seeking(t)'
  BY <1>1 DEF NewNode, Placing, Seeking, Adding, Callocs
<1> QED  BY <1>1, <1>2, <1>3, <1>4, <1>8, <1>9, <1>10, <1>11 DEF Held

LEMMA SeekTurnStep ==
    ASSUME Typed, NEW s, Held(s), SeekTurn
    PROVE  Typed' /\ Held(s)'
<1>1. /\ pc = "seek" /\ seek # NULL /\ elem[seek] \in key
      /\ prec' = next[prec] /\ seek' = next[seek]
      /\ UNCHANGED <<next, elem, allocated, root, n, pc, task, key>>
  BY DEF SeekTurn, list
<1>2. key \in Keys
  BY <1>1 DEF Held, Seeking
<1>3. PICK m \in 1 .. Len(s) :
         /\ prec = s[m] /\ seek = At(s, m + 1) /\ elem[s[1]] \notin key
         /\ \A i \in 2 .. m : elem[s[i]] \in key
  BY <1>1 DEF Held, Seeking
<1>4. m \in Nat /\ m + 1 \in 1 .. Len(s) /\ seek = s[m + 1]
  <2>1. s \in Seq(Nodes)
    BY HeldFacts DEF Chain
  <2> QED  BY <1>1, <1>3, <2>1, Behind
<1>5. prec' = s[m + 1] /\ seek' = At(s, (m + 1) + 1)
  <2>1. \A i \in 1 .. Len(s) : next[s[i]] = At(s, i + 1)
    BY HeldFacts
  <2>2. next[s[m]] = s[m + 1] /\ next[s[m + 1]] = At(s, (m + 1) + 1)
    BY <1>3, <1>4, <2>1
  <2> QED  BY <1>1, <1>3, <1>4, <2>2
<1>6. \A i \in 2 .. m + 1 : elem[s[i]] \in key
  BY <1>1, <1>3, <1>4, OneFurther
<1>7. Seeking(s)'
  BY <1>1, <1>2, <1>3, <1>4, <1>5, <1>6 DEF Seeking
<1>8. Heap(s)' /\ NewNode(s)' /\ Placing(s)'
  BY <1>1 DEF Held, Heap, NewNode, Placing, Loose, Ahead, Adding, Callocs
<1>9. Typed' /\ Chain(s, root', next')
  BY <1>1, HeldFacts DEF Typed
<1> QED  BY <1>1, <1>7, <1>8, <1>9 DEF Held

(* Where the loop of list_ptr_remove stands.                                *)
Passed(s, m) ==
    /\ prec = s[m] /\ seek = At(s, m + 1) /\ elem[s[1]] \notin key
    /\ \A i \in 2 .. m : elem[s[i]] \in key

LEMMA NotFoundStep ==
    ASSUME Typed, NEW s, Held(s), NotFound
    PROVE  /\ Typed' /\ Held(s)' /\ key \in Keys /\ elem' = elem /\ ret' = NULL
           /\ \E m \in 1 .. Len(s) : Passed(s, m) /\ m = Len(s)
<1>1. /\ pc = "seek" /\ seek = NULL /\ ret' = NULL /\ pc' = "idle"
      /\ UNCHANGED <<next, elem, allocated, root, n>>
  BY DEF NotFound, Return, list
<1>2. key \in Keys
  BY <1>1 DEF Held, Seeking
<1>3. PICK m \in 1 .. Len(s) : Passed(s, m)
  BY <1>1 DEF Held, Seeking, Passed
<1>4. m = Len(s)
  <2>1. seek = At(s, m + 1) /\ s \in Seq(Nodes)
    BY <1>3, HeldFacts DEF Passed, Chain
  <2> QED  BY <1>1, <2>1, Behind
<1>5. Heap(s)'
  BY <1>1 DEF Held, Heap, Loose, Ahead
<1>6. NewNode(s)' /\ Placing(s)' /\ Seeking(s)'
  BY <1>1 DEF NewNode, Placing, Seeking, Adding, Callocs
<1>7. Typed' /\ Chain(s, root', next')
  BY <1>1, HeldFacts DEF Typed
<1> QED  BY <1>1, <1>2, <1>3, <1>4, <1>5, <1>6, <1>7 DEF Held

LEMMA UnlinkStep ==
    ASSUME Typed, NEW s, Held(s), Unlink, NEW m \in 1 .. Len(s), Passed(s, m),
           NEW t, t = RemoveAt(s, m + 1)
    PROVE  /\ Typed' /\ Held(t)' /\ m + 1 \in 1 .. Len(s)
           /\ key \in Keys /\ elem[s[m + 1]] \notin key
           /\ elem' = elem /\ ret' = elem[s[m + 1]]
<1>1. /\ pc = "seek" /\ seek # NULL /\ elem[seek] \notin key
      /\ next' = [next EXCEPT ![prec] = next[seek]]
      /\ ret' = elem[seek] /\ pc' = "uncount"
      /\ UNCHANGED <<elem, allocated, root, n, task, key, seek, prec>>
  BY DEF Unlink, local
<1>2. /\ allocated = On(s) /\ n = Len(s) /\ key \in Keys
      /\ \A x \in On(s) : elem[x] \in Tasks
  BY <1>1 DEF Held, Heap, Seeking, Loose, Ahead
<1>3. prec = s[m] /\ seek = At(s, m + 1)
  BY DEF Passed
<1>4. Chain(s, root, next) /\ s \in Seq(Nodes)
  BY HeldFacts DEF Chain
<1> DEFINE k == m + 1
<1>5. /\ k \in 1 .. Len(s) /\ k # 1 /\ k - 1 = m /\ seek = s[k] /\ t = RemoveAt(s, k)
      /\ Len(s) \in Nat
  BY <1>1, <1>3, <1>4, Behind
<1> HIDE DEF k
<1>6. Chain(s, root, next) /\ s \in Seq(Nodes)
  BY <1>4
<1>7. \A i \in 1 .. Len(s) : s[i] \in Nodes /\ (i # m => s[i] # s[m])
  <2>1. \A i \in 1 .. Len(s) : s[i] = s[m] => i = m
    BY <1>6 DEF Chain
  <2> QED  BY <2>1, HeldFacts
<1>8. /\ next'[s[m]] = next[seek]
      /\ \A i \in 1 .. Len(s) : i # m => next'[s[i]] = next[s[i]]
  BY <1>1, <1>3, <1>7 DEF Typed
<1>9. Unlinks(s, k, root, next, root, next')
  BY <1>5, <1>8 DEF Unlinks
<1>10. Chain(t, root, next') /\ On(t) = On(s) \ {s[k]}
  <2>1. Chain(RemoveAt(s, k), root, next') /\ On(RemoveAt(s, k)) = On(s) \ {s[k]}
    BY <1>5, <1>6, <1>9, ChainRemove
  <2> QED  BY <1>5, <2>1
<1>11. Len(t) = Len(s) - 1
  BY <1>5, <1>6, RemoveAtFacts
<1>12. Typed'
  <2>1. next[seek] \in Nodes \cup {NULL}
    BY <1>5, <1>7 DEF Typed
  <2> QED  BY <1>1, <2>1 DEF Typed
<1>13. Chain(t, root', next')
  BY <1>1, <1>10
<1>14. Heap(t)'
  <2>1. n' = Len(t) + 1
    BY <1>1, <1>2, <1>5, <1>11, StepDown
  <2>2. s[k] \in On(s) /\ s[k] \in Nodes
    BY <1>5, HeldFacts
  <2> QED  BY <1>1, <1>2, <1>5, <1>10, <2>1, <2>2 DEF Heap, Loose, Ahead
<1>15. NewNode(t)' /\ Placing(t)' /\ Seeking(t)'
  BY <1>1 DEF NewNode, Placing, Seeking, Adding, Callocs
<1>16. elem[s[k]] \notin key /\ ret' = elem[s[k]]
  BY <1>1, <1>5
<1> QED  BY <1>1, <1>2, <1>5, <1>12, <1>13, <1>14, <1>15, <1>16 DEF Held, k

LEMMA UncountStep ==
    ASSUME Typed, NEW s, Held(s), Uncount
    PROVE  Typed' /\ Held(s)'
<1>1. /\ pc = "uncount" /\ n' = n - 1 /\ pc' = "free"
      /\ UNCHANGED <<next, elem, allocated, root, task, key, seek, prec>>
  BY DEF Uncount, local
<1>2. n' = Len(s)
  <2>1. n = Len(s) + 1
    BY <1>1 DEF Held, Heap, Ahead
  <2> QED  BY <1>1, <2>1, HeldFacts, StepDown
<1>3. Heap(s)'
  BY <1>1, <1>2 DEF Held, Heap, Loose, Ahead
<1>4. NewNode(s)' /\ Placing(s)' /\ Seeking(s)'
  BY <1>1 DEF NewNode, Placing, Seeking, Adding, Callocs
<1>5. Typed' /\ Chain(s, root', next')
  BY <1>1, HeldFacts DEF Typed
<1> QED  BY <1>3, <1>4, <1>5 DEF Held

LEMMA FreeStep ==
    ASSUME Typed, NEW s, Held(s), Free
    PROVE  Typed' /\ Held(s)' /\ \A x \in On(s) : elem'[x] = elem[x]
<1>1. /\ pc = "free" /\ pc' = "idle" /\ allocated' = allocated \ {seek}
      /\ next' = [next EXCEPT ![seek] = NULL] /\ elem' = [elem EXCEPT ![seek] = NULL]
      /\ UNCHANGED <<root, n>>
  BY DEF Free, Return
<1>2. /\ seek \in Nodes \ On(s) /\ allocated = On(s) \cup {seek} /\ n = Len(s)
      /\ \A x \in On(s) : elem[x] \in Tasks
  BY <1>1 DEF Held, Heap, Loose, Ahead
<1>3. Chain(s, root, next) /\ \A x \in On(s) : x \in Nodes /\ x # seek
  BY <1>2, HeldFacts, ChainFacts
<1>4. \A x \in On(s) : next'[x] = next[x] /\ elem'[x] = elem[x]
  BY <1>1, <1>3 DEF Typed
<1>5. Chain(s, root', next')
  <2>1. Chain(s, root, next')
    BY <1>3, <1>4, ChainSame
  <2> QED  BY <1>1, <2>1
<1>6. Typed'
  BY <1>1 DEF Typed
<1>7. Heap(s)'
  BY <1>1, <1>2, <1>4 DEF Heap, Loose, Ahead
<1>8. NewNode(s)' /\ Placing(s)' /\ Seeking(s)'
  BY <1>1 DEF NewNode, Placing, Seeking, Adding, Callocs
<1> QED  BY <1>4, <1>5, <1>6, <1>7, <1>8 DEF Held

----------------------------------------------------------------------------
(* THE INVARIANT HOLDS *)

(* Once the process has ended nothing happens any more.                     *)
LEMMA EndsAll ==
    ASSUME end # "no", [Next]_vars
    PROVE  UNCHANGED vars
BY DEF Next, Step, AddTopCall, AddSortedCall, RemoveCall, SearchElem, Calloc, CallocFails, Count,
       Link, PlaceTurn, Place, RemoveTop, SeekTurn, NotFound, Unlink, Uncount, Free, Sigint

(* Every step leaves the process ended or the list in order; the sequence   *)
(* of the nodes stays, or is what an insertion or a removal leaves of it.   *)
Stays(s, t) ==
    /\ t = s
    /\ \A x \in On(s) : elem'[x] = elem[x]

Linking(s, t) ==
    /\ t = AddTop(s, seek) /\ seek \in Nodes
    /\ task \in Tasks /\ elem[seek] = task /\ elem' = elem /\ ret' = ret

Inserting(s, t) ==
    /\ \E m \in 1 .. Len(s) : Between(s, m) /\ t = InsertAt(s, m + 1, seek)
    /\ task \in Tasks /\ elem[seek] = task /\ seek \in Nodes /\ s # <<>>
    /\ elem[s[1]].period <= task.period /\ ~GoesOn
    /\ elem' = elem /\ ret' = ret

Taking(s, t) ==
    /\ key \in Keys /\ elem' = elem
    /\ \/ t = RemoveAt(s, 1) /\ 1 \in 1 .. Len(s) /\ elem[s[1]] \in key /\ ret' = elem[s[1]]
       \/ \E m \in 1 .. Len(s) :
             /\ Passed(s, m) /\ m + 1 \in 1 .. Len(s) /\ t = RemoveAt(s, m + 1)
             /\ elem[s[m + 1]] \notin key /\ ret' = elem[s[m + 1]]

Missing(s, t) ==
    /\ t = s /\ elem' = elem /\ ret' = NULL
    /\ \/ s = <<>> /\ Keys # {}
       \/ key \in Keys /\ \E m \in 1 .. Len(s) : Passed(s, m) /\ m = Len(s)

Outcome(s, t) ==
    \/ Stays(s, t) /\ ret' = ret
    \/ Stays(s, t) /\ \E k \in Keys : SearchElem(k)
    \/ Linking(s, t) \/ Inserting(s, t) \/ Taking(s, t) \/ Missing(s, t)

LEMMA Steps ==
    ASSUME Typed, end = "no", NEW s, Held(s), [Next]_vars
    PROVE  \/ Typed' /\ end' # "no" /\ UNCHANGED <<next, elem, root, ret>>
           \/ Typed' /\ \E t : Held(t)' /\ Outcome(s, t)
<1> USE DEF Stays, Outcome
<1> DEFINE Goal == \E t : Held(t)' /\ Outcome(s, t)
<1>1. ASSUME NEW t \in Tasks, AddTopCall(t) \/ AddSortedCall(t)
      PROVE  Typed' /\ Goal
  <2>1. Typed' /\ Held(s)'
    BY <1>1, AddCalls
  <2>2. elem' = elem /\ ret' = ret
    BY <1>1 DEF AddTopCall, AddSortedCall, list
  <2> QED  BY <2>1, <2>2
<1>2. ASSUME NEW k \in Keys, RemoveCall(k)
      PROVE  Typed' /\ Goal
  <2>1. /\ Typed' /\ Held(s)'
        /\ \/ ret' = ret
           \/ s = <<>> /\ ret' = NULL
    BY <1>2, RemoveCalls
  <2>2. elem' = elem
    BY <1>2 DEF RemoveCall, list
  <2> QED  BY <2>1, <2>2 DEF Missing
<1>3. ASSUME NEW k \in Keys, SearchElem(k)
      PROVE  Typed' /\ Goal
  <2>1. UNCHANGED <<next, elem, allocated, root, n, pc, task, key, seek, prec, end>>
    BY <1>3 DEF SearchElem, list, local
  <2>2. Typed' /\ Held(s)'
    BY <2>1 DEF Typed, Held, Heap, NewNode, Placing, Seeking
  <2> QED  BY <1>3, <2>1, <2>2
<1>4. CASE Calloc
  <2>1. Typed' /\ Held(s)' /\ \A x \in On(s) : elem'[x] = elem[x]
    BY <1>4, CallocStep
  <2>2. ret' = ret
    BY <1>4 DEF Calloc
  <2> QED  BY <2>1, <2>2
<1>5. CASE CallocFails
  BY <1>5 DEF CallocFails, list, Typed
<1>6. CASE Count
  <2>1. elem' = elem /\ ret' = ret
    BY <1>6 DEF Count
  <2> QED  BY <1>6, <2>1, CountStep
<1>7. CASE Link
  <2>1. PICK t : t = AddTop(s, seek)
    OBVIOUS
  <2>2. Typed' /\ Held(t)' /\ Linking(s, t)
    BY <1>7, <2>1, LinkStep DEF Linking
  <2> QED  BY <2>2
<1>8. CASE PlaceTurn
  <2>1. elem' = elem /\ ret' = ret
    BY <1>8 DEF PlaceTurn
  <2> QED  BY <1>8, <2>1, PlaceTurnStep
<1>9. CASE Place
  <2>1. pc = "place"
    BY <1>9 DEF Place
  <2>2. PICK m \in 1 .. Len(s) : Between(s, m)
    BY <2>1 DEF Held, Placing, Between
  <2>3. PICK t : t = InsertAt(s, m + 1, seek)
    OBVIOUS
  <2>4. /\ Typed' /\ Held(t)'
        /\ task \in Tasks /\ elem[seek] = task /\ seek \in Nodes /\ s # <<>>
        /\ elem[s[1]].period <= task.period /\ ~GoesOn
        /\ elem' = elem /\ ret' = ret
    BY <1>9, <2>2, <2>3, PlaceStep
  <2>5. Inserting(s, t)
    BY <2>2, <2>3, <2>4 DEF Inserting
  <2> QED  BY <2>4, <2>5
<1>10. CASE RemoveTop
  <2>1. PICK t : t = RemoveAt(s, 1)
    OBVIOUS
  <2>2. Typed' /\ Held(t)' /\ Taking(s, t)
    BY <1>10, <2>1, RemoveTopStep DEF Taking
  <2> QED  BY <2>2
<1>11. CASE SeekTurn
  <2>1. elem' = elem /\ ret' = ret
    BY <1>11 DEF SeekTurn, list
  <2> QED  BY <1>11, <2>1, SeekTurnStep
<1>12. CASE NotFound
  <2>1. Typed' /\ Held(s)' /\ Missing(s, s)
    BY <1>12, NotFoundStep DEF Missing
  <2> QED  BY <2>1
<1>13. CASE Unlink
  <2>1. pc = "seek"
    BY <1>13 DEF Unlink
  <2>2. PICK m \in 1 .. Len(s) : Passed(s, m)
    BY <2>1 DEF Held, Seeking, Passed
  <2>3. PICK t : t = RemoveAt(s, m + 1)
    OBVIOUS
  <2>4. /\ Typed' /\ Held(t)' /\ m + 1 \in 1 .. Len(s)
        /\ key \in Keys /\ elem[s[m + 1]] \notin key
        /\ elem' = elem /\ ret' = elem[s[m + 1]]
    BY <1>13, <2>2, <2>3, UnlinkStep
  <2>5. Taking(s, t)
    BY <2>2, <2>3, <2>4 DEF Taking
  <2> QED  BY <2>4, <2>5
<1>14. CASE Uncount
  <2>1. elem' = elem /\ ret' = ret
    BY <1>14 DEF Uncount
  <2> QED  BY <1>14, <2>1, UncountStep
<1>15. CASE Free
  <2>1. ret' = ret
    BY <1>15 DEF Free
  <2> QED  BY <1>15, <2>1, FreeStep
<1>16. CASE Sigint
  <2>1. end' # "no" /\ UNCHANGED <<next, elem, root, ret>>
    BY <1>16 DEF Sigint
  <2>2. Typed'
    BY <1>16, <2>1 DEF Sigint, Typed
  <2> QED  BY <2>1, <2>2
<1>17. CASE UNCHANGED vars
  <2>1. UNCHANGED <<next, elem, allocated, root, n, pc, task, key, seek, prec, end, ret>>
    BY <1>17 DEF vars, list, local
  <2>2. Typed' /\ Held(s)'
    BY <2>1 DEF Typed, Held, Heap, NewNode, Placing, Seeking
  <2> QED  BY <2>1, <2>2
<1> HIDE DEF Goal
<1> QED
  BY <1>1, <1>2, <1>3, <1>4, <1>5, <1>6, <1>7, <1>8, <1>9, <1>10, <1>11, <1>12, <1>13, <1>14,
     <1>15, <1>16, <1>17 DEF Next, Step, Goal

(* It holds when the daemon starts.                                         *)
LEMMA InitHolds == Init => ListInv
<1> SUFFICES ASSUME Init PROVE ListInv
  OBVIOUS
<1>1. <<>> \in Seq(Nodes) /\ Len(<<>>) = 0 /\ \A i \in 1 .. Len(<<>>) : FALSE
  OBVIOUS
<1>2. At(<<>>, 1) = NULL /\ On(<<>>) = {}
  BY <1>1 DEF At, On
<1>3. Chain(<<>>, root, next)
  BY <1>1, <1>2 DEF Init, Chain
<1>4. Linked = <<>>
  BY <1>3, LinkedIs
<1>5. Held(<<>>)
  BY <1>1, <1>2, <1>3 DEF Init, Held, Heap, NewNode, Placing, Seeking, Loose, Ahead, Adding, Callocs
<1>6. Typed
  BY DEF Init, Typed
<1> QED  BY <1>4, <1>5, <1>6 DEF ListInv

(* The heap, the links, the count and the local variables of the call under *)
(* way fit together in every reachable state.                               *)
THEOREM ListHolds == Spec => []ListInv
<1>1. Init => ListInv
  BY InitHolds
<1>2. ListInv /\ [Next]_vars => ListInv'
  <2> SUFFICES ASSUME ListInv, [Next]_vars PROVE ListInv'
    OBVIOUS
  <2>1. CASE end # "no"
    <3>1. UNCHANGED <<next, elem, allocated, end>>
      BY <2>1, EndsAll DEF vars, list
    <3> QED  BY <2>1, <3>1 DEF ListInv, Typed
  <2>2. CASE end = "no"
    <3>1. PICK s : s = Linked
      OBVIOUS
    <3>2. Typed /\ Held(s)
      BY <2>2, <3>1 DEF ListInv
    <3>3. CASE Typed' /\ end' # "no"
      BY <3>3 DEF ListInv
    <3>4. CASE Typed' /\ \E t : Held(t)'
      <4>1. PICK t : Held(t)'
        BY <3>4
      <4>2. Linked' = t
        BY <4>1, LinkedIsNext DEF Held
      <4> QED  BY <3>4, <4>1, <4>2 DEF ListInv
    <3> QED  BY <2>2, <3>2, <3>3, <3>4, Steps
  <2> QED  BY <2>1, <2>2
<1> QED  BY <1>1, <1>2, PTL DEF Spec

(* Whatever the call under way has done so far, a walk over the list meets  *)
(* distinct nodes that are allocated, and between calls no other node is    *)
(* allocated.                                                               *)
THEOREM LinksLive == Spec => []LinksAreLive
<1>1. ListInv => LinksAreLive
  <2> SUFFICES ASSUME ListInv, end = "no" PROVE LinksAreLive
    BY DEF LinksAreLive
  <2> DEFINE s == Linked
  <2>1. Held(s)
    BY DEF ListInv
  <2>2. Chain(s, root, next) /\ Heap(s)
    BY <2>1 DEF Held
  <2>3. On(s) \subseteq allocated /\ (pc = "idle" => On(s) = allocated)
    BY <2>2 DEF Heap, Loose
  <2>4. Cardinality(On(s)) = Len(s)
    BY <2>2, ChainFacts
  <2>5. On(s) = {Linked[k] : k \in 1 .. Len(Linked)}
    BY DEF On
  <2> QED  BY <2>3, <2>4, <2>5 DEF LinksAreLive
<1> QED  BY <1>1, ListHolds, PTL

(* The count is what the walk finds, or one more between the two stores of  *)
(* an addition or a removal; between calls every index below it is found.   *)
THEOREM CountRight == Spec => []CountIsLength
<1>1. ListInv => CountIsLength
  <2> SUFFICES ASSUME ListInv, end = "no" PROVE CountIsLength
    BY DEF CountIsLength
  <2> DEFINE s == Linked
  <2>1. Held(s)
    BY DEF ListInv
  <2>2. Chain(s, root, next) /\ Heap(s)
    BY <2>1 DEF Held
  <2>3. Len(s) \in Nat
    BY <2>2, ChainFacts
  <2>4. n = IF pc \in Ahead THEN Len(s) + 1 ELSE Len(s)
    BY <2>2 DEF Heap
  <2>5. pc = "idle" => n = Len(s)
    BY <2>4 DEF Ahead
  <2>6. pc = "idle" => \A i \in 0 .. n : INode(i) = IF i < n THEN s[i + 1] ELSE NULL
    BY <2>2, <2>5, INodeIs
  <2>7. n - Len(s) \in {0, 1} /\ (n # Len(s) => pc \in {"link", "sorted link", "uncount"})
    <3> DEFINE len == Len(s)
    <3> HIDE DEF s, len
    <3>1. len \in Nat /\ (n = len + 1 \/ n = len)
      BY <2>3, <2>4 DEF len
    <3>2. n - len \in {0, 1}
      BY <3>1
    <3>3. n # len => pc \in {"link", "sorted link", "uncount"}
      BY <2>4 DEF Ahead, len
    <3> QED  BY <3>2, <3>3 DEF len
  <2> QED  BY <2>6, <2>7 DEF CountIsLength
<1> QED  BY <1>1, ListHolds, PTL

----------------------------------------------------------------------------
(* THE SEQUENCES *)

LEMMA ContentIs == Content = Image(elem, Linked) /\ Content' = Image(elem', Linked')
BY DEF Content, Image

LEMMA ImageFacts ==
    ASSUME NEW s \in Seq(Nodes), NEW el, \A x \in On(s) : el[x] \in Tasks
    PROVE  /\ Image(el, s) \in Seq(Tasks) /\ Len(Image(el, s)) = Len(s)
           /\ \A i \in 1 .. Len(s) : Image(el, s)[i] = el[s[i]] /\ el[s[i]] \in Tasks
<1>1. Len(s) \in Nat /\ \A i \in 1 .. Len(s) : s[i] \in On(s)
  BY LenProperties DEF On
<1>2. \A i \in 1 .. Len(s) : el[s[i]] \in Tasks
  BY <1>1
<1> QED  BY <1>1, <1>2, IsASeq DEF Image

LEMMA ImageSame ==
    ASSUME NEW s, NEW el, NEW el2, \A x \in On(s) : el2[x] = el[x]
    PROVE  Image(el2, s) = Image(el, s)
<1>1. \A i \in 1 .. Len(s) : s[i] \in On(s)
  BY DEF On
<1> QED  BY <1>1 DEF Image

LEMMA ImageAddTop ==
    ASSUME NEW s \in Seq(Nodes), NEW el, \A x \in On(s) : el[x] \in Tasks,
           NEW x \in Nodes, el[x] \in Tasks
    PROVE  Image(el, AddTop(s, x)) = AddTop(Image(el, s), el[x])
<1> DEFINE a == Image(el, s)
           t == AddTop(s, x)
           b == Image(el, t)
           c == AddTop(a, el[x])
<1>1. a \in Seq(Tasks) /\ Len(a) = Len(s) /\ \A i \in 1 .. Len(s) : a[i] = el[s[i]] /\ el[s[i]] \in Tasks
  BY ImageFacts
<1>2. /\ t \in Seq(Nodes) /\ Len(t) = Len(s) + 1 /\ t[1] = x
      /\ \A i \in 1 .. Len(s) : t[i + 1] = s[i]
  BY AddTopFacts
<1>3. /\ c \in Seq(Tasks) /\ Len(c) = Len(a) + 1 /\ c[1] = el[x]
      /\ \A i \in 1 .. Len(a) : c[i + 1] = a[i]
  <2> DEFINE y == el[x]
  <2>1. a \in Seq(Tasks) /\ y \in Tasks
    BY <1>1
  <2> HIDE DEF a, y
  <2>2. /\ AddTop(a, y) \in Seq(Tasks) /\ Len(AddTop(a, y)) = Len(a) + 1 /\ AddTop(a, y)[1] = y
        /\ \A i \in 1 .. Len(a) : AddTop(a, y)[i + 1] = a[i]
    BY <2>1, AddTopFacts
  <2> QED  BY <2>2 DEF y
<1>4. Len(s) \in Nat
  BY LenProperties
<1> DEFINE len == Len(s)
<1> HIDE DEF a, c, t, len
<1>5. \A i \in 1 .. len + 1 : i = 1 \/ (i - 1 \in 1 .. len /\ (i - 1) + 1 = i)
  BY <1>4 DEF len
<1>6. \A i \in 1 .. len + 1 : c[i] = el[t[i]]
  <2> SUFFICES ASSUME NEW i \in 1 .. len + 1 PROVE c[i] = el[t[i]]
    OBVIOUS
  <2>1. CASE i = 1
    BY <1>2, <1>3, <2>1
  <2>2. CASE i - 1 \in 1 .. len /\ (i - 1) + 1 = i
    <3>1. c[i] = a[i - 1] /\ t[i] = s[i - 1] /\ a[i - 1] = el[s[i - 1]]
      BY <1>1, <1>2, <1>3, <2>2 DEF len
    <3> QED  BY <3>1
  <2> QED  BY <1>5, <2>1, <2>2
<1>7. c = [i \in 1 .. len + 1 |-> el[t[i]]]
  <2>1. c = [i \in 1 .. Len(c) |-> c[i]]
    BY <1>3, LenProperties
  <2> QED  BY <1>1, <1>3, <1>6, <2>1 DEF len
<1>8. b = [i \in 1 .. len + 1 |-> el[t[i]]]
  BY <1>2 DEF Image, len
<1> QED  BY <1>7, <1>8 DEF c, t, a

LEMMA ImageRemoveAt ==
    ASSUME NEW s \in Seq(Nodes), NEW el, \A x \in On(s) : el[x] \in Tasks, NEW k \in 1 .. Len(s)
    PROVE  Image(el, RemoveAt(s, k)) = RemoveAt(Image(el, s), k)
<1> DEFINE a == Image(el, s)
           t == RemoveAt(s, k)
           b == Image(el, t)
           c == RemoveAt(a, k)
           len == Len(s)
<1>1. a \in Seq(Tasks) /\ Len(a) = len /\ \A i \in 1 .. len : a[i] = el[s[i]]
  BY ImageFacts
<1>2. /\ Len(t) = len - 1
      /\ \A i \in 1 .. len - 1 : t[i] = IF i < k THEN s[i] ELSE s[i + 1]
  BY RemoveAtFacts
<1>3. /\ c \in Seq(Tasks) /\ Len(c) = len - 1
      /\ \A i \in 1 .. len - 1 : c[i] = IF i < k THEN a[i] ELSE a[i + 1]
  <2>1. k \in 1 .. Len(a)
    BY <1>1
  <2> HIDE DEF a
  <2> QED  BY <1>1, <2>1, RemoveAtFacts
<1>4. len \in Nat /\ k \in 1 .. len
  BY LenProperties
<1> HIDE DEF a, c, t, len
<1>5. \A i \in 1 .. len - 1 : i \in 1 .. len /\ i + 1 \in 1 .. len
  BY <1>4
<1>6. \A i \in 1 .. len - 1 : c[i] = el[t[i]]
  BY <1>1, <1>2, <1>3, <1>5
<1>7. c = [i \in 1 .. len - 1 |-> el[t[i]]]
  <2>1. c = [i \in 1 .. Len(c) |-> c[i]]
    BY <1>3, LenProperties
  <2> QED  BY <1>3, <1>6, <2>1
<1>8. b = [i \in 1 .. len - 1 |-> el[t[i]]]
  BY <1>2 DEF Image
<1> QED  BY <1>7, <1>8 DEF c, t, a

Inserted(a, j, y) ==
    /\ InsertAt(a, j, y) \in Seq(Tasks) /\ Len(InsertAt(a, j, y)) = Len(a) + 1
    /\ \A i \in 1 .. Len(a) + 1 :
          InsertAt(a, j, y)[i] = IF i < j THEN a[i] ELSE IF i = j THEN y ELSE a[i - 1]

LEMMA InsertTask ==
    ASSUME NEW a \in Seq(Tasks), NEW y \in Tasks, NEW j \in 1 .. Len(a) + 1
    PROVE  Inserted(a, j, y)
<1>1. /\ InsertAt(a, j, y) \in Seq(Tasks) /\ Len(InsertAt(a, j, y)) = Len(a) + 1
      /\ \A i \in 1 .. Len(a) + 1 :
            InsertAt(a, j, y)[i] = IF i < j THEN a[i] ELSE IF i = j THEN y ELSE a[i - 1]
  BY InsertAtFacts
<1> QED  BY <1>1 DEF Inserted

LEMMA ImageInsertAt ==
    ASSUME NEW s \in Seq(Nodes), NEW el, \A x \in On(s) : el[x] \in Tasks,
           NEW x \in Nodes, el[x] \in Tasks, NEW k \in 1 .. Len(s) + 1
    PROVE  Image(el, InsertAt(s, k, x)) = InsertAt(Image(el, s), k, el[x])
<1> DEFINE a == Image(el, s)
           t == InsertAt(s, k, x)
           b == Image(el, t)
           c == InsertAt(a, k, el[x])
           len == Len(s)
<1>1. a \in Seq(Tasks) /\ Len(a) = len /\ \A i \in 1 .. len : a[i] = el[s[i]]
  BY ImageFacts
<1>2. /\ Len(t) = len + 1
      /\ \A i \in 1 .. len + 1 :
            t[i] = IF i < k THEN s[i] ELSE IF i = k THEN x ELSE s[i - 1]
  BY InsertAtFacts
<1>3. /\ c \in Seq(Tasks) /\ Len(c) = len + 1
      /\ \A i \in 1 .. len + 1 :
            c[i] = IF i < k THEN a[i] ELSE IF i = k THEN el[x] ELSE a[i - 1]
  <2>1. k \in 1 .. Len(a) + 1 /\ a \in Seq(Tasks) /\ el[x] \in Tasks /\ Len(a) = len
    BY <1>1
  <2> HIDE DEF a, len
  <2>2. Inserted(a, k, el[x])
    BY <2>1, InsertTask
  <2> QED  BY <2>1, <2>2 DEF Inserted
<1>4. len \in Nat /\ k \in 1 .. len + 1
  BY LenProperties
<1> HIDE DEF a, c, t, len
<1>5. \A i \in 1 .. len + 1 : (i < k => i \in 1 .. len) /\ (~(i < k) /\ i # k => i - 1 \in 1 .. len)
  BY <1>4
<1>6. \A i \in 1 .. len + 1 : c[i] = el[t[i]]
  BY <1>1, <1>2, <1>3, <1>5
<1>7. c = [i \in 1 .. len + 1 |-> el[t[i]]]
  <2>1. c = [i \in 1 .. Len(c) |-> c[i]]
    BY <1>3, LenProperties
  <2> QED  BY <1>3, <1>6, <2>1
<1>8. b = [i \in 1 .. len + 1 |-> el[t[i]]]
  BY <1>2 DEF Image
<1> QED  BY <1>7, <1>8 DEF c, t, a

----------------------------------------------------------------------------
(* EVERY STEP IS AN OPERATION ON THE SEQUENCE OR NONE *)

(* What the sequence of the tasks has to do with that of the nodes.         *)
LEMMA HeldImage ==
    ASSUME Typed, NEW s, Held(s)
    PROVE  /\ s \in Seq(Nodes) /\ Len(s) \in Nat
           /\ \A x \in On(s) : elem[x] \in Tasks
           /\ Image(elem, s) \in Seq(Tasks) /\ Len(Image(elem, s)) = Len(s)
           /\ \A i \in 1 .. Len(s) : Image(elem, s)[i] = elem[s[i]] /\ elem[s[i]] \in Tasks
           /\ Image(elem, s) = <<>> <=> s = <<>>
<1>1. s \in Seq(Nodes) /\ Len(s) \in Nat
  BY HeldFacts DEF Chain
<1>2. \A x \in On(s) : elem[x] \in Tasks
  BY DEF Held, Heap
<1>3. /\ Image(elem, s) \in Seq(Tasks) /\ Len(Image(elem, s)) = Len(s)
      /\ \A i \in 1 .. Len(s) : Image(elem, s)[i] = elem[s[i]] /\ elem[s[i]] \in Tasks
  BY <1>1, <1>2, ImageFacts
<1>4. Image(elem, s) = <<>> <=> s = <<>>
  BY <1>1, <1>3, EmptySeq
<1> QED  BY <1>1, <1>2, <1>3, <1>4

LEMMA LinkingIs ==
    ASSUME Typed, NEW s, Held(s), NEW t, Linking(s, t)
    PROVE  /\ Image(elem', t) = AddTop(Image(elem, s), task)
           /\ task \in Tasks /\ ret' = ret
<1>1. t = AddTop(s, seek) /\ elem[seek] = task /\ elem' = elem /\ seek \in Nodes /\ task \in Tasks
  BY DEF Linking
<1>2. s \in Seq(Nodes) /\ \A x \in On(s) : elem[x] \in Tasks
  BY HeldImage
<1>3. Image(elem, AddTop(s, seek)) = AddTop(Image(elem, s), elem[seek])
  BY <1>1, <1>2, ImageAddTop
<1> QED  BY <1>1, <1>3 DEF Linking

(* The place list_ptr_add_sorted stops at is the one AddSorted computes.    *)
LEMMA InsertingIs ==
    ASSUME Typed, NEW s, Held(s), NEW t, Inserting(s, t)
    PROVE  /\ Image(elem', t) = AddSorted(Image(elem, s), task)
           /\ task \in Tasks /\ ret' = ret
<1> DEFINE a == Image(elem, s)
           stop == {j \in 2 .. Len(a) : task.period <= a[j].period}
           k == IF stop = {} THEN Len(a) + 1 ELSE Min(stop)
<1>1. /\ task \in Tasks /\ elem[seek] = task /\ seek \in Nodes /\ s # <<>>
      /\ elem[s[1]].period <= task.period /\ ~GoesOn /\ elem' = elem /\ ret' = ret
  BY DEF Inserting
<1>2. PICK m \in 1 .. Len(s) : Between(s, m) /\ t = InsertAt(s, m + 1, seek)
  BY DEF Inserting
<1>3. /\ s \in Seq(Nodes) /\ Len(s) \in Nat /\ \A x \in On(s) : elem[x] \in Tasks
      /\ a \in Seq(Tasks) /\ Len(a) = Len(s) /\ a # <<>>
      /\ \A i \in 1 .. Len(s) : a[i] = elem[s[i]] /\ elem[s[i]] \in Tasks
  BY <1>1, HeldImage
<1>4. /\ next[seek] = At(s, m + 1)
      /\ \A i \in 2 .. m : elem[s[i]].period < task.period
  BY <1>2 DEF Between
<1>5. /\ m \in Nat /\ m + 1 \in 1 .. Len(s) + 1
      /\ m # Len(s) => m + 1 \in 1 .. Len(s) /\ At(s, m + 1) = s[m + 1] /\ m + 1 # 1
  BY <1>3, Behind
<1>6. \A u \in Tasks : u.period \in Nat
  BY LinkedListAssumption
<1>7. 1 \in 1 .. Len(s) /\ a[1] = elem[s[1]] /\ elem[s[1]] \in Tasks
  <2>1. Len(s) # 0
    BY <1>1, <1>3, EmptySeq
  <2> QED  BY <1>3, <2>1
<1>8. AddSorted(a, task) = InsertAt(a, k, task)
  <2>1. ~(task.period < a[1].period)
    BY <1>1, <1>6, <1>7
  <2> QED  BY <1>3, <2>1 DEF AddSorted
<1>9. \A j \in stop : j \in Nat /\ j >= m + 1
  <2> SUFFICES ASSUME NEW j \in stop PROVE j \in Nat /\ j >= m + 1
    OBVIOUS
  <2>1. j \in 2 .. Len(s) /\ j \in 1 .. Len(s) /\ task.period <= a[j].period
    BY <1>3
  <2>2. a[j] = elem[s[j]] /\ elem[s[j]] \in Tasks
    BY <1>3, <2>1
  <2>3. j \notin 2 .. m
    BY <1>1, <1>4, <1>6, <2>1, <2>2
  <2> QED  BY <1>5, <2>1, <2>3
<1>10. k = m + 1
  <2>1. CASE m = Len(s)
    <3>1. stop = {}
      <4> SUFFICES ASSUME NEW j \in stop PROVE FALSE
        OBVIOUS
      <4>1. j \in 2 .. Len(s) /\ j >= m + 1
        BY <1>3, <1>9
      <4> QED  BY <1>3, <1>5, <2>1, <4>1
    <3> QED  BY <1>3, <2>1, <3>1
  <2>2. CASE m # Len(s)
    <3> DEFINE j == m + 1
    <3>1. j \in 2 .. Len(s) /\ j \in 1 .. Len(s) /\ next[seek] = s[j]
      BY <1>3, <1>4, <1>5, <2>2
    <3>2. s[j] # NULL
      BY <1>3, <3>1, LinkedListAssumption
    <3> HIDE DEF j
    <3>3. a[j] = elem[s[j]] /\ elem[s[j]] \in Tasks
      BY <1>3, <3>1
    <3>4. ~(task.period > elem[s[j]].period)
      BY <1>1, <3>1, <3>2 DEF GoesOn
    <3>5. j \in stop
      <4>1. task.period \in Nat /\ elem[s[j]].period \in Nat
        BY <1>1, <1>6, <3>3
      <4>2. task.period <= a[j].period
        BY <3>3, <3>4, <4>1
      <4> QED  BY <1>3, <3>1, <4>2
    <3>6. stop \in SUBSET Nat /\ stop # {}
      BY <1>9, <3>5
    <3> HIDE DEF stop
    <3>7. Min(stop) \in stop /\ \A y \in stop : Min(stop) <= y
      BY <3>6, MinOfNats
    <3>8. Min(stop) \in Nat /\ Min(stop) <= j /\ Min(stop) >= j
      BY <1>9, <3>5, <3>7 DEF j
    <3>9. j \in Nat
      BY <3>1, <1>3
    <3>10. Min(stop) = j
      BY <3>8, <3>9
    <3> QED  BY <3>6, <3>10 DEF j
  <2> QED  BY <2>1, <2>2
<1>11. Image(elem, InsertAt(s, m + 1, seek)) = InsertAt(a, m + 1, elem[seek])
  <2> HIDE DEF a
  <2>1. m + 1 \in 1 .. Len(s) + 1 /\ elem[seek] \in Tasks
    BY <1>1, <1>5
  <2>2. Image(elem, InsertAt(s, m + 1, seek)) = InsertAt(Image(elem, s), m + 1, elem[seek])
    BY <1>1, <1>3, <2>1, ImageInsertAt
  <2> QED  BY <2>2 DEF a
<1> HIDE DEF stop, k
<1>12. Image(elem', t) = AddSorted(a, task)
  <2> HIDE DEF a
  <2>1. Image(elem, t) = InsertAt(a, m + 1, task)
    BY <1>1, <1>2, <1>11
  <2>2. Image(elem, t) = InsertAt(a, k, task)
    BY <1>10, <2>1
  <2>3. Image(elem', t) = Image(elem, t)
    BY <1>1
  <2> QED  BY <1>8, <2>2, <2>3
<1> QED  BY <1>1, <1>12

(* What a removal takes out is what RemoveIndex says.                       *)
HitsOf(a, k) == {i \in 1 .. Len(a) : a[i] \in k}

Taken(a, k, b, r) ==
    LET i == RemoveIndex(a, HitsOf(a, k))
    IN  IF i = 0 THEN r = NULL /\ b = a
                 ELSE r = a[i] /\ b = RemoveAt(a, i)

(* The first node behind the root that the comparison answers "zero" for.   *)
LEMMA FirstMiss ==
    ASSUME NEW a \in Seq(Tasks), NEW k, NEW m \in 1 .. Len(a),
           a[1] \notin k, \A i \in 2 .. m : a[i] \in k
    PROVE  /\ m = Len(a) => RemoveIndex(a, HitsOf(a, k)) = 0
           /\ m + 1 \in 1 .. Len(a) /\ a[m + 1] \notin k => RemoveIndex(a, HitsOf(a, k)) = m + 1
<1> DEFINE hits == HitsOf(a, k)
           misses == (2 .. Len(a)) \ hits
           j == m + 1
<1>1. Len(a) \in Nat /\ m \in Nat /\ a # <<>> /\ m \in 1 .. Len(a)
  BY LenProperties, EmptySeq
<1>2. 1 \notin hits
  BY DEF HitsOf
<1>3. RemoveIndex(a, hits) = IF misses = {} THEN 0 ELSE Min(misses)
  <2> HIDE DEF hits
  <2> QED  BY <1>1, <1>2 DEF RemoveIndex
<1>4. \A i \in misses : i \in Nat /\ i \in j .. Len(a)
  <2> SUFFICES ASSUME NEW i \in misses PROVE i \in Nat /\ i \in j .. Len(a)
    OBVIOUS
  <2>1. i \in 2 .. Len(a) /\ i \in 1 .. Len(a) /\ a[i] \notin k
    BY <1>1 DEF HitsOf
  <2>2. i \notin 2 .. m
    BY <2>1
  <2> QED  BY <1>1, <2>1, <2>2
<1>5. ASSUME m = Len(a)
      PROVE  RemoveIndex(a, hits) = 0
  <2>1. misses = {}
    <3> HIDE DEF misses
    <3> QED  BY <1>1, <1>4, <1>5
  <2> HIDE DEF hits
  <2> QED  BY <1>3, <2>1
<1>6. ASSUME j \in 1 .. Len(a), a[j] \notin k
      PROVE  RemoveIndex(a, hits) = j
  <2>1. j \in misses
    <3>1. j \in 2 .. Len(a)
      BY <1>1, <1>6
    <3>2. j \notin hits
      BY <1>6 DEF HitsOf
    <3> QED  BY <3>1, <3>2
  <2> HIDE DEF misses
  <2>2. misses \in SUBSET Nat /\ misses # {}
    BY <1>4, <2>1
  <2>3. Min(misses) \in misses /\ \A y \in misses : Min(misses) <= y
    BY <2>2, MinOfNats
  <2>4. Min(misses) = j
    BY <1>1, <1>4, <2>1, <2>3
  <2> HIDE DEF hits, j
  <2> QED  BY <1>3, <2>2, <2>4
<1> QED  BY <1>5, <1>6

LEMMA TakenAt ==
    ASSUME Typed, NEW s, Held(s), NEW a, a = Image(elem, s), NEW t, NEW k \in 1 .. Len(s),
           t = RemoveAt(s, k), elem' = elem, ret' = elem[s[k]],
           RemoveIndex(a, HitsOf(a, key)) = k
    PROVE  Taken(a, key, Image(elem', t), ret')
<1>1. /\ s \in Seq(Nodes) /\ Len(s) \in Nat /\ \A x \in On(s) : elem[x] \in Tasks
      /\ \A i \in 1 .. Len(s) : a[i] = elem[s[i]]
  BY HeldImage
<1>2. Image(elem, RemoveAt(s, k)) = RemoveAt(Image(elem, s), k)
  BY <1>1, ImageRemoveAt
<1>3. ret' = a[k] /\ k # 0 /\ Image(elem', t) = RemoveAt(a, k)
  BY <1>1, <1>2
<1> QED  BY <1>3 DEF Taken

LEMMA TakingIs ==
    ASSUME Typed, NEW s, Held(s), NEW t, Taking(s, t)
    PROVE  key \in Keys /\ Taken(Image(elem, s), key, Image(elem', t), ret')
<1> DEFINE a == Image(elem, s)
<1>1. key \in Keys /\ elem' = elem
  BY DEF Taking
<1>2. /\ s \in Seq(Nodes) /\ Len(s) \in Nat /\ \A x \in On(s) : elem[x] \in Tasks
      /\ a \in Seq(Tasks) /\ Len(a) = Len(s) /\ (a = <<>> <=> s = <<>>)
      /\ \A i \in 1 .. Len(s) : a[i] = elem[s[i]]
  BY HeldImage
<1>3. CASE t = RemoveAt(s, 1) /\ 1 \in 1 .. Len(s) /\ elem[s[1]] \in key /\ ret' = elem[s[1]]
  <2>1. 1 \in HitsOf(a, key) /\ a # <<>>
    <3>1. 1 \in 1 .. Len(a) /\ a[1] \in key
      BY <1>2, <1>3
    <3>2. a # <<>>
      BY <1>2, <3>1, EmptySeq
    <3> HIDE DEF a
    <3> QED  BY <3>1, <3>2 DEF HitsOf
  <2>2. RemoveIndex(a, HitsOf(a, key)) = 1
    BY <2>1 DEF RemoveIndex
  <2> QED  BY <1>1, <1>3, <2>2, TakenAt
<1>4. CASE \E m \in 1 .. Len(s) :
              /\ Passed(s, m) /\ m + 1 \in 1 .. Len(s) /\ t = RemoveAt(s, m + 1)
              /\ elem[s[m + 1]] \notin key /\ ret' = elem[s[m + 1]]
  <2>1. PICK m \in 1 .. Len(s) :
              /\ Passed(s, m) /\ m + 1 \in 1 .. Len(s) /\ t = RemoveAt(s, m + 1)
              /\ elem[s[m + 1]] \notin key /\ ret' = elem[s[m + 1]]
    BY <1>4
  <2>2. elem[s[1]] \notin key /\ \A i \in 2 .. m : elem[s[i]] \in key
    BY <2>1 DEF Passed
  <2>3. a[1] \notin key /\ (\A i \in 2 .. m : a[i] \in key) /\ a[m + 1] \notin key
    BY <1>2, <2>1, <2>2
  <2> HIDE DEF a
  <2> DEFINE k == m + 1
  <2>4. RemoveIndex(a, HitsOf(a, key)) = k
    BY <1>2, <2>1, <2>3, FirstMiss
  <2>5. k \in 1 .. Len(s) /\ t = RemoveAt(s, k) /\ ret' = elem[s[k]]
    BY <2>1
  <2> HIDE DEF k
  <2> QED  BY <1>1, <2>4, <2>5, TakenAt DEF a
<1> QED  BY <1>1, <1>3, <1>4 DEF Taking

LEMMA MissingIs ==
    ASSUME Typed, NEW s, Held(s), NEW t, Missing(s, t)
    PROVE  \E k \in Keys : Taken(Image(elem, s), k, Image(elem', t), ret')
<1> DEFINE a == Image(elem, s)
<1>1. t = s /\ elem' = elem /\ ret' = NULL
  BY DEF Missing
<1>2. /\ a \in Seq(Tasks) /\ Len(a) = Len(s) /\ (a = <<>> <=> s = <<>>) /\ Len(s) \in Nat
      /\ \A i \in 1 .. Len(s) : a[i] = elem[s[i]]
  BY HeldImage
<1>3. ASSUME NEW k, RemoveIndex(a, HitsOf(a, k)) = 0
      PROVE  Taken(a, k, Image(elem', t), ret')
  BY <1>1, <1>3 DEF Taken
<1>4. CASE s = <<>> /\ Keys # {}
  <2>1. \A k : RemoveIndex(a, HitsOf(a, k)) = 0
    BY <1>2, <1>4 DEF RemoveIndex
  <2> HIDE DEF a
  <2> QED  BY <1>3, <1>4, <2>1 DEF a
<1>5. CASE key \in Keys /\ \E m \in 1 .. Len(s) : Passed(s, m) /\ m = Len(s)
  <2>1. PICK m \in 1 .. Len(s) : Passed(s, m) /\ m = Len(s)
    BY <1>5
  <2>2. elem[s[1]] \notin key /\ \A i \in 2 .. m : elem[s[i]] \in key
    BY <2>1 DEF Passed
  <2>3. a[1] \notin key /\ \A i \in 2 .. m : a[i] \in key
    BY <1>2, <2>1, <2>2
  <2>4. RemoveIndex(a, HitsOf(a, key)) = 0
    <3> HIDE DEF a
    <3> QED  BY <1>2, <2>1, <2>3, FirstMiss
  <2> QED  BY <1>3, <1>5, <2>4
<1> QED  BY <1>4, <1>5 DEF Missing

LEMMA SearchingIs ==
    ASSUME Typed, NEW s, Held(s), NEW t, Stays(s, t), NEW k, SearchElem(k)
    PROVE  LET a == Image(elem, s)
               i == SearchIndex(a, HitsOf(a, k))
           IN  Image(elem', t) = a /\ ret' = IF i = 0 THEN NULL ELSE a[i]
<1> DEFINE a == Image(elem, s)
           misses == {i \in 1 .. Len(s) : elem[s[i]] \notin k}
           least == CHOOSE i \in misses : \A j \in misses : i <= j
<1>1. Linked = s
  BY LinkedIs DEF Held
<1>2. ret' = IF misses = {} THEN NULL ELSE elem[s[least]]
  BY <1>1 DEF SearchElem
<1>3. /\ Len(a) = Len(s) /\ Len(s) \in Nat
      /\ \A i \in 1 .. Len(s) : a[i] = elem[s[i]]
  BY HeldImage
<1>4. (1 .. Len(a)) \ HitsOf(a, k) = misses
  BY <1>3 DEF HitsOf
<1>5. SearchIndex(a, HitsOf(a, k)) = IF misses = {} THEN 0 ELSE Min(misses)
  <2> HIDE DEF a, misses
  <2> QED  BY <1>4 DEF SearchIndex
<1>6. Min(misses) = least
  BY DEF Min
<1>7. misses # {} => Min(misses) \in 1 .. Len(s) /\ Min(misses) # 0
  <2>1. misses \in SUBSET Nat
    BY <1>3
  <2>2. misses # {} => Min(misses) \in misses
    <3> HIDE DEF misses
    <3> QED  BY <2>1, MinOfNats
  <2>3. misses \in SUBSET (1 .. Len(s)) /\ 0 \notin 1 .. Len(s)
    BY <1>3
  <2> HIDE DEF misses
  <2> QED  BY <2>2, <2>3
<1>8. Image(elem', t) = a
  BY ImageSame DEF Stays
<1> HIDE DEF a, misses, least
<1>9. ret' = IF SearchIndex(a, HitsOf(a, k)) = 0 THEN NULL ELSE a[SearchIndex(a, HitsOf(a, k))]
  <2>1. CASE misses = {}
    BY <1>2, <1>5, <2>1
  <2>2. CASE misses # {}
    <3>1. a[Min(misses)] = elem[s[Min(misses)]]
      BY <1>3, <1>7, <2>2
    <3> QED  BY <1>2, <1>5, <1>6, <1>7, <2>2, <3>1
  <2> QED  BY <2>1, <2>2
<1> QED  BY <1>8, <1>9 DEF a

(* Each store of the code is one operation of TaskList on the sequence of   *)
(* the tasks linked, or leaves it and what was returned as they are.        *)
LEMMA StepImplements ==
    ASSUME ListInv, [Next]_vars
    PROVE  [L!Next]_<<Content, ret>>
<1>1. CASE end # "no"
  <2>1. UNCHANGED <<next, elem, root, ret>>
    BY <1>1, EndsAll DEF vars, list
  <2> QED  BY <2>1 DEF Content, Linked
<1>2. CASE end = "no"
  <2> DEFINE s == Linked
             a == Image(elem, s)
  <2>1. Typed /\ Held(s)
    BY <1>2 DEF ListInv
  <2>2. Content = a
    BY ContentIs
  <2> HIDE DEF s
  <2>3. CASE UNCHANGED <<next, elem, root, ret>>
    BY <2>3 DEF Content, Linked
  <2>4. ASSUME NEW t, Held(t)', Outcome(s, t)
        PROVE  [L!Next]_<<Content, ret>>
    <3> DEFINE b == Image(elem', t)
    <3>1. Content' = b
      <4>1. Chain(t, root', next')
        BY <2>4 DEF Held
      <4> QED  BY <4>1, LinkedIsNext, ContentIs
    <3>2. CASE Stays(s, t) /\ ret' = ret
      <4>1. b = a
        BY <3>2, ImageSame DEF Stays
      <4> QED  BY <2>2, <3>1, <3>2, <4>1
    <3>3. ASSUME NEW k \in Keys, Stays(s, t), SearchElem(k)
          PROVE  L!Next
      <4> DEFINE i == SearchIndex(a, HitsOf(a, k))
      <4>1. b = a /\ ret' = IF i = 0 THEN NULL ELSE a[i]
        BY <2>1, <3>3, SearchingIs
      <4> HIDE DEF a, b
      <4>2. L!Search(k)
        BY <2>2, <3>1, <4>1 DEF L!Search, L!Hits, HitsOf, SearchIndex, L!SearchIndex, Min, L!Min
      <4> QED  BY <4>2 DEF L!Next
    <3>4. CASE Linking(s, t)
      <4>1. b = AddTop(a, task) /\ task \in Tasks /\ ret' = ret
        BY <2>1, <3>4, LinkingIs
      <4> HIDE DEF a, b
      <4>2. L!Insert(task)
        BY <2>2, <3>1, <4>1 DEF L!Insert, L!AddTop, AddTop
      <4> QED  BY <4>1, <4>2 DEF L!Next
    <3>5. CASE Inserting(s, t)
      <4>1. b = AddSorted(a, task) /\ task \in Tasks /\ ret' = ret
        BY <2>1, <3>5, InsertingIs
      <4> HIDE DEF a, b
      <4>2. L!AddSorted(a, task) = AddSorted(a, task)
        BY DEF L!AddSorted, AddSorted, L!AddTop, AddTop, L!InsertAt, InsertAt, L!Min, Min
      <4>3. L!Insert(task)
        BY <2>2, <3>1, <4>1, <4>2 DEF L!Insert
      <4> QED  BY <4>1, <4>3 DEF L!Next
    <3>6. ASSUME NEW k \in Keys, Taken(a, k, b, ret')
          PROVE  L!Next
      <4> HIDE DEF a, b
      <4>1. /\ L!RemoveIndex(a, HitsOf(a, k)) = RemoveIndex(a, HitsOf(a, k))
            /\ \A i : L!RemoveAt(a, i) = RemoveAt(a, i)
        BY DEF L!RemoveIndex, RemoveIndex, L!Min, Min, L!RemoveAt, RemoveAt
      <4>2. L!Hits(k) = HitsOf(a, k)
        BY <2>2 DEF L!Hits, HitsOf
      <4>3. L!Take(k)
        BY <2>2, <3>1, <3>6, <4>1, <4>2 DEF L!Take, Taken
      <4> QED  BY <4>3 DEF L!Next
    <3>7. CASE Taking(s, t)
      BY <2>1, <3>6, <3>7, TakingIs
    <3>8. CASE Missing(s, t)
      BY <2>1, <3>6, <3>8, MissingIs
    <3> HIDE DEF a, b
    <3> QED  BY <2>4, <3>2, <3>3, <3>4, <3>5, <3>7, <3>8 DEF Outcome
  <2> QED  BY <1>2, <2>1, <2>3, <2>4, Steps
<1> QED  BY <1>1, <1>2

(* The list of nodes implements the sequence the scheduler's model is built *)
(* on: additions on top and in order, removals and searches with the        *)
(* comparison read the code's way, what they return, and nothing in         *)
(* between, whatever the heap, the tasks and the comparisons are, also when *)
(* memory runs out or the signal ends the process in the middle of a call.  *)
THEOREM ImplementsSequences == Spec => ImplementsTaskList
<1>1. Init => L!Init
  <2> SUFFICES ASSUME Init PROVE Content = <<>> /\ ret = NULL
    BY DEF L!Init
  <2>1. <<>> \in Seq(Nodes) /\ Len(<<>>) = 0 /\ \A i \in 1 .. Len(<<>>) : FALSE
    OBVIOUS
  <2>2. At(<<>>, 1) = NULL
    BY <2>1 DEF At
  <2>3. Chain(<<>>, root, next)
    BY <2>1, <2>2 DEF Init, Chain
  <2>4. Linked = <<>>
    BY <2>3, LinkedIs
  <2>5. Content = <<>>
    BY <2>1, <2>4 DEF Content
  <2> QED  BY <2>5 DEF Init
<1>2. ListInv /\ [Next]_vars => [L!Next]_<<Content, ret>>
  BY StepImplements
<1> QED  BY <1>1, <1>2, ListHolds, PTL DEF Spec, ImplementsTaskList, L!Spec

----------------------------------------------------------------------------
(* SORTING *)

(* The last of the least of v between two places.                           *)
LastLeast(v, i, j) ==
    CHOOSE k \in i .. j : \A x \in i .. j : v[k] <= v[x] /\ (x > k => v[k] < v[x])

(* There is one, and it is the only one.                                    *)
LEMMA LastLeastIs ==
    ASSUME NEW N \in Nat, NEW v \in [1 .. N -> Int], NEW i \in 1 .. N, NEW j \in i .. N
    PROVE  /\ LastLeast(v, i, j) \in i .. j
           /\ \A x \in i .. j :
                 /\ v[LastLeast(v, i, j)] <= v[x]
                 /\ x > LastLeast(v, i, j) => v[LastLeast(v, i, j)] < v[x]
<1> DEFINE Is(k, b) == /\ k \in i .. b
                       /\ \A x \in i .. b : v[k] <= v[x] /\ (x > k => v[k] < v[x])
           T == {d \in Nat : i + d <= N => \E k \in i .. i + d : Is(k, i + d)}
<1>1. 0 \in T
  <2>1. i \in i .. i + 0 /\ \A x \in i .. i + 0 : x = i
    OBVIOUS
  <2>2. v[i] \in Int
    OBVIOUS
  <2>3. Is(i, i + 0)
    BY <2>1, <2>2
  <2> HIDE DEF Is
  <2> QED  BY <2>1, <2>3
<1>2. ASSUME NEW d \in Nat, d \in T PROVE d + 1 \in T
  <2> SUFFICES ASSUME i + (d + 1) <= N PROVE \E k \in i .. i + (d + 1) : Is(k, i + (d + 1))
    OBVIOUS
  <2>1. PICK k \in i .. i + d : Is(k, i + d)
    <3> HIDE DEF Is
    <3> QED  BY <1>2
  <2> DEFINE e == i + (d + 1)
             g == IF v[k] < v[e] THEN k ELSE e
  <2>2. e \in 1 .. N /\ e \in i .. e /\ k \in i .. e /\ k < e /\ k \in 1 .. N
    OBVIOUS
  <2>3. \A x \in i .. e : x = e \/ x \in i .. i + d
    OBVIOUS
  <2>4. \A x \in i .. e : x \in 1 .. N /\ v[x] \in Int
    OBVIOUS
  <2>5. Is(g, e)
    <3> HIDE DEF e
    <3>1. ASSUME NEW x \in i .. e PROVE v[g] <= v[x] /\ (x > g => v[g] < v[x])
      <4>1. CASE x = e
        BY <2>2, <2>4, <4>1
      <4>2. CASE x \in i .. i + d
        <5>1. v[k] <= v[x] /\ (x > k => v[k] < v[x])
          BY <2>1, <4>2
        <5>2. x < e
          BY <4>2 DEF e
        <5> QED  BY <2>2, <2>4, <5>1, <5>2
      <4> QED  BY <2>3, <4>1, <4>2 DEF e
    <3>2. g \in i .. e
      BY <2>2
    <3> HIDE DEF g
    <3> QED  BY <3>1, <3>2
  <2> HIDE DEF Is, g
  <2>6. g \in i .. e
    BY <2>5 DEF Is
  <2> QED  BY <2>5, <2>6
<1>3. j - i \in Nat /\ i + (j - i) = j
  OBVIOUS
<1> HIDE DEF Is
<1>4. j - i \in T
  <2> HIDE DEF T
  <2> QED  BY <1>1, <1>2, <1>3, SetInduction
<1>5. \E k \in i .. j : Is(k, j)
  BY <1>3, <1>4
<1>6. \E k \in i .. j : \A x \in i .. j : v[k] <= v[x] /\ (x > k => v[k] < v[x])
  BY <1>5 DEF Is
<1> QED  BY <1>6 DEF LastLeast

(* The last of the least is that of the front or that of the back half.     *)
LEMMA LastLeastSplit ==
    ASSUME NEW N \in Nat, NEW v \in [1 .. N -> Int], NEW i \in 1 .. N, NEW j \in i .. N,
           NEW m \in i .. j - 1
    PROVE  LastLeast(v, i, j) = IF v[LastLeast(v, i, m)] < v[LastLeast(v, m + 1, j)]
                                THEN LastLeast(v, i, m) ELSE LastLeast(v, m + 1, j)
<1> DEFINE a == LastLeast(v, i, m)
           b == LastLeast(v, m + 1, j)
           c == LastLeast(v, i, j)
<1>1. m \in i .. N /\ m + 1 \in 1 .. N /\ j \in m + 1 .. N
  OBVIOUS
<1>2. a \in i .. m /\ \A x \in i .. m : v[a] <= v[x] /\ (x > a => v[a] < v[x])
  BY <1>1, LastLeastIs
<1>3. b \in m + 1 .. j /\ \A x \in m + 1 .. j : v[b] <= v[x] /\ (x > b => v[b] < v[x])
  BY <1>1, LastLeastIs
<1>4. c \in i .. j /\ \A x \in i .. j : v[c] <= v[x] /\ (x > c => v[c] < v[x])
  BY LastLeastIs
<1> HIDE DEF a, b, c
<1>5. a \in i .. j /\ b \in i .. j /\ (c \in i .. m \/ c \in m + 1 .. j)
  BY <1>1, <1>2, <1>3, <1>4
<1>6. v[a] \in Int /\ v[b] \in Int /\ v[c] \in Int
  BY <1>1, <1>5, <1>4
<1>7. v[c] <= v[a] /\ v[c] <= v[b] /\ (a > c => v[c] < v[a]) /\ (b > c => v[c] < v[b])
  BY <1>4, <1>5
<1>8. CASE c \in i .. m
  <2>1. v[a] <= v[c] /\ (c > a => v[a] < v[c])
    BY <1>2, <1>8
  <2>2. c = a /\ b > c
    BY <1>1, <1>2, <1>3, <1>6, <1>7, <1>8, <2>1
  <2> QED  BY <1>7, <2>2 DEF a, b, c
<1>9. CASE c \in m + 1 .. j
  <2>1. v[b] <= v[c] /\ (c > b => v[b] < v[c])
    BY <1>3, <1>9
  <2>2. c = b
    BY <1>1, <1>3, <1>6, <1>7, <1>9, <2>1
  <2>3. ~(v[a] < v[b])
    BY <1>6, <1>7, <2>2
  <2> QED  BY <2>2, <2>3 DEF a, b, c
<1> QED  BY <1>5, <1>8, <1>9

(* Of two lists of one task each the merge keeps one, the second in a tie.  *)
LEMMA MergeOfTwo ==
    ASSUME NEW a, NEW b, NEW less
    PROVE  Merge(<<a>>, <<b>>, less) = IF <<a, b>> \in less THEN <<a>> ELSE <<b>>
<1> DEFINE D == (1 .. Len(<<a>>) + 1) \X (1 .. Len(<<b>>) + 1)
           value(f, i, j) == IF i > Len(<<a>>) \/ j > Len(<<b>>) THEN <<>>
                             ELSE IF <<<<a>>[i], <<b>>[j]>> \in less
                                  THEN <<<<a>>[i]>> \o f[<<i + 1, j>>]
                             ELSE <<<<b>>[j]>> \o f[<<i, j + 1>>]
           Solves(f) == f = [at \in D |-> value(f, at[1], at[2])]
           pick == IF <<a, b>> \in less THEN <<a>> ELSE <<b>>
           g == [at \in D |-> IF at[1] = 2 \/ at[2] = 2 THEN <<>> ELSE pick]
           C == CHOOSE f : Solves(f)
<1>1. D = {1, 2} \X {1, 2} /\ Len(<<a>>) = 1 /\ Len(<<b>>) = 1 /\ <<a>>[1] = a /\ <<b>>[1] = b
  <2>1. Len(<<a>>) = 1 /\ Len(<<b>>) = 1 /\ <<a>>[1] = a /\ <<b>>[1] = b
    OBVIOUS
  <2>2. 1 .. 1 + 1 = {1, 2}
    OBVIOUS
  <2> QED  BY <2>1, <2>2
<1>2. <<a>> \o <<>> = <<a>> /\ <<b>> \o <<>> = <<b>>
  OBVIOUS
<1>3. ASSUME NEW f, f[<<1, 2>>] = <<>>, f[<<2, 1>>] = <<>>
      PROVE  /\ value(f, 1, 1) = pick
             /\ value(f, 1, 2) = <<>> /\ value(f, 2, 1) = <<>> /\ value(f, 2, 2) = <<>>
  <2>1. f[<<1 + 1, 1>>] = <<>> /\ f[<<1, 1 + 1>>] = <<>>
    <3>1. 1 + 1 = 2
      OBVIOUS
    <3> QED  BY <1>3, <3>1
  <2>2. value(f, 1, 2) = <<>> /\ value(f, 2, 1) = <<>> /\ value(f, 2, 2) = <<>>
    BY <1>1
  <2>3. value(f, 1, 1) = IF <<a, b>> \in less THEN <<a>> \o f[<<1 + 1, 1>>]
                                              ELSE <<b>> \o f[<<1, 1 + 1>>]
    BY <1>1
  <2> QED  BY <1>2, <2>1, <2>2, <2>3
<1>4. \A at \in D : at \in {<<1, 1>>, <<1, 2>>, <<2, 1>>, <<2, 2>>}
  BY <1>1
<1>5. /\ g[<<1, 1>>] = pick
      /\ g[<<1, 2>>] = <<>> /\ g[<<2, 1>>] = <<>> /\ g[<<2, 2>>] = <<>>
  BY <1>1
<1> HIDE DEF pick
<1>6. ASSUME NEW at \in D PROVE g[at] = value(g, at[1], at[2])
  <2> HIDE DEF g, value
  <2>1. /\ value(g, 1, 1) = pick
        /\ value(g, 1, 2) = <<>> /\ value(g, 2, 1) = <<>> /\ value(g, 2, 2) = <<>>
    BY <1>3, <1>5
  <2> QED  BY <1>4, <1>5, <2>1
<1>7. g = [at \in D |-> g[at]]
  OBVIOUS
<1>8. Solves(g)
  <2> HIDE DEF g, value, D
  <2> QED  BY <1>6, <1>7
<1>9. Merge(<<a>>, <<b>>, less) = C[<<1, 1>>]
  BY DEF Merge
<1> HIDE DEF g
<1>10. Solves(C)
  <2> HIDE DEF Solves
  <2> QED  BY <1>8
<1> HIDE DEF C
<1>11. \A at \in D : C[at] = value(C, at[1], at[2])
  <2> HIDE DEF value, D
  <2> QED  BY <1>10
<1>12. C[<<1, 2>>] = <<>> /\ C[<<2, 1>>] = <<>>
  <2>1. <<1, 2>> \in D /\ <<2, 1>> \in D
    BY <1>1
  <2>2. C[<<1, 2>>] = value(C, 1, 2) /\ C[<<2, 1>>] = value(C, 2, 1)
    <3> HIDE DEF value, D
    <3> QED  BY <1>11, <2>1
  <2> QED  BY <1>1, <2>2
<1>13. C[<<1, 1>>] = value(C, 1, 1)
  <2>1. <<1, 1>> \in D
    BY <1>1
  <2> HIDE DEF value, D
  <2> QED  BY <1>11, <2>1
<1>14. value(C, 1, 1) = pick
  BY <1>3, <1>12
<1> QED  BY <1>9, <1>13, <1>14 DEF pick

(* Sorting a list leaves the last of its least elements alone.              *)
LEMMA SortLeavesOne ==
    ASSUME NEW S, NEW l \in Seq(S), l # <<>>, NEW less, NEW v \in [1 .. Len(l) -> Int],
           \A i, j \in 1 .. Len(l) : <<l[i], l[j]>> \in less <=> v[i] < v[j]
    PROVE  MergeSort(l, less) = <<l[LastLeast(v, 1, Len(l))]>>
<1> DEFINE N == Len(l)
           D == (1 .. N) \X (1 .. N)
           B(i, j) == IF i >= j THEN i ELSE LastLeast(v, i, j)
           value(f, i, j) == IF i >= j THEN <<l[i]>>
                             ELSE Merge(f[<<i, FrontEnd(i, j)>>], f[<<FrontEnd(i, j) + 1, j>>], less)
           Solves(f) == f = [s \in D |-> value(f, s[1], s[2])]
           g == [s \in D |-> <<l[B(s[1], s[2])]>>]
           C == CHOOSE f : Solves(f)
<1>1. N \in Nat /\ N > 0 /\ 1 \in 1 .. N /\ N \in 1 .. N
  BY LenProperties, EmptySeq
<1>2. v \in [1 .. N -> Int] /\ \A i, j \in 1 .. N : <<l[i], l[j]>> \in less <=> v[i] < v[j]
  OBVIOUS
<1>3. MergeSort(l, less) = C[<<1, N>>]
  BY DEF MergeSort
<1> HIDE DEF N
<1>4. ASSUME NEW i \in 1 .. N, NEW j \in i .. N
      PROVE  B(i, j) = LastLeast(v, i, j) /\ B(i, j) \in i .. j
  <2>1. LastLeast(v, i, j) \in i .. j
    BY <1>1, <1>2, LastLeastIs
  <2> QED  BY <2>1
<1>5. ASSUME NEW i \in 1 .. N, NEW j \in 1 .. N, i < j
      PROVE  /\ FrontEnd(i, j) \in i .. j - 1
             /\ <<i, FrontEnd(i, j)>> \in D /\ <<FrontEnd(i, j) + 1, j>> \in D
             /\ FrontEnd(i, j) - i < j - i /\ j - (FrontEnd(i, j) + 1) < j - i
  <2>1. (j - i) \div 2 \in 0 .. (j - i) - 1
    BY <1>1, <1>5
  <2> QED  BY <1>1, <1>5, <2>1 DEF FrontEnd
<1>6. ASSUME NEW f, NEW i \in 1 .. N, NEW j \in 1 .. N, i < j,
             f[<<i, FrontEnd(i, j)>>] = <<l[B(i, FrontEnd(i, j))]>>,
             f[<<FrontEnd(i, j) + 1, j>>] = <<l[B(FrontEnd(i, j) + 1, j)]>>
      PROVE  value(f, i, j) = <<l[B(i, j)]>>
  <2> DEFINE m == FrontEnd(i, j)
             a == LastLeast(v, i, m)
             b == LastLeast(v, m + 1, j)
  <2>1. m \in i .. j - 1
    BY <1>5, <1>6
  <2> HIDE DEF m
  <2>2. /\ m \in i .. N /\ m + 1 \in 1 .. N /\ j \in m + 1 .. N /\ j \in i .. N
    BY <1>1, <1>6, <2>1
  <2>3. /\ B(i, m) = a /\ a \in 1 .. N /\ B(m + 1, j) = b /\ b \in 1 .. N
        /\ B(i, j) = LastLeast(v, i, j)
    <3> HIDE DEF B
    <3>1. B(i, m) = a /\ B(i, m) \in i .. m
      BY <1>4, <2>2
    <3>2. B(m + 1, j) = b /\ B(m + 1, j) \in m + 1 .. j
      BY <1>4, <2>2
    <3>3. B(i, j) = LastLeast(v, i, j)
      BY <1>4, <2>2
    <3> HIDE DEF a, b
    <3> QED  BY <1>1, <2>2, <3>1, <3>2, <3>3
  <2>4. LastLeast(v, i, j) = IF v[a] < v[b] THEN a ELSE b
    BY <1>1, <1>2, <2>1, <2>2, LastLeastSplit
  <2> HIDE DEF a, b, B
  <2>5. value(f, i, j) = Merge(<<l[a]>>, <<l[b]>>, less)
    BY <1>6, <2>3 DEF m
  <2>6. Merge(<<l[a]>>, <<l[b]>>, less) = IF <<l[a], l[b]>> \in less THEN <<l[a]>> ELSE <<l[b]>>
    BY MergeOfTwo
  <2>7. <<l[a], l[b]>> \in less <=> v[a] < v[b]
    BY <1>2, <2>3
  <2> HIDE DEF value
  <2> QED  BY <2>3, <2>4, <2>5, <2>6, <2>7
<1>7. \A i, j \in 1 .. N : g[<<i, j>>] = <<l[B(i, j)]>>
  <2> HIDE DEF B
  <2> QED  OBVIOUS
<1>8. ASSUME NEW i \in 1 .. N, NEW j \in 1 .. N PROVE g[<<i, j>>] = value(g, i, j)
  <2>1. CASE i >= j
    <3>1. g[<<i, j>>] = <<l[B(i, j)]>>
      BY <1>7
    <3> HIDE DEF g
    <3> QED  BY <2>1, <3>1
  <2>2. CASE i < j
    <3> HIDE DEF g, value, B
    <3>1. FrontEnd(i, j) \in 1 .. N /\ FrontEnd(i, j) + 1 \in 1 .. N
      BY <1>1, <1>5, <2>2
    <3>2. /\ g[<<i, FrontEnd(i, j)>>] = <<l[B(i, FrontEnd(i, j))]>>
          /\ g[<<FrontEnd(i, j) + 1, j>>] = <<l[B(FrontEnd(i, j) + 1, j)]>>
      BY <1>7, <3>1
    <3> QED  BY <1>6, <1>7, <2>2, <3>2
  <2> QED  BY <1>1, <2>1, <2>2
<1>9. Solves(g)
  <2>1. g = [s \in D |-> g[s]]
    OBVIOUS
  <2> HIDE DEF g, value
  <2>2. ASSUME NEW s \in D PROVE g[s] = value(g, s[1], s[2])
    <3>1. s[1] \in 1 .. N /\ s[2] \in 1 .. N /\ s = <<s[1], s[2]>>
      OBVIOUS
    <3> QED  BY <1>8, <3>1
  <2> HIDE DEF D
  <2> QED  BY <2>1, <2>2
<1> HIDE DEF g
<1>10. Solves(C)
  <2> HIDE DEF Solves
  <2> QED  BY <1>9
<1> HIDE DEF C
<1>11. ASSUME NEW i \in 1 .. N, NEW j \in 1 .. N PROVE C[<<i, j>>] = value(C, i, j)
  <2> HIDE DEF value
  <2> QED  BY <1>10
<1> DEFINE T == {d \in Nat : \A i, j \in 1 .. N : j - i <= d => C[<<i, j>>] = <<l[B(i, j)]>>}
<1>12. 0 \in T
  <2>1. ASSUME NEW i \in 1 .. N, NEW j \in 1 .. N, j - i <= 0
        PROVE  C[<<i, j>>] = <<l[B(i, j)]>>
    <3>1. i >= j
      BY <1>1, <2>1
    <3>2. C[<<i, j>>] = value(C, i, j)
      BY <1>11
    <3> QED  BY <3>1, <3>2
  <2> HIDE DEF B
  <2> QED  BY <2>1
<1>13. ASSUME NEW d \in Nat, d \in T PROVE d + 1 \in T
  <2> HIDE DEF B, value
  <2>1. ASSUME NEW i \in 1 .. N, NEW j \in 1 .. N, j - i <= d
        PROVE  C[<<i, j>>] = <<l[B(i, j)]>>
    BY <1>13, <2>1
  <2> HIDE DEF T
  <2>2. ASSUME NEW i \in 1 .. N, NEW j \in 1 .. N, j - i <= d + 1
        PROVE  C[<<i, j>>] = <<l[B(i, j)]>>
    <3>1. CASE j - i <= d
      BY <2>1, <3>1
    <3>2. CASE j - i = d + 1
      <4>1. i < j
        BY <1>1, <3>2
      <4>2. /\ FrontEnd(i, j) \in 1 .. N /\ FrontEnd(i, j) + 1 \in 1 .. N
            /\ FrontEnd(i, j) - i <= d /\ j - (FrontEnd(i, j) + 1) <= d
        <5> DEFINE m == FrontEnd(i, j)
        <5>1. m \in i .. j - 1 /\ m - i < j - i /\ j - (m + 1) < j - i
          BY <1>5, <4>1
        <5> HIDE DEF m
        <5>2. /\ m \in 1 .. N /\ m + 1 \in 1 .. N
              /\ m - i <= d /\ j - (m + 1) <= d
          BY <1>1, <3>2, <5>1
        <5> QED  BY <5>2 DEF m
      <4>3. /\ C[<<i, FrontEnd(i, j)>>] = <<l[B(i, FrontEnd(i, j))]>>
            /\ C[<<FrontEnd(i, j) + 1, j>>] = <<l[B(FrontEnd(i, j) + 1, j)]>>
        BY <2>1, <4>2
      <4>4. value(C, i, j) = <<l[B(i, j)]>>
        BY <1>6, <4>1, <4>3
      <4> QED  BY <1>11, <4>4
    <3>3. j - i <= d \/ j - i = d + 1
      BY <1>1, <2>2
    <3> QED  BY <3>1, <3>2, <3>3
  <2> QED  BY <2>2 DEF T
<1>14. C[<<1, N>>] = <<l[B(1, N)]>>
  <2>1. N \in T
    <3> HIDE DEF T
    <3> QED  BY <1>1, <1>12, <1>13, SetInduction
  <2> HIDE DEF B
  <2> QED  BY <1>1, <2>1
<1>15. B(1, N) = LastLeast(v, 1, N)
  <2> HIDE DEF B
  <2> QED  BY <1>1, <1>4
<1> HIDE DEF B
<1> QED  BY <1>3, <1>14, <1>15 DEF N

(* What rts_taskset_sort makes of a list of tasks.                          *)
LEMMA SortedTaskset ==
    ASSUME NEW ts \in Seq(Tasks), NEW asc \in BOOLEAN
    PROVE  /\ Len(ts) < 2 => TasksetSort(ts, "period", asc) = ts
           /\ Len(ts) >= 2 =>
                 /\ Len(TasksetSort(ts, "period", asc)) = 1
                 /\ \A i \in 1 .. Len(ts) :
                       ~TaskLess(ts[i], TasksetSort(ts, "period", asc)[1], "period", asc)
<1> DEFINE N == Len(ts)
           value(t) == IF asc THEN t.period ELSE -t.period
           v == [i \in 1 .. N |-> value(ts[i])]
           less == {p \in Range(ts) \X Range(ts) : TaskLess(p[1], p[2], "period", asc)}
           k == LastLeast(v, 1, N)
<1>1. N \in Nat /\ (ts # <<>> => N > 0) /\ \A i \in 1 .. N : ts[i] \in Tasks
  BY LenProperties, EmptySeq, ElementOfSeq
<1>2. \A i \in 1 .. N : ts[i].period \in Int
  BY <1>1, LinkedListAssumption
<1>3. v \in [1 .. N -> Int] /\ \A i \in 1 .. N : v[i] = value(ts[i])
  BY <1>2
<1>4. ASSUME NEW i \in 1 .. N, NEW j \in 1 .. N
      PROVE  TaskLess(ts[i], ts[j], "period", asc) <=> v[i] < v[j]
  <2> HIDE DEF v, N
  <2> QED  BY <1>2, <1>3 DEF TaskLess
<1>5. ASSUME NEW i \in 1 .. N, NEW j \in 1 .. N
      PROVE  <<ts[i], ts[j]>> \in less <=> v[i] < v[j]
  <2>1. ts[i] \in Range(ts) /\ ts[j] \in Range(ts)
    BY DEF Range
  <2>2. <<ts[i], ts[j]>> \in less <=> TaskLess(ts[i], ts[j], "period", asc)
    BY <2>1
  <2> QED  BY <1>4, <2>2
<1>6. TasksetSort(ts, "period", asc) = MergeSort(ts, less)
  BY DEF TasksetSort
<1> HIDE DEF value, v, less
<1>7. CASE ts = <<>>
  <2>1. MergeSort(ts, less) = ts
    BY <1>7 DEF MergeSort
  <2>2. N = 0
    BY <1>7
  <2> QED  BY <1>6, <2>1, <2>2
<1>8. CASE ts # <<>>
  <2>1. MergeSort(ts, less) = <<ts[k]>>
    BY <1>3, <1>5, <1>8, SortLeavesOne
  <2>2. N > 0 /\ 1 \in 1 .. N /\ N \in 1 .. N
    BY <1>1, <1>8
  <2> HIDE DEF N
  <2>3. k \in 1 .. N /\ \A x \in 1 .. N : v[k] <= v[x]
    BY <1>1, <1>3, <2>2, LastLeastIs
  <2> HIDE DEF k
  <2>4. ASSUME NEW i \in 1 .. N PROVE ~TaskLess(ts[i], ts[k], "period", asc)
    <3>1. v[k] <= v[i] /\ v[k] \in Int /\ v[i] \in Int
      BY <1>3, <2>3
    <3> QED  BY <1>4, <2>3, <3>1
  <2>5. Len(<<ts[k]>>) = 1 /\ <<ts[k]>>[1] = ts[k]
    OBVIOUS
  <2>6. N < 2 => <<ts[k]>> = ts
    <3> SUFFICES ASSUME N < 2 PROVE <<ts[k]>> = ts
      OBVIOUS
    <3>1. N = 1 /\ k = 1
      BY <1>1, <2>2, <2>3
    <3>2. <<ts[1]>> \in Seq(Tasks) /\ Len(<<ts[1]>>) = Len(ts)
      BY <1>1, <2>2, <3>1 DEF N
    <3>3. \A i \in 1 .. Len(ts) : <<ts[1]>>[i] = ts[i]
      BY <3>1 DEF N
    <3> QED  BY <3>1, <3>2, <3>3, SeqEqual
  <2> QED  BY <1>6, <2>1, <2>4, <2>5, <2>6 DEF N
<1> QED  BY <1>7, <1>8

(* The list holds tasks, also when the process has ended.                   *)
LEMMA ContentTyped == Spec => [](Content \in Seq(Tasks))
<1>1. ListInv /\ end = "no" => Content \in Seq(Tasks)
  <2> SUFFICES ASSUME ListInv, end = "no" PROVE Content \in Seq(Tasks)
    OBVIOUS
  <2>1. Image(elem, Linked) \in Seq(Tasks)
    BY HeldImage DEF ListInv
  <2> QED  BY <2>1, ContentIs
<1>2. Init => Content \in Seq(Tasks)
  <2>1. Init => ListInv /\ end = "no"
    BY InitHolds DEF Init
  <2> QED  BY <1>1, <2>1
<1>3. Content \in Seq(Tasks) /\ ListInv' /\ [Next]_vars => (Content \in Seq(Tasks))'
  <2> SUFFICES ASSUME Content \in Seq(Tasks), ListInv', [Next]_vars
               PROVE  (Content \in Seq(Tasks))'
    OBVIOUS
  <2>1. CASE (end = "no")'
    <3>1. ListInv' /\ (end = "no")' => (Content \in Seq(Tasks))'
      BY <1>1, PTL
    <3> QED  BY <2>1, <3>1
  <2>2. CASE end' # "no"
    <3>1. UNCHANGED <<next, elem, root>>
      BY <2>2 DEF Next, Step, vars, list, local, AddTopCall, AddSortedCall, RemoveCall,
         SearchElem, Calloc, CallocFails, Count, Link, PlaceTurn, Place, RemoveTop, SeekTurn,
         NotFound, Unlink, Uncount, Free, Sigint, Return
    <3>2. next' = next /\ elem' = elem /\ root' = root
      BY <3>1
    <3>3. Linked' = Walk(root', next') /\ Linked = Walk(root, next)
      BY DEF Linked, Walk
    <3>4. Linked' = Linked
      BY <3>2, <3>3
    <3>5. Content' = Content
      BY <3>2, <3>4 DEF Content
    <3> QED  BY <3>5
  <2> QED  BY <2>1, <2>2
<1> QED  BY <1>2, <1>3, ListHolds, PTL DEF Spec

(* A taskset of two or more tasks that is sorted by period, in either       *)
(* order, would be left with one node, that of a task that no other comes   *)
(* before, whatever is in the list; sorting by a parameter that is not one  *)
(* of the four leaves it as it is.                                          *)
THEOREM SortKeepsOne == Spec => []SortLeavesTheLeast
<1>1. Content \in Seq(Tasks) => SortLeavesTheLeast
  <2> SUFFICES ASSUME Content \in Seq(Tasks), NEW param \in {"period", "id"}, NEW asc \in BOOLEAN
               PROVE  LET sorted == TasksetSort(Content, param, asc)
                      IN  IF Len(Content) < 2 \/ param = "id" THEN sorted = Content
                          ELSE /\ Len(sorted) = 1
                               /\ \A i \in 1 .. Len(Content) :
                                     ~TaskLess(Content[i], sorted[1], param, asc)
    BY DEF SortLeavesTheLeast
  <2> DEFINE ts == Content
  <2> HIDE DEF ts
  <2>1. Len(ts) \in Nat /\ ts \in Seq(Tasks)
    BY LenProperties DEF ts
  <2>2. CASE param = "id"
    BY <2>2 DEF TasksetSort
  <2>3. CASE param = "period"
    BY <2>1, <2>3, SortedTaskset DEF ts
  <2> QED  BY <2>2, <2>3
<1> QED  BY <1>1, ContentTyped, PTL

----------------------------------------------------------------------------
(* EVERY CALL ENDS *)

LEMMA PositionIs ==
    ASSUME NEW s, Chain(s, root, next), NEW m \in 1 .. Len(s)
    PROVE  Position(s[m]) = m
<1>1. Linked = s
  BY LinkedIs
<1>2. \A k \in 1 .. Len(s) : s[k] = s[m] => k = m
  BY DEF Chain
<1> QED  BY <1>1, <1>2 DEF Position

(* What is left when the list is s.                                         *)
LeftIs(s) ==
    /\ pc = "idle" => StepsLeft = 0
    /\ pc \in {"link", "sorted link", "free"} => StepsLeft = 1
    /\ pc \in {"count", "sorted count", "uncount"} => StepsLeft = 2
    /\ pc \in {"top calloc", "sorted top calloc", "remove top"} => StepsLeft = 3
    /\ pc = "sorted calloc" => StepsLeft = Len(s) + 1
    /\ \A m \in 1 .. Len(s) : prec = s[m] =>
          /\ pc = "place" => StepsLeft = Len(s) + 1 - m
          /\ pc = "seek" => StepsLeft = Len(s) + 4 - m

LEMMA LeftAt ==
    ASSUME NEW s
    PROVE  Typed /\ Held(s) => LeftIs(s)
<1> SUFFICES ASSUME Typed, Held(s) PROVE LeftIs(s)
  OBVIOUS
<1>1. Linked = s /\ Len(s) \in Nat
  BY HeldFacts, LinkedIs
<1>2. \A m \in 1 .. Len(s) : prec = s[m] => Position(prec) = m
  BY HeldFacts, PositionIs
<1>3. pc = "idle" => StepsLeft = 0
  BY DEF StepsLeft
<1>4. pc \in {"link", "sorted link", "free"} => StepsLeft = 1
  BY DEF StepsLeft
<1>5. pc \in {"count", "sorted count", "uncount"} => StepsLeft = 2
  BY DEF StepsLeft
<1>6. pc \in {"top calloc", "sorted top calloc", "remove top"} => StepsLeft = 3
  BY DEF StepsLeft
<1>7. pc = "sorted calloc" => StepsLeft = Len(s) + 1
  BY <1>1 DEF StepsLeft
<1>8. /\ pc = "place" => StepsLeft = Len(s) + 1 - Position(prec)
      /\ pc = "seek" => StepsLeft = Len(s) + 4 - Position(prec)
  BY <1>1 DEF StepsLeft
<1> QED  BY <1>2, <1>3, <1>4, <1>5, <1>6, <1>7, <1>8 DEF LeftIs

LEMMA LeftAtNext ==
    ASSUME NEW t
    PROVE  Typed' /\ Held(t)' => LeftIs(t)'
<1>1. Typed /\ Held(t) => LeftIs(t)
  BY LeftAt
<1>2. Typed' /\ Held(t)' => LeftIs(t)'
  BY <1>1, PTL
<1> QED  BY <1>2

(* One step of a call.                                                      *)
LEMMA StepShrinks ==
    ASSUME Typed, end = "no", NEW s, Held(s), Step, end' = "no"
    PROVE  StepsLeft' \in Nat /\ StepsLeft' < StepsLeft
<1>1. LeftIs(s) /\ Len(s) \in Nat
  BY LeftAt, HeldFacts
<1>2. CASE Calloc
  <2>1. Typed' /\ Held(s)'
    BY <1>2, CallocStep
  <2>2. LeftIs(s)'
    BY <2>1, LeftAtNext
  <2>3. /\ pc \in {"top calloc", "sorted top calloc"} => pc' \in {"count", "sorted count"}
        /\ pc \in {"top calloc", "sorted top calloc", "sorted calloc"}
        /\ pc = "sorted calloc" => pc' = "place" /\ prec' = root
    BY <1>2 DEF Calloc, Callocs
  <2>4. CASE pc = "sorted calloc"
    <3>1. s # <<>>
      BY <2>4 DEF Held, NewNode, Adding, Callocs
    <3>2. 1 \in 1 .. Len(s) /\ root = s[1]
      BY <3>1, HeldFacts DEF At
    <3>3. StepsLeft = Len(s) + 1
      BY <1>1, <2>4 DEF LeftIs
    <3>4. StepsLeft' = Len(s) + 1 - 1
      BY <2>2, <2>3, <2>4, <3>2 DEF LeftIs
    <3> HIDE DEF StepsLeft
    <3> QED  BY <1>1, <3>2, <3>3, <3>4
  <2>5. CASE pc # "sorted calloc"
    <3>1. StepsLeft = 3
      BY <1>1, <2>3, <2>5 DEF LeftIs
    <3>2. StepsLeft' = 2
      BY <2>2, <2>3, <2>5 DEF LeftIs
    <3> QED  BY <3>1, <3>2
  <2> QED  BY <2>4, <2>5
<1>3. CASE CallocFails
  BY <1>3 DEF CallocFails
<1>4. CASE Count
  <2>1. Typed' /\ Held(s)'
    BY <1>4, CountStep
  <2>2. LeftIs(s)'
    BY <2>1, LeftAtNext
  <2>3. pc \in {"count", "sorted count"} /\ pc' \in {"link", "sorted link"}
    BY <1>4 DEF Count
  <2>4. StepsLeft = 2 /\ StepsLeft' = 1
    BY <1>1, <2>2, <2>3 DEF LeftIs
  <2> QED  BY <2>4
<1>5. CASE Link
  <2>1. PICK t : t = AddTop(s, seek)
    OBVIOUS
  <2>2. Typed' /\ Held(t)'
    BY <1>5, <2>1, LinkStep
  <2>3. LeftIs(t)'
    BY <2>2, LeftAtNext
  <2>4. pc \in {"link", "sorted link"} /\ pc' = "idle"
    BY <1>5 DEF Link, Return
  <2>5. StepsLeft = 1 /\ StepsLeft' = 0
    BY <1>1, <2>3, <2>4 DEF LeftIs
  <2> QED  BY <2>5
<1>6. CASE PlaceTurn
  <2>1. Typed' /\ Held(s)'
    BY <1>6, PlaceTurnStep
  <2>2. LeftIs(s)'
    BY <2>1, LeftAtNext
  <2>3. /\ pc = "place" /\ pc' = "place" /\ prec' = next[prec] /\ next[seek] # NULL
    BY <1>6 DEF PlaceTurn, GoesOn
  <2>4. PICK m \in 1 .. Len(s) : prec = s[m] /\ next[seek] = At(s, m + 1)
    BY <2>3 DEF Held, Placing
  <2>5. m \in Nat /\ m + 1 \in 1 .. Len(s)
    <3>1. s \in Seq(Nodes)
      BY HeldFacts DEF Chain
    <3> QED  BY <2>3, <2>4, <3>1, Behind
  <2>6. prec' = s[m + 1]
    <3>1. next[s[m]] = At(s, m + 1)
      BY <2>4, HeldFacts
    <3> QED  BY <2>3, <2>4, <2>5, <3>1 DEF At
  <2>7. StepsLeft = Len(s) + 1 - m /\ StepsLeft' = Len(s) + 1 - (m + 1)
    BY <1>1, <2>2, <2>3, <2>4, <2>5, <2>6 DEF LeftIs
  <2> QED  BY <1>1, <2>5, <2>7
<1>7. CASE Place
  <2>1. pc = "place" /\ pc' = "idle"
    BY <1>7 DEF Place, Return
  <2>2. PICK m \in 1 .. Len(s) : Between(s, m)
    BY <2>1 DEF Held, Placing, Between
  <2>3. PICK t : t = InsertAt(s, m + 1, seek)
    OBVIOUS
  <2>4. Typed' /\ Held(t)'
    BY <1>7, <2>2, <2>3, PlaceStep
  <2>5. LeftIs(t)'
    BY <2>4, LeftAtNext
  <2>6. StepsLeft = Len(s) + 1 - m /\ StepsLeft' = 0
    BY <1>1, <2>1, <2>2, <2>5 DEF LeftIs, Between
  <2> QED  BY <1>1, <2>6
<1>8. CASE RemoveTop
  <2>1. PICK t : t = RemoveAt(s, 1)
    OBVIOUS
  <2>2. Typed' /\ Held(t)'
    BY <1>8, <2>1, RemoveTopStep
  <2>3. LeftIs(t)'
    BY <2>2, LeftAtNext
  <2>4. pc = "remove top" /\ pc' = "uncount"
    BY <1>8 DEF RemoveTop
  <2>5. StepsLeft = 3 /\ StepsLeft' = 2
    BY <1>1, <2>3, <2>4 DEF LeftIs
  <2> QED  BY <2>5
<1>9. CASE SeekTurn
  <2>1. Typed' /\ Held(s)'
    BY <1>9, SeekTurnStep
  <2>2. LeftIs(s)'
    BY <2>1, LeftAtNext
  <2>3. /\ pc = "seek" /\ pc' = "seek" /\ prec' = next[prec] /\ seek # NULL
    BY <1>9 DEF SeekTurn
  <2>4. PICK m \in 1 .. Len(s) : prec = s[m] /\ seek = At(s, m + 1)
    BY <2>3 DEF Held, Seeking
  <2>5. m \in Nat /\ m + 1 \in 1 .. Len(s)
    <3>1. s \in Seq(Nodes)
      BY HeldFacts DEF Chain
    <3> QED  BY <2>3, <2>4, <3>1, Behind
  <2>6. prec' = s[m + 1]
    <3>1. next[s[m]] = At(s, m + 1)
      BY <2>4, HeldFacts
    <3> QED  BY <2>3, <2>4, <2>5, <3>1 DEF At
  <2>7. StepsLeft = Len(s) + 4 - m /\ StepsLeft' = Len(s) + 4 - (m + 1)
    BY <1>1, <2>2, <2>3, <2>4, <2>5, <2>6 DEF LeftIs
  <2> QED  BY <1>1, <2>5, <2>7
<1>10. CASE NotFound
  <2>1. Typed' /\ Held(s)'
    BY <1>10, NotFoundStep
  <2>2. LeftIs(s)'
    BY <2>1, LeftAtNext
  <2>3. pc = "seek" /\ pc' = "idle"
    BY <1>10 DEF NotFound, Return
  <2>4. PICK m \in 1 .. Len(s) : prec = s[m]
    BY <2>3 DEF Held, Seeking
  <2>5. StepsLeft = Len(s) + 4 - m /\ StepsLeft' = 0
    BY <1>1, <2>2, <2>3, <2>4 DEF LeftIs
  <2> QED  BY <1>1, <2>5
<1>11. CASE Unlink
  <2>1. pc = "seek" /\ pc' = "uncount"
    BY <1>11 DEF Unlink
  <2>2. PICK m \in 1 .. Len(s) : Passed(s, m)
    BY <2>1 DEF Held, Seeking, Passed
  <2>3. PICK t : t = RemoveAt(s, m + 1)
    OBVIOUS
  <2>4. Typed' /\ Held(t)'
    BY <1>11, <2>2, <2>3, UnlinkStep
  <2>5. LeftIs(t)'
    BY <2>4, LeftAtNext
  <2>6. StepsLeft = Len(s) + 4 - m /\ StepsLeft' = 2
    BY <1>1, <2>1, <2>2, <2>5 DEF LeftIs, Passed
  <2> QED  BY <1>1, <2>6
<1>12. CASE Uncount
  <2>1. Typed' /\ Held(s)'
    BY <1>12, UncountStep
  <2>2. LeftIs(s)'
    BY <2>1, LeftAtNext
  <2>3. pc = "uncount" /\ pc' = "free"
    BY <1>12 DEF Uncount
  <2>4. StepsLeft = 2 /\ StepsLeft' = 1
    BY <1>1, <2>2, <2>3 DEF LeftIs
  <2> QED  BY <2>4
<1>13. CASE Free
  <2>1. Typed' /\ Held(s)'
    BY <1>13, FreeStep
  <2>2. LeftIs(s)'
    BY <2>1, LeftAtNext
  <2>3. pc = "free" /\ pc' = "idle"
    BY <1>13 DEF Free, Return
  <2>4. StepsLeft = 1 /\ StepsLeft' = 0
    BY <1>1, <2>2, <2>3 DEF LeftIs
  <2> QED  BY <2>4
<1> QED
  BY <1>2, <1>3, <1>4, <1>5, <1>6, <1>7, <1>8, <1>9, <1>10, <1>11, <1>12, <1>13 DEF Step

(* No loop over the list runs on: a call has a number of stores left that   *)
(* every one of its steps makes smaller, whatever additions, removals and   *)
(* exhausted heaps have done to the links before.  With the fairness of the *)
(* steps this is why every call ends (CallsEnd).                            *)
THEOREM CallsAreBounded == Spec => CallsShrink
<1>1. ListInv /\ [Next]_vars =>
          [pc # "idle" /\ end' = "no" => StepsLeft' \in Nat /\ StepsLeft' < StepsLeft]_vars
  <2> SUFFICES ASSUME ListInv, Next, pc # "idle", end' = "no"
               PROVE  StepsLeft' \in Nat /\ StepsLeft' < StepsLeft
    OBVIOUS
  <2>1. end = "no" /\ Step
    BY DEF Next, AddTopCall, AddSortedCall, RemoveCall, SearchElem, Sigint, Step, Calloc,
       CallocFails, Count, Link, PlaceTurn, Place, RemoveTop, SeekTurn, NotFound, Unlink,
       Uncount, Free
  <2>2. Typed /\ Held(Linked)
    BY <2>1 DEF ListInv
  <2>3. PICK s : s = Linked
    OBVIOUS
  <2> HIDE DEF StepsLeft
  <2> QED  BY <2>1, <2>2, <2>3, StepShrinks
<1> QED  BY <1>1, ListHolds, PTL DEF Spec, CallsShrink
=============================================================================
