----------------------------- MODULE ListProofs -----------------------------
(***************************************************************************)
(* Facts about the list operators of TaskSet: what an insertion and a      *)
(* removal leave behind, element by element, and which index a search      *)
(* returns.  Induction on numbers is by a least counterexample.            *)
(***************************************************************************)
EXTENDS TaskSet, SequenceTheorems, WellFoundedInduction, TLAPS

(* A set of natural numbers that is not empty has a least element, and Min  *)
(* is it: the list operators of TaskSet return an index they searched for.  *)
LEMMA MinOfNats ==
    ASSUME NEW S \in SUBSET Nat, S # {}
    PROVE  /\ Min(S) \in S
           /\ \A y \in S : Min(S) <= y
<1> DEFINE R == OpToRel(<, Nat)
<1>1. \E x \in S : \A y \in S : <<y, x>> \notin R
  BY NatLessThanWellFounded, WFMin
<1>2. \A x, y \in S : <<y, x>> \notin R => x <= y
  BY DEF OpToRel
<1>3. \E x \in S : \A y \in S : x <= y
  <2> HIDE DEF R
  <2> QED  BY <1>1, <1>2
<1> QED  BY <1>3 DEF Min

(* Induction over a set of numbers, with no operator to instantiate.        *)
LEMMA SetInduction ==
    ASSUME NEW S, 0 \in S, \A n \in Nat : n \in S => n + 1 \in S
    PROVE  \A n \in Nat : n \in S
<1> DEFINE T == {n \in Nat : n \notin S}
<1>1. SUFFICES ASSUME T # {} PROVE FALSE
  OBVIOUS
<1>2. Min(T) \in T /\ \A y \in T : Min(T) <= y
  <2> HIDE DEF T
  <2>1. T \in SUBSET Nat  BY DEF T
  <2> QED  BY <2>1, <1>1, MinOfNats
<1>3. Min(T) - 1 \in Nat /\ Min(T) - 1 \notin T
  BY <1>2
<1>4. Min(T) \in S
  <2>1. (Min(T) - 1) \in S  BY <1>3
  <2>2. (Min(T) - 1) + 1 = Min(T)  BY <1>2
  <2> QED  BY <1>3, <2>1, <2>2
<1> QED  BY <1>2, <1>4

----------------------------------------------------------------------------
(* What the list operators leave behind, element by element.                *)
LEMMA AddTopFacts ==
    ASSUME NEW T, NEW ts \in Seq(T), NEW t \in T
    PROVE  /\ AddTop(ts, t) \in Seq(T)
           /\ Len(AddTop(ts, t)) = Len(ts) + 1
           /\ AddTop(ts, t)[1] = t
           /\ \A i \in 1 .. Len(ts) : AddTop(ts, t)[i + 1] = ts[i]
<1>1. <<t>> \in Seq(T) /\ Len(<<t>>) = 1 /\ <<t>>[1] = t /\ Len(ts) \in Nat
  BY LenProperties
<1> DEFINE s == <<t>>
<1> HIDE DEF s
<1>2. /\ s \o ts \in Seq(T)
      /\ Len(s \o ts) = Len(s) + Len(ts)
      /\ \A i \in 1 .. Len(s) + Len(ts) :
            (s \o ts)[i] = IF i <= Len(s) THEN s[i] ELSE ts[i - Len(s)]
  BY <1>1, ConcatProperties DEF s
<1>3. Len(s) = 1 /\ s[1] = t
  BY <1>1 DEF s
<1>4. ASSUME NEW i \in 1 .. Len(ts) PROVE (s \o ts)[i + 1] = ts[i]
  <2>1. i + 1 \in 1 .. 1 + Len(ts) /\ ~(i + 1 <= 1) /\ (i + 1) - 1 = i
    BY <1>1
  <2> QED  BY <1>2, <1>3, <2>1
<1>5. AddTop(ts, t) = s \o ts
  BY DEF AddTop, s
<1>6. Len(s \o ts) = Len(ts) + 1 /\ (s \o ts)[1] = t
  BY <1>1, <1>2, <1>3
<1> QED  BY <1>2, <1>4, <1>5, <1>6

LEMMA RemoveAtFacts ==
    ASSUME NEW T, NEW ts \in Seq(T), NEW k \in 1 .. Len(ts)
    PROVE  /\ RemoveAt(ts, k) \in Seq(T)
           /\ Len(RemoveAt(ts, k)) = Len(ts) - 1
           /\ \A i \in 1 .. Len(ts) - 1 :
                 RemoveAt(ts, k)[i] = IF i < k THEN ts[i] ELSE ts[i + 1]
<1> DEFINE n == Len(ts)
           l == SubSeq(ts, 1, k - 1)
           r == SubSeq(ts, k + 1, n)
<1>1. n \in Nat /\ k \in 1 .. n /\ \A i \in 1 .. n : ts[i] \in T
  BY LenProperties, ElementOfSeq
<1>2. /\ RemoveAt(ts, k) = l \o r
      /\ l = SubSeq(ts, 1, k - 1) /\ r = SubSeq(ts, k + 1, n)
  BY DEF RemoveAt
<1> HIDE DEF n, l, r
<1>3. l \in Seq(T) /\ Len(l) = k - 1 /\ \A i \in 1 .. k - 1 : l[i] = ts[i]
  <2>1. \A i \in 1 .. k - 1 : ts[i] \in T
    BY <1>1
  <2>2. /\ SubSeq(ts, 1, k - 1) \in Seq(T)
        /\ Len(SubSeq(ts, 1, k - 1)) = IF 1 <= k - 1 THEN (k - 1) - 1 + 1 ELSE 0
        /\ \A i \in 1 .. (k - 1) - 1 + 1 : SubSeq(ts, 1, k - 1)[i] = ts[1 + i - 1]
    BY <1>1, <2>1, SubSeqProperties
  <2> QED  BY <1>1, <1>2, <2>2
<1>4. r \in Seq(T) /\ Len(r) = n - k /\ \A i \in 1 .. n - k : r[i] = ts[i + k]
  <2>1. \A i \in k + 1 .. n : ts[i] \in T
    BY <1>1
  <2>2. /\ SubSeq(ts, k + 1, n) \in Seq(T)
        /\ Len(SubSeq(ts, k + 1, n)) = IF k + 1 <= n THEN n - (k + 1) + 1 ELSE 0
        /\ \A i \in 1 .. n - (k + 1) + 1 : SubSeq(ts, k + 1, n)[i] = ts[(k + 1) + i - 1]
    BY <1>1, <2>1, SubSeqProperties
  <2>3. n - (k + 1) + 1 = n - k /\ (IF k + 1 <= n THEN n - (k + 1) + 1 ELSE 0) = n - k
    BY <1>1
  <2>4. \A i \in 1 .. n - k : (k + 1) + i - 1 = i + k
    BY <1>1
  <2> QED  BY <1>2, <2>2, <2>3, <2>4
<1>5. /\ l \o r \in Seq(T)
      /\ Len(l \o r) = Len(l) + Len(r)
      /\ \A i \in 1 .. Len(l) + Len(r) :
            (l \o r)[i] = IF i <= Len(l) THEN l[i] ELSE r[i - Len(l)]
  BY <1>3, <1>4, ConcatProperties
<1>6. Len(l \o r) = n - 1
  BY <1>1, <1>3, <1>4, <1>5
<1>7. ASSUME NEW i \in 1 .. n - 1
      PROVE  (l \o r)[i] = IF i < k THEN ts[i] ELSE ts[i + 1]
  <2>1. i \in 1 .. Len(l) + Len(r) /\ (i <= Len(l) <=> i < k)
    BY <1>1, <1>3, <1>4
  <2>2. CASE i < k
    BY <1>1, <1>3, <1>5, <2>1, <2>2
  <2>3. CASE ~(i < k)
    <3>1. i - Len(l) \in 1 .. n - k /\ (i - Len(l)) + k = i + 1
      BY <1>1, <1>3, <2>3
    <3> QED  BY <1>4, <1>5, <2>1, <2>3, <3>1
  <2> QED  BY <2>2, <2>3
<1> QED  BY <1>2, <1>5, <1>6, <1>7 DEF n

LEMMA InsertAtFacts ==
    ASSUME NEW T, NEW ts \in Seq(T), NEW t \in T, NEW k \in 1 .. Len(ts) + 1
    PROVE  /\ InsertAt(ts, k, t) \in Seq(T)
           /\ Len(InsertAt(ts, k, t)) = Len(ts) + 1
           /\ \A i \in 1 .. Len(ts) + 1 :
                 InsertAt(ts, k, t)[i] = IF i < k THEN ts[i]
                                         ELSE IF i = k THEN t ELSE ts[i - 1]
<1> DEFINE n == Len(ts)
           l == SubSeq(ts, 1, k - 1)
           m == <<t>>
           r == SubSeq(ts, k, n)
<1>1. n \in Nat /\ k \in 1 .. n + 1 /\ \A i \in 1 .. n : ts[i] \in T
  BY LenProperties, ElementOfSeq
<1>2. /\ InsertAt(ts, k, t) = (l \o m) \o r
      /\ l = SubSeq(ts, 1, k - 1) /\ r = SubSeq(ts, k, n)
      /\ m \in Seq(T) /\ Len(m) = 1 /\ m[1] = t
  BY DEF InsertAt
<1> HIDE DEF n, l, m, r
<1>3. l \in Seq(T) /\ Len(l) = k - 1 /\ \A i \in 1 .. k - 1 : l[i] = ts[i]
  <2>1. \A i \in 1 .. k - 1 : ts[i] \in T
    BY <1>1
  <2>2. /\ SubSeq(ts, 1, k - 1) \in Seq(T)
        /\ Len(SubSeq(ts, 1, k - 1)) = IF 1 <= k - 1 THEN (k - 1) - 1 + 1 ELSE 0
        /\ \A i \in 1 .. (k - 1) - 1 + 1 : SubSeq(ts, 1, k - 1)[i] = ts[1 + i - 1]
    BY <1>1, <2>1, SubSeqProperties
  <2> QED  BY <1>1, <1>2, <2>2
<1>4. r \in Seq(T) /\ Len(r) = n + 1 - k /\ \A i \in 1 .. n + 1 - k : r[i] = ts[(k + i) - 1]
  <2>1. \A i \in k .. n : ts[i] \in T
    BY <1>1
  <2>2. /\ SubSeq(ts, k, n) \in Seq(T)
        /\ Len(SubSeq(ts, k, n)) = IF k <= n THEN n - k + 1 ELSE 0
        /\ \A i \in 1 .. n - k + 1 : SubSeq(ts, k, n)[i] = ts[k + i - 1]
    BY <1>1, <2>1, SubSeqProperties
  <2> QED  BY <1>1, <1>2, <2>2
<1>5. /\ l \o m \in Seq(T) /\ Len(l \o m) = k
      /\ \A i \in 1 .. k : (l \o m)[i] = IF i < k THEN ts[i] ELSE t
  <2>1. /\ l \o m \in Seq(T) /\ Len(l \o m) = Len(l) + Len(m)
        /\ \A i \in 1 .. Len(l) + Len(m) :
              (l \o m)[i] = IF i <= Len(l) THEN l[i] ELSE m[i - Len(l)]
    BY <1>2, <1>3, ConcatProperties
  <2> QED  BY <1>1, <1>2, <1>3, <2>1
<1>6. /\ (l \o m) \o r \in Seq(T)
      /\ Len((l \o m) \o r) = n + 1
      /\ \A i \in 1 .. n + 1 :
            ((l \o m) \o r)[i] = IF i <= k THEN (l \o m)[i] ELSE r[i - k]
  <2> DEFINE a == l \o m
             b == a \o r
  <2>1. a \in Seq(T) /\ Len(a) = k
    BY <1>5
  <2> HIDE DEF a
  <2>2. /\ b \in Seq(T) /\ Len(b) = Len(a) + Len(r)
        /\ \A i \in 1 .. Len(a) + Len(r) : b[i] = IF i <= Len(a) THEN a[i] ELSE r[i - Len(a)]
    BY <1>4, <2>1, ConcatProperties
  <2> HIDE DEF b
  <2>3. k + (n + 1 - k) = n + 1
    BY <1>1
  <2>4. /\ b \in Seq(T) /\ Len(b) = n + 1
        /\ \A i \in 1 .. n + 1 : b[i] = IF i <= k THEN a[i] ELSE r[i - k]
    BY <1>4, <2>1, <2>2, <2>3
  <2> QED  BY <2>4 DEF a, b
<1>7. ASSUME NEW i \in 1 .. n + 1
      PROVE  ((l \o m) \o r)[i] = IF i < k THEN ts[i] ELSE IF i = k THEN t ELSE ts[i - 1]
  <2>1. CASE i <= k
    <3>1. i \in 1 .. k  BY <1>1, <2>1
    <3> QED  BY <1>5, <1>6, <2>1, <3>1, <1>1
  <2>2. CASE ~(i <= k)
    <3>1. i - k \in 1 .. n + 1 - k /\ (k + (i - k)) - 1 = i - 1
      BY <1>1, <2>2
    <3>2. r[i - k] = ts[i - 1]
      BY <1>4, <3>1
    <3>3. ((l \o m) \o r)[i] = r[i - k]
      BY <1>6, <2>2
    <3> QED  BY <1>1, <2>2, <3>2, <3>3
  <2> QED  BY <2>1, <2>2, <1>1
<1> QED  BY <1>2, <1>6, <1>7 DEF n

(* The searches return an index of the list, or 0 for NULL.                 *)
LEMMA IndexFacts ==
    ASSUME NEW T, NEW ts \in Seq(T), NEW hits, NEW rsvid
    PROVE  /\ RemoveIndex(ts, hits) \in 0 .. Len(ts)
           /\ SearchIndex(ts, hits) \in 0 .. Len(ts)
           /\ IterIndex(ts, rsvid) \in 0 .. Len(ts)
<1> DEFINE n == Len(ts)
<1>1. n \in Nat /\ (ts # <<>> => 1 \in 1 .. n)
  BY EmptySeq, LenProperties
<1> HIDE DEF n
<1>2. 1 .. n \in SUBSET Nat /\ 1 .. n \in SUBSET (0 .. n) /\ 0 \in 0 .. n
  BY <1>1
<1>3. ASSUME NEW S \in SUBSET (1 .. n), S # {} PROVE Min(S) \in 0 .. n
  <2>1. S \in SUBSET Nat
    BY <1>2
  <2>2. Min(S) \in S
    BY <1>3, <2>1, MinOfNats
  <2> QED  BY <1>2, <2>2
<1>4. RemoveIndex(ts, hits) \in 0 .. n
  <2>1. (2 .. n) \ hits \in SUBSET (1 .. n)
    BY <1>1
  <2> QED  BY <1>1, <1>2, <1>3, <2>1 DEF RemoveIndex, n
<1>5. SearchIndex(ts, hits) \in 0 .. n
  <2>1. (1 .. n) \ hits \in SUBSET (1 .. n)
    OBVIOUS
  <2> QED  BY <1>2, <1>3, <2>1 DEF SearchIndex, n
<1>6. IterIndex(ts, rsvid) \in 0 .. n
  <2>1. IndexesByRsvid(ts, rsvid) \in SUBSET (1 .. n)
    BY DEF IndexesByRsvid, n
  <2> QED  BY <1>2, <1>3, <2>1 DEF IterIndex
<1> QED  BY <1>4, <1>5, <1>6 DEF n

----------------------------------------------------------------------------
(* LOOPS OVER A LIST *)

(* A loop that carries a value through N turns has a result.                *)
LEMMA StepsExist ==
    ASSUME NEW S, NEW b \in S, NEW N \in Nat, NEW G \in [1 .. N -> [S -> S]]
    PROVE  \E f \in [0 .. N -> S] : f[0] = b /\ \A n \in 1 .. N : f[n] = G[n][f[n - 1]]
<1> DEFINE Good(f, m) == f[0] = b /\ \A n \in 1 .. m : f[n] = G[n][f[n - 1]]
           T == {m \in Nat : m <= N => \E f \in [0 .. m -> S] : Good(f, m)}
<1>1. 0 \in T
  <2>1. [n \in 0 .. 0 |-> b] \in [0 .. 0 -> S] /\ Good([n \in 0 .. 0 |-> b], 0)
    OBVIOUS
  <2> QED  BY <2>1
<1>2. ASSUME NEW m \in Nat, m \in T PROVE m + 1 \in T
  <2> SUFFICES ASSUME m + 1 <= N PROVE \E g \in [0 .. m + 1 -> S] : Good(g, m + 1)
    OBVIOUS
  <2>1. PICK f \in [0 .. m -> S] : Good(f, m)
    BY <1>2
  <2> DEFINE x == G[m + 1][f[m]]
             g == [n \in 0 .. m + 1 |-> IF n = m + 1 THEN x ELSE f[n]]
  <2>2. x \in S
    <3>1. f[m] \in S /\ m + 1 \in 1 .. N
      OBVIOUS
    <3> QED  BY <3>1
  <2>3. g \in [0 .. m + 1 -> S]
    <3> HIDE DEF x
    <3> QED  BY <2>2
  <2>4. g[0] = b /\ g[m + 1] = x /\ \A n \in 0 .. m : g[n] = f[n]
    BY <2>1
  <2>5. ASSUME NEW n \in 1 .. m + 1 PROVE g[n] = G[n][g[n - 1]]
    <3> HIDE DEF g
    <3>1. CASE n = m + 1
      BY <2>4, <3>1
    <3>2. CASE n # m + 1
      <4>1. n \in 1 .. m /\ n \in 0 .. m /\ n - 1 \in 0 .. m
        BY <3>2
      <4> QED  BY <2>1, <2>4, <4>1
    <3> QED  BY <3>1, <3>2
  <2> QED  BY <2>3, <2>4, <2>5
<1> HIDE DEF T
<1>3. N \in T
  BY <1>1, <1>2, SetInduction
<1> QED  BY <1>3 DEF T

(* The nodes at some places of a list, one after the other.                 *)
LEMMA ChosenFacts ==
    ASSUME NEW T, NEW ts \in Seq(T), NEW K
    PROVE  /\ Chosen(ts, K) \in [0 .. Len(ts) -> Seq(T)]
           /\ Chosen(ts, K)[0] = <<>>
           /\ \A n \in 1 .. Len(ts) :
                 Chosen(ts, K)[n] = IF n \in K THEN Append(Chosen(ts, K)[n - 1], ts[n])
                                    ELSE Chosen(ts, K)[n - 1]
<1> DEFINE N == Len(ts)
           Solves(f) == f = [n \in 0 .. N |-> IF n = 0 THEN <<>>
                                              ELSE IF n \in K THEN Append(f[n - 1], ts[n])
                                              ELSE f[n - 1]]
           G == [n \in 1 .. N |-> [s \in Seq(T) |-> IF n \in K THEN Append(s, ts[n]) ELSE s]]
           C == Chosen(ts, K)
<1>1. N \in Nat /\ \A n \in 1 .. N : ts[n] \in T
  BY LenProperties, ElementOfSeq
<1>2. <<>> \in Seq(T)
  OBVIOUS
<1>3. G \in [1 .. N -> [Seq(T) -> Seq(T)]]
  <2>1. \A n \in 1 .. N, s \in Seq(T) : Append(s, ts[n]) \in Seq(T)
    BY <1>1, AppendProperties
  <2> QED  BY <2>1
<1>4. \A n \in 1 .. N, s \in Seq(T) : G[n][s] = IF n \in K THEN Append(s, ts[n]) ELSE s
  OBVIOUS
<1> HIDE DEF G
<1>5. PICK f \in [0 .. N -> Seq(T)] : f[0] = <<>> /\ \A n \in 1 .. N : f[n] = G[n][f[n - 1]]
  <2> DEFINE Q == Seq(T)
             b == <<>>
  <2>1. N \in Nat /\ b \in Q /\ G \in [1 .. N -> [Q -> Q]]
    BY <1>1, <1>2, <1>3
  <2> HIDE DEF N, Q, b
  <2>2. \E f \in [0 .. N -> Q] : f[0] = b /\ \A n \in 1 .. N : f[n] = G[n][f[n - 1]]
    BY <2>1, StepsExist
  <2> QED  BY <2>2 DEF Q, b
<1>6. ASSUME NEW n \in 1 .. N
      PROVE  f[n] = IF n \in K THEN Append(f[n - 1], ts[n]) ELSE f[n - 1]
  <2>1. n - 1 \in 0 .. N
    BY <1>1
  <2>2. f[n - 1] \in Seq(T)
    BY <2>1
  <2> QED  BY <1>4, <1>5, <2>2
<1>7. Solves(f)
  <2> DEFINE value(n) == IF n = 0 THEN <<>>
                         ELSE IF n \in K THEN Append(f[n - 1], ts[n]) ELSE f[n - 1]
  <2>1. ASSUME NEW n \in 0 .. N PROVE f[n] = value(n)
    <3>1. n = 0 \/ n \in 1 .. N
      BY <1>1
    <3> QED  BY <1>1, <1>5, <1>6, <3>1
  <2>2. f = [n \in 0 .. N |-> f[n]]
    OBVIOUS
  <2> HIDE DEF value, N
  <2>3. f = [n \in 0 .. N |-> value(n)]
    BY <2>1, <2>2
  <2> QED  BY <2>3 DEF value
<1>8. C = CHOOSE g : Solves(g)
  BY DEF Chosen
<1>9. Solves(C)
  <2> HIDE DEF Solves, C
  <2> QED  BY <1>7, <1>8
<1>10. DOMAIN C = 0 .. N /\ C[0] = <<>>
  <2> HIDE DEF C
  <2> QED  BY <1>1, <1>9
<1>11. ASSUME NEW n \in 1 .. N
       PROVE  C[n] = IF n \in K THEN Append(C[n - 1], ts[n]) ELSE C[n - 1]
  <2> HIDE DEF C
  <2>1. n \in 0 .. N /\ n # 0
    BY <1>1
  <2>2. C = [m \in 0 .. N |-> IF m = 0 THEN <<>>
                              ELSE IF m \in K THEN Append(C[m - 1], ts[m])
                              ELSE C[m - 1]]
    BY <1>9
  <2>3. C[n] = IF n = 0 THEN <<>>
               ELSE IF n \in K THEN Append(C[n - 1], ts[n])
               ELSE C[n - 1]
    BY <2>1, <2>2
  <2> QED  BY <2>1, <2>3
<1>12. \A n \in 0 .. N : C[n] \in Seq(T)
  <2> DEFINE U == {n \in Nat : n <= N => C[n] \in Seq(T)}
  <2> HIDE DEF C
  <2>1. 0 \in U
    BY <1>2, <1>10
  <2>2. ASSUME NEW n \in Nat, n \in U PROVE n + 1 \in U
    <3> SUFFICES ASSUME n + 1 <= N PROVE C[n + 1] \in Seq(T)
      OBVIOUS
    <3>1. C[n] \in Seq(T) /\ n + 1 \in 1 .. N /\ (n + 1) - 1 = n
      BY <1>1, <2>2
    <3>2. Append(C[n], ts[n + 1]) \in Seq(T)
      BY <1>1, <3>1, AppendProperties
    <3> QED  BY <1>11, <3>1, <3>2
  <2> HIDE DEF U
  <2>3. \A n \in Nat : n \in U
    BY <2>1, <2>2, SetInduction
  <2>4. ASSUME NEW n \in 0 .. N PROVE C[n] \in Seq(T)
    <3>1. n \in U
      BY <2>3
    <3> QED  BY <3>1 DEF U
  <2> QED  BY <2>4
<1>13. C \in [0 .. N -> Seq(T)]
  <2> HIDE DEF C, N
  <2>1. C = [n \in 0 .. N |-> C[n]]
    BY <1>9, <1>10 DEF Solves
  <2> QED  BY <1>12, <2>1
<1> QED  BY <1>10, <1>11, <1>13

(* A node that is not chosen may go; if every node is chosen, the list is   *)
(* what it was.                                                             *)
LEMMA ChosenRemoveAt ==
    ASSUME NEW T, NEW ts \in Seq(T), NEW k \in 1 .. Len(ts), NEW K, k \notin K, NEW L,
           \A i \in 1 .. Len(ts) - 1 : i \in L <=> IF i < k THEN i \in K ELSE i + 1 \in K
    PROVE  Chosen(RemoveAt(ts, k), L)[Len(ts) - 1] = Chosen(ts, K)[Len(ts)]
<1> DEFINE us == RemoveAt(ts, k)
           n == Len(ts) - 1
           C == Chosen(ts, K)
           D == Chosen(us, L)
           U == {m \in Nat : m <= n => D[m] = IF m < k THEN C[m] ELSE C[m + 1]}
<1>1. n \in Nat /\ Len(ts) = n + 1 /\ k \in 1 .. n + 1
  BY LenProperties
<1>2. /\ us \in Seq(T) /\ Len(us) = n
      /\ \A i \in 1 .. n : us[i] = IF i < k THEN ts[i] ELSE ts[i + 1]
  <2>1. /\ RemoveAt(ts, k) \in Seq(T) /\ Len(RemoveAt(ts, k)) = Len(ts) - 1
        /\ \A i \in 1 .. Len(ts) - 1 :
              RemoveAt(ts, k)[i] = IF i < k THEN ts[i] ELSE ts[i + 1]
    BY RemoveAtFacts
  <2> QED  BY <2>1
<1>3. /\ C[0] = <<>>
      /\ \A m \in 1 .. n + 1 : C[m] = IF m \in K THEN Append(C[m - 1], ts[m]) ELSE C[m - 1]
  <2>1. /\ Chosen(ts, K)[0] = <<>>
        /\ \A m \in 1 .. Len(ts) : Chosen(ts, K)[m] =
              IF m \in K THEN Append(Chosen(ts, K)[m - 1], ts[m]) ELSE Chosen(ts, K)[m - 1]
    BY ChosenFacts
  <2> HIDE DEF n
  <2> QED  BY <1>1, <2>1
<1> HIDE DEF us, C
<1>4. D[0] = <<>> /\ \A m \in 1 .. n : D[m] = IF m \in L THEN Append(D[m - 1], us[m]) ELSE D[m - 1]
  BY <1>2, ChosenFacts
<1>5. \A i \in 1 .. n : i \in L <=> IF i < k THEN i \in K ELSE i + 1 \in K
  OBVIOUS
<1> HIDE DEF D, n
<1>6. 0 \in U
  BY <1>1, <1>3, <1>4
<1>7. ASSUME NEW m \in Nat, m \in U PROVE m + 1 \in U
  <2> SUFFICES ASSUME m + 1 <= n PROVE D[m + 1] = IF m + 1 < k THEN C[m + 1] ELSE C[(m + 1) + 1]
    OBVIOUS
  <2>1. /\ m + 1 \in 1 .. n /\ (m + 1) - 1 = m /\ m + 1 \in 1 .. n + 1
        /\ (m + 1) + 1 \in 1 .. n + 1 /\ ((m + 1) + 1) - 1 = m + 1 /\ m <= n
    BY <1>1
  <2>2. D[m + 1] = IF m + 1 \in L THEN Append(D[m], us[m + 1]) ELSE D[m]
    BY <1>4, <2>1
  <2>3. D[m] = IF m < k THEN C[m] ELSE C[m + 1]
    BY <1>7, <2>1
  <2>4. C[m + 1] = IF m + 1 \in K THEN Append(C[m], ts[m + 1]) ELSE C[m]
    BY <1>3, <2>1
  <2>5. C[(m + 1) + 1] =
           IF (m + 1) + 1 \in K THEN Append(C[m + 1], ts[(m + 1) + 1]) ELSE C[m + 1]
    BY <1>3, <2>1
  <2>6. CASE m + 1 < k
    BY <1>2, <1>5, <2>1, <2>2, <2>3, <2>4, <2>6
  <2>7. CASE ~(m + 1 < k)
    <3>1. D[m] = C[m + 1]
      <4>1. CASE m + 1 = k
        BY <2>3, <2>4, <4>1
      <4>2. CASE m + 1 # k
        BY <1>1, <2>3, <2>7, <4>2
      <4> QED  BY <4>1, <4>2
    <3> QED  BY <1>2, <1>5, <2>1, <2>2, <2>5, <2>7, <3>1
  <2> QED  BY <2>6, <2>7
<1> HIDE DEF U
<1>8. n \in U
  BY <1>1, <1>6, <1>7, SetInduction
<1>9. D[n] = C[n + 1]
  <2>1. D[n] = IF n < k THEN C[n] ELSE C[n + 1]
    BY <1>8 DEF U
  <2>2. n < k => C[n + 1] = C[n]
    <3>1. n < k => n + 1 = k /\ n + 1 \in 1 .. n + 1 /\ (n + 1) - 1 = n
      BY <1>1
    <3> QED  BY <1>3, <3>1
  <2> QED  BY <2>1, <2>2
<1> QED  BY <1>1, <1>9 DEF C, D, us, n

LEMMA ChosenAll ==
    ASSUME NEW T, NEW ts \in Seq(T), NEW K, 1 .. Len(ts) \subseteq K
    PROVE  Chosen(ts, K)[Len(ts)] = ts
<1> DEFINE n == Len(ts)
           C == Chosen(ts, K)
           Copies(m) == Len(C[m]) = m /\ \A i \in 1 .. m : C[m][i] = ts[i]
           U == {m \in Nat : m <= n => Copies(m)}
<1>1. n \in Nat /\ \A i \in 1 .. n : ts[i] \in T
  BY LenProperties, ElementOfSeq
<1>2. /\ C \in [0 .. n -> Seq(T)] /\ C[0] = <<>>
      /\ \A m \in 1 .. n : C[m] = IF m \in K THEN Append(C[m - 1], ts[m]) ELSE C[m - 1]
  BY ChosenFacts
<1>3. \A m \in 1 .. n : C[m] = Append(C[m - 1], ts[m])
  BY <1>2
<1> HIDE DEF C, n
<1>4. Copies(0)
  <2>1. Len(<<>>) = 0 /\ 1 .. 0 = {}
    BY EmptySeq
  <2> QED  BY <1>2, <2>1
<1>5. ASSUME NEW m \in Nat, m + 1 <= n, Copies(m) PROVE Copies(m + 1)
  <2>1. m + 1 \in 1 .. n /\ (m + 1) - 1 = m /\ m \in 0 .. n
    BY <1>1, <1>5
  <2>2. C[m + 1] = Append(C[m], ts[m + 1])
    BY <1>3, <2>1
  <2> DEFINE s == C[m]
  <2>3. s \in Seq(T) /\ ts[m + 1] \in T
    BY <1>1, <1>2, <2>1
  <2>4. Len(s) = m /\ \A i \in 1 .. m : s[i] = ts[i]
    BY <1>5
  <2> HIDE DEF s
  <2>5. /\ Len(Append(s, ts[m + 1])) = Len(s) + 1
        /\ \A i \in 1 .. Len(s) : Append(s, ts[m + 1])[i] = s[i]
        /\ Append(s, ts[m + 1])[Len(s) + 1] = ts[m + 1]
    BY <2>3, AppendProperties
  <2>6. ASSUME NEW i \in 1 .. m + 1 PROVE Append(s, ts[m + 1])[i] = ts[i]
    <3>1. i \in 1 .. m \/ i = m + 1
      OBVIOUS
    <3> QED  BY <2>4, <2>5, <3>1
  <2> QED  BY <2>2, <2>4, <2>5, <2>6 DEF s
<1> HIDE DEF Copies
<1>6. 0 \in U /\ \A m \in Nat : m \in U => m + 1 \in U
  <2>1. \A m \in Nat : m + 1 <= n => m <= n
    BY <1>1
  <2> QED  BY <1>4, <1>5, <2>1
<1> HIDE DEF U
<1>7. n \in U
  BY <1>1, <1>6, SetInduction
<1>8. Copies(n)
  BY <1>1, <1>7 DEF U
<1>9. C[n] \in Seq(T) /\ n = Len(ts)
  <2>1. n \in 0 .. n
    BY <1>1
  <2> QED  BY <1>2, <2>1 DEF n
<1>10. Len(C[n]) = Len(ts) /\ \A i \in 1 .. Len(ts) : C[n][i] = ts[i]
  BY <1>8, <1>9 DEF Copies
<1>11. C[n] = ts
  <2> DEFINE s == C[n]
  <2>1. s \in Seq(T) /\ Len(s) = Len(ts) /\ \A i \in 1 .. Len(s) : s[i] = ts[i]
    BY <1>9, <1>10
  <2> HIDE DEF s
  <2>2. s = ts
    BY <2>1, SeqEqual
  <2> QED  BY <2>2 DEF s
<1> QED  BY <1>11 DEF C, n

(* No turn of the loop changes what the loop will have left.                *)
LEMMA DeleteAllKept ==
    ASSUME NEW T, NEW ts \in Seq(T), NEW v, NEW k,
           k = RemoveIndex(ts, IndexesByPpid(ts, v)), k # 0
    PROVE  DeleteAll(RemoveAt(ts, k), v) = DeleteAll(ts, v)
<1> DEFINE n == Len(ts) - 1
           us == RemoveAt(ts, k)
           H == IndexesByPpid(ts, v)
           I == IndexesByPpid(us, v)
           M == (1 .. Len(ts)) \ H
           N == (1 .. Len(us)) \ I
           rest == (2 .. Len(ts)) \ H
           K == {Min(M)} \cup {i \in H : i > Min(M)}
           L == {Min(N)} \cup {i \in I : i > Min(N)}
<1>1. k \in 1 .. Len(ts) /\ Len(ts) \in Nat
  <2>1. k \in 0 .. Len(ts) /\ Len(ts) \in Nat
    BY IndexFacts, LenProperties
  <2> QED  BY <2>1
<1>2. n \in Nat /\ Len(ts) = n + 1 /\ k \in 1 .. n + 1
  BY <1>1
<1>3. /\ us \in Seq(T) /\ Len(us) = n
      /\ \A i \in 1 .. n : us[i] = IF i < k THEN ts[i] ELSE ts[i + 1]
  BY <1>1, RemoveAtFacts
<1> HIDE DEF us, n
<1>4. H \in SUBSET (1 .. n + 1) /\ \A i \in 1 .. n + 1 : i \in H <=> ts[i].ptid = v
  BY <1>2 DEF IndexesByPpid
<1>5. I \in SUBSET (1 .. n) /\ \A i \in 1 .. n : i \in I <=> us[i].ptid = v
  BY <1>3 DEF IndexesByPpid
<1>6. \A i \in 1 .. n : i \in I <=> IF i < k THEN i \in H ELSE i + 1 \in H
  <2> SUFFICES ASSUME NEW i \in 1 .. n PROVE i \in I <=> IF i < k THEN i \in H ELSE i + 1 \in H
    OBVIOUS
  <2>1. i \in 1 .. n + 1 /\ i + 1 \in 1 .. n + 1
    BY <1>2
  <2> HIDE DEF H, I
  <2> QED  BY <1>3, <1>4, <1>5, <2>1
<1>7. /\ M \in SUBSET Nat /\ N \in SUBSET Nat
      /\ M = (1 .. n + 1) \ H /\ N = (1 .. n) \ I
  BY <1>2, <1>3
<1>8. /\ DeleteAll(ts, v) = IF M = {} THEN <<>> ELSE Chosen(ts, K)[n + 1]
      /\ DeleteAll(us, v) = IF N = {} THEN <<>> ELSE Chosen(us, L)[n]
  BY <1>2, <1>3 DEF DeleteAll
<1>9. k = IF ts = <<>> THEN 0 ELSE IF 1 \in H THEN 1 ELSE IF rest = {} THEN 0 ELSE Min(rest)
  BY DEF RemoveIndex
<1>10. rest \in SUBSET Nat /\ rest = (2 .. n + 1) \ H
  BY <1>2
<1>11. (M # {} => Min(M) \in M /\ \A y \in M : Min(M) <= y)
       /\ (N # {} => Min(N) \in N /\ \A y \in N : Min(N) <= y)
       /\ (rest # {} => Min(rest) \in rest)
  <2> HIDE DEF M, N, rest
  <2> QED  BY <1>7, <1>10, MinOfNats
<1> DEFINE a == Min(M)
           b == Min(N)
           r == Min(rest)
<1>12. /\ M # {} => a \in M /\ \A y \in M : a <= y
       /\ N # {} => b \in N /\ \A y \in N : b <= y
       /\ rest # {} => r \in rest
       /\ k = IF ts = <<>> THEN 0 ELSE IF 1 \in H THEN 1 ELSE IF rest = {} THEN 0 ELSE r
       /\ K = {a} \cup {i \in H : i > a} /\ L = {b} \cup {i \in I : i > b}
  BY <1>9, <1>11
<1> HIDE DEF a, b, r, H, I, M, N, rest, K, L
<1>13. (M = {} <=> N = {})
       /\ (M # {} => k \notin K /\ \A i \in 1 .. n : i \in L <=> IF i < k THEN i \in K ELSE i + 1 \in K)
  <2>1. CASE 1 \in H
    <3>1. k = 1
      BY <1>1, <1>12, <2>1
    <3>2. \A i \in 1 .. n : i \in I <=> i + 1 \in H
      BY <1>6, <3>1
    <3>3. \A i \in 1 .. n : i \in N <=> i + 1 \in M
      BY <1>2, <1>7, <3>2
    <3>4. 1 \notin M
      BY <1>7, <2>1
    <3>5. M = {} <=> N = {}
      <4>1. ASSUME NEW m \in M PROVE m - 1 \in N
        <5>1. m - 1 \in 1 .. n /\ (m - 1) + 1 = m
          BY <1>2, <1>7, <3>4
        <5> QED  BY <3>3, <5>1
      <4>2. ASSUME NEW m \in N PROVE m + 1 \in M
        BY <1>7, <3>3
      <4> QED  BY <4>1, <4>2
    <3>6. ASSUME M # {}
          PROVE  k \notin K /\ \A i \in 1 .. n : i \in L <=> IF i < k THEN i \in K ELSE i + 1 \in K
      <4>1. a \in M /\ a \in Nat /\ a > 1 /\ \A y \in M : a <= y
        BY <1>7, <1>12, <3>4, <3>6
      <4>2. b \in N /\ b \in 1 .. n /\ \A y \in N : b <= y
        BY <1>7, <1>12, <3>5, <3>6
      <4>3. a - 1 \in 1 .. n /\ (a - 1) + 1 = a
        BY <1>2, <1>7, <4>1
      <4>4. a - 1 \in N /\ b + 1 \in M
        BY <3>3, <4>1, <4>2, <4>3
      <4>5. b = a - 1
        BY <4>1, <4>2, <4>3, <4>4
      <4>6. k \notin K
        BY <1>12, <3>1, <4>1
      <4>7. ASSUME NEW i \in 1 .. n PROVE i \in L <=> i + 1 \in K
        <5>1. (i = b <=> i + 1 = a) /\ (i > b <=> i + 1 > a)
          BY <4>1, <4>2, <4>5
        <5> QED  BY <1>12, <3>2, <5>1
      <4> QED  BY <3>1, <4>6, <4>7
    <3> QED  BY <3>5, <3>6
  <2>2. CASE 1 \notin H
    <3>1. rest # {} /\ k = r /\ k \in 2 .. n + 1 /\ k \notin H
      BY <1>1, <1>10, <1>12, <2>2
    <3>2. 1 \in 1 .. n /\ 1 < k
      BY <1>2, <3>1
    <3>3. 1 \in M /\ 1 \in N
      <4>1. 1 \notin I
        BY <1>6, <2>2, <3>2
      <4>2. 1 \in 1 .. n + 1
        BY <1>2
      <4> QED  BY <1>7, <2>2, <3>2, <4>1, <4>2
    <3>4. a = 1 /\ b = 1
      BY <1>7, <1>12, <3>3
    <3>5. k \notin K
      BY <1>12, <3>1, <3>2, <3>4
    <3>6. ASSUME NEW i \in 1 .. n PROVE i \in L <=> IF i < k THEN i \in K ELSE i + 1 \in K
      <4>1. i \in L <=> i = 1 \/ (i \in I /\ i > 1)
        BY <1>12, <3>4
      <4>2. i \in K <=> i = 1 \/ (i \in H /\ i > 1)
        BY <1>12, <3>4
      <4>3. i + 1 \in K <=> i + 1 \in H
        BY <1>12, <3>4
      <4>4. i \in I <=> IF i < k THEN i \in H ELSE i + 1 \in H
        BY <1>6
      <4>5. ~(i < k) => i > 1
        BY <3>1
      <4> QED  BY <4>1, <4>2, <4>3, <4>4, <4>5, <3>2
    <3> QED  BY <3>3, <3>5, <3>6
  <2> QED  BY <2>1, <2>2
<1>14. ASSUME M # {} PROVE Chosen(us, L)[n] = Chosen(ts, K)[n + 1]
  <2>1. /\ k \in 1 .. Len(ts) /\ k \notin K /\ Len(ts) - 1 = n /\ Len(ts) = n + 1
        /\ \A i \in 1 .. Len(ts) - 1 : i \in L <=> IF i < k THEN i \in K ELSE i + 1 \in K
    BY <1>1, <1>2, <1>13, <1>14
  <2>2. Chosen(RemoveAt(ts, k), L)[Len(ts) - 1] = Chosen(ts, K)[Len(ts)]
    BY <2>1, ChosenRemoveAt
  <2> QED  BY <2>1, <2>2 DEF us
<1> QED  BY <1>8, <1>13, <1>14 DEF us

LEMMA DeleteAllReached ==
    ASSUME NEW T, NEW ts \in Seq(T), NEW v, RemoveIndex(ts, IndexesByPpid(ts, v)) = 0
    PROVE  DeleteAll(ts, v) = ts
<1> DEFINE n == Len(ts)
           H == IndexesByPpid(ts, v)
           M == (1 .. n) \ H
           rest == (2 .. n) \ H
           K == {Min(M)} \cup {i \in H : i > Min(M)}
<1>1. n \in Nat /\ (ts = <<>> <=> n = 0)
  BY EmptySeq, LenProperties
<1>2. H \in SUBSET (1 .. n)
  BY DEF IndexesByPpid
<1>3. DeleteAll(ts, v) = IF M = {} THEN <<>> ELSE Chosen(ts, K)[n]
  BY DEF DeleteAll
<1>4. 0 = IF ts = <<>> THEN 0 ELSE IF 1 \in H THEN 1 ELSE IF rest = {} THEN 0 ELSE Min(rest)
  BY DEF RemoveIndex
<1>5. rest # {} => Min(rest) \in rest
  <2>1. rest \in SUBSET Nat
    BY <1>1
  <2> HIDE DEF rest
  <2> QED  BY <2>1, MinOfNats
<1>6. CASE ts = <<>>
  <2>1. M = {}
    BY <1>1, <1>6
  <2> QED  BY <1>3, <1>6, <2>1
<1>7. CASE ts # <<>>
  <2>1. 1 \notin H /\ rest = {}
    <3> DEFINE r == Min(rest)
    <3>1. (rest # {} => r \in 2 .. n) /\ (1 \notin H => rest = {} \/ r = 0)
      BY <1>4, <1>5, <1>7
    <3>2. 1 \notin H
      BY <1>4, <1>7
    <3> HIDE DEF r, rest, H
    <3> QED  BY <1>1, <3>1, <3>2
  <2>2. M = {1}
    BY <1>1, <1>7, <2>1
  <2>3. Min(M) = 1
    <3>1. M \in SUBSET Nat /\ M # {}
      BY <2>2
    <3> HIDE DEF M
    <3>2. Min(M) \in M
      BY <3>1, MinOfNats
    <3> QED  BY <2>2, <3>2
  <2>4. 1 .. n \subseteq K
    <3> SUFFICES ASSUME NEW i \in 1 .. n PROVE i \in K
      OBVIOUS
    <3>1. i = 1 \/ i \in 2 .. n
      BY <1>1
    <3>2. i \in 2 .. n => i \in H /\ i > 1
      BY <2>1
    <3> HIDE DEF M, H
    <3> QED  BY <2>3, <3>1, <3>2
  <2> HIDE DEF K
  <2>5. Chosen(ts, K)[n] = ts
    BY <2>4, ChosenAll
  <2> QED  BY <1>3, <2>2, <2>5 DEF K
<1> QED  BY <1>6, <1>7
=============================================================================
