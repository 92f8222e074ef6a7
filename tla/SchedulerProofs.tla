-------------------------- MODULE SchedulerProofs --------------------------
(***************************************************************************)
(* The theorems about the reservation scheduler, for any number of CPUs,   *)
(* priority pools, clients, threads, parameters and estimates: sums over   *)
(* the list, types, threads, ledgers, the refinement of Admission, the     *)
(* pools of priorities, refreshes, purges and the workload analysis.       *)
(***************************************************************************)
EXTENDS Scheduler, ListProofs, FiniteSetTheorems

----------------------------------------------------------------------------
(* SUMS *)
(* The equations of PrefixSum have a solution, so that PrefixSum is one.    *)
LEMMA PrefixSumExists ==
    ASSUME NEW a \in [Nat -> Int]
    PROVE  \E f \in [Nat -> Int] :
              f = [n \in Nat |-> IF n = 0 THEN 0 ELSE f[n - 1] + a[n]]
<1> DEFINE Good(f, m) == /\ f[0] = 0
                         /\ \A n \in 1 .. m : f[n] = f[n - 1] + a[n]
           S == {m \in Nat : \E f \in [Nat -> Int] : Good(f, m)}
<1>1. 0 \in S
  <2>1. [n \in Nat |-> 0] \in [Nat -> Int] /\ Good([n \in Nat |-> 0], 0)
    OBVIOUS
  <2> QED  BY <2>1
<1>2. ASSUME NEW m \in Nat, m \in S PROVE m + 1 \in S
  <2>1. PICK f \in [Nat -> Int] : Good(f, m)
    BY <1>2
  <2> DEFINE g == [f EXCEPT ![m + 1] = f[m] + a[m + 1]]
  <2>2. g \in [Nat -> Int] /\ Good(g, m + 1)
    BY <2>1
  <2> HIDE DEF Good, g
  <2> QED  BY <2>2
<1>3. \A m \in Nat : \E f \in [Nat -> Int] : Good(f, m)
  <2> HIDE DEF S
  <2>1. \A m \in Nat : m \in S  BY <1>1, <1>2, SetInduction
  <2> QED  BY <2>1 DEF S
<1> DEFINE F(m) == CHOOSE f \in [Nat -> Int] : Good(f, m)
           h == [m \in Nat |-> F(m)[m]]
<1>4. \A m \in Nat : F(m) \in [Nat -> Int] /\ Good(F(m), m)
  <2> HIDE DEF Good
  <2> QED BY <1>3
<1>5. \A m, k \in Nat : m <= k => F(k)[m] = F(m)[m]
  <2> DEFINE U == {m \in Nat : \A j \in Nat : m <= j => F(j)[m] = F(m)[m]}
  <2> HIDE DEF F
  <2>1. 0 \in U  BY <1>4
  <2>2. ASSUME NEW m \in Nat, m \in U PROVE m + 1 \in U
    <3> SUFFICES ASSUME NEW j \in Nat, m + 1 <= j
                 PROVE  F(j)[m + 1] = F(m + 1)[m + 1]
      OBVIOUS
    <3>1. F(j)[m] = F(m)[m] /\ F(m + 1)[m] = F(m)[m]
      BY <2>2
    <3>2. m + 1 \in 1 .. j /\ m + 1 \in 1 .. (m + 1) /\ (m + 1) - 1 = m
      OBVIOUS
    <3>3. F(j)[m + 1] = F(j)[m] + a[m + 1]
      BY <1>4, <3>2
    <3>4. F(m + 1)[m + 1] = F(m + 1)[m] + a[m + 1]
      BY <1>4, <3>2
    <3> QED  BY <3>1, <3>3, <3>4
  <2>3. \A m \in Nat : m \in U
    <3> HIDE DEF U
    <3> QED BY <2>1, <2>2, SetInduction
  <2> QED  BY <2>3
<1>6. h \in [Nat -> Int]
  <2> HIDE DEF F
  <2> QED BY <1>4
<1>7. ASSUME NEW n \in Nat PROVE h[n] = IF n = 0 THEN 0 ELSE h[n - 1] + a[n]
  <2> HIDE DEF F
  <2>1. CASE n = 0  BY <1>4, <2>1
  <2>2. CASE n # 0
    <3>1. n - 1 \in Nat /\ n - 1 <= n /\ n \in 1 .. n  BY <2>2
    <3>2. F(n)[n] = F(n)[n - 1] + a[n]  BY <1>4, <3>1
    <3>3. F(n)[n - 1] = h[n - 1]  BY <1>5, <3>1
    <3> QED  BY <2>2, <3>2, <3>3
  <2> QED  BY <2>1, <2>2
<1> HIDE DEF h
<1>8. h = [n \in Nat |-> IF n = 0 THEN 0 ELSE h[n - 1] + a[n]]
  BY <1>6, <1>7
<1> QED  BY <1>6, <1>8

(* PrefixSum adds one element after the other.                              *)
LEMMA PrefixSumEquations ==
    ASSUME NEW a \in [Nat -> Int]
    PROVE  /\ PrefixSum(a) \in [Nat -> Int]
           /\ PrefixSum(a)[0] = 0
           /\ \A n \in Nat : PrefixSum(a)[n + 1] = PrefixSum(a)[n] + a[n + 1]
<1> DEFINE P == PrefixSum(a)
<1>1. P = CHOOSE f : f = [n \in Nat |-> IF n = 0 THEN 0 ELSE f[n - 1] + a[n]]
  BY DEF PrefixSum
<1>2. \E f \in [Nat -> Int] :
         f = [n \in Nat |-> IF n = 0 THEN 0 ELSE f[n - 1] + a[n]]
  BY PrefixSumExists
<1> HIDE DEF P
<1>3. P = [n \in Nat |-> IF n = 0 THEN 0 ELSE P[n - 1] + a[n]]
  BY <1>1, <1>2
<1>4. P[0] = 0 /\ \A n \in Nat : P[n + 1] = P[n] + a[n + 1]
  BY <1>3
<1>5. \A n \in Nat : P[n] \in Int
  <2> DEFINE S == {n \in Nat : P[n] \in Int}
  <2>1. 0 \in S /\ \A n \in Nat : n \in S => n + 1 \in S
    BY <1>4
  <2> HIDE DEF S
  <2>2. \A n \in Nat : n \in S
    BY <2>1, SetInduction
  <2> QED  BY <2>2 DEF S
<1> QED  BY <1>3, <1>4, <1>5 DEF P

(* What becomes of a sum when the sequence changes in one place: nothing    *)
(* beyond n matters; an element may be replaced, put in front or removed.   *)
LEMMA PrefixSumSame ==
    ASSUME NEW a \in [Nat -> Int], NEW b \in [Nat -> Int], NEW n \in Nat,
           \A i \in 1 .. n : b[i] = a[i]
    PROVE  PrefixSum(b)[n] = PrefixSum(a)[n]
<1> DEFINE S == {m \in Nat : m <= n => PrefixSum(b)[m] = PrefixSum(a)[m]}
<1>1. 0 \in S
  BY PrefixSumEquations
<1>2. ASSUME NEW m \in Nat, m \in S PROVE m + 1 \in S
  <2>1. m + 1 <= n => b[m + 1] = a[m + 1]
    OBVIOUS
  <2> QED  BY <1>2, <2>1, PrefixSumEquations
<1> HIDE DEF S
<1>3. n \in S
  BY <1>1, <1>2, SetInduction
<1> QED  BY <1>3 DEF S

LEMMA PrefixSumReplace ==
    ASSUME NEW a \in [Nat -> Int], NEW b \in [Nat -> Int], NEW n \in Nat,
           NEW k \in 1 .. n, \A i \in (1 .. n) \ {k} : b[i] = a[i]
    PROVE  PrefixSum(b)[n] = PrefixSum(a)[n] - a[k] + b[k]
<1> DEFINE S == {m \in Nat : k <= m /\ m <= n =>
                     PrefixSum(b)[m] = PrefixSum(a)[m] - a[k] + b[k]}
<1>1. 0 \in S
  OBVIOUS
<1>2. ASSUME NEW m \in Nat, m \in S PROVE m + 1 \in S
  <2>1. CASE m + 1 = k
    <3>1. PrefixSum(b)[m] = PrefixSum(a)[m]
      BY <2>1, PrefixSumSame
    <3> QED  BY <2>1, <3>1, PrefixSumEquations
  <2>2. CASE m + 1 # k
    <3>1. k <= m + 1 /\ m + 1 <= n => b[m + 1] = a[m + 1]
      BY <2>2
    <3> QED  BY <1>2, <2>2, <3>1, PrefixSumEquations
  <2> QED  BY <2>1, <2>2
<1> HIDE DEF S
<1>3. n \in S
  BY <1>1, <1>2, SetInduction
<1> QED  BY <1>3 DEF S

LEMMA PrefixSumPrepend ==
    ASSUME NEW a \in [Nat -> Int], NEW b \in [Nat -> Int], NEW n \in Nat,
           \A i \in 1 .. n : b[i + 1] = a[i]
    PROVE  PrefixSum(b)[n + 1] = b[1] + PrefixSum(a)[n]
<1> DEFINE S == {m \in Nat : m <= n => PrefixSum(b)[m + 1] = b[1] + PrefixSum(a)[m]}
<1>1. 0 \in S
  BY PrefixSumEquations
<1>2. ASSUME NEW m \in Nat, m \in S PROVE m + 1 \in S
  <2>1. m + 1 <= n => b[(m + 1) + 1] = a[m + 1]
    OBVIOUS
  <2> QED  BY <1>2, <2>1, PrefixSumEquations
<1> HIDE DEF S
<1>3. n \in S
  BY <1>1, <1>2, SetInduction
<1> QED  BY <1>3 DEF S

LEMMA PrefixSumRemove ==
    ASSUME NEW a \in [Nat -> Int], NEW b \in [Nat -> Int], NEW n \in Nat,
           NEW k \in 1 .. (n + 1),
           \A i \in 1 .. n : b[i] = IF i < k THEN a[i] ELSE a[i + 1]
    PROVE  PrefixSum(b)[n] = PrefixSum(a)[n + 1] - a[k]
<1> DEFINE S == {m \in Nat : k - 1 <= m /\ m <= n =>
                     PrefixSum(b)[m] = PrefixSum(a)[m + 1] - a[k]}
<1>1. ASSUME NEW m \in Nat, m = k - 1 PROVE m \in S
  <2>1. PrefixSum(b)[m] = PrefixSum(a)[m]
    BY <1>1, PrefixSumSame
  <2> QED  BY <1>1, <2>1, PrefixSumEquations
<1>2. 0 \in S
  BY <1>1
<1>3. ASSUME NEW m \in Nat, m \in S PROVE m + 1 \in S
  <2>1. CASE m + 1 = k - 1
    <3> HIDE DEF S
    <3> QED  BY <1>1, <2>1
  <2>2. CASE m + 1 # k - 1
    <3>1. k - 1 <= m + 1 /\ m + 1 <= n => b[m + 1] = a[(m + 1) + 1]
      BY <2>2
    <3> QED  BY <1>3, <2>2, <3>1, PrefixSumEquations
  <2> QED  BY <2>1, <2>2
<1> HIDE DEF S
<1>4. n \in S
  BY <1>2, <1>3, SetInduction
<1> QED  BY <1>4 DEF S
----------------------------------------------------------------------------
(* What the list operators do to the utilization a plugin adds up: a task   *)
(* on top adds its share, a removed task takes its share away, a replaced   *)
(* one changes it by the difference.                                        *)
Part(t, p, c) == IF t.pluginid = p /\ t.cpu = c THEN t.util ELSE 0

LEMMA ShareFacts ==
    ASSUME NEW T, \A t \in T : t.util \in Int, NEW ts \in Seq(T), NEW p, NEW c
    PROVE  /\ Share(ts, p, c) \in [Nat -> Int]
           /\ \A i \in 1 .. Len(ts) : Share(ts, p, c)[i] = Part(ts[i], p, c)
BY DEF Share, Part

LEMMA UtilSumEmpty ==
    ASSUME NEW p, NEW c
    PROVE  UtilSum(<<>>, p, c) = 0
<1>1. Share(<<>>, p, c) \in [Nat -> Int]
  BY DEF Share
<1> QED  BY <1>1, PrefixSumEquations DEF UtilSum

LEMMA UtilSumInt ==
    ASSUME NEW T, \A t \in T : t.util \in Int, NEW ts \in Seq(T), NEW p, NEW c
    PROVE  UtilSum(ts, p, c) \in Int
BY ShareFacts, PrefixSumEquations DEF UtilSum

LEMMA UtilSumAddTop ==
    ASSUME NEW T, \A t \in T : t.util \in Int, NEW ts \in Seq(T), NEW t \in T,
           NEW p, NEW c
    PROVE  UtilSum(AddTop(ts, t), p, c) = Part(t, p, c) + UtilSum(ts, p, c)
<1> DEFINE us == AddTop(ts, t)
           n == Len(ts)
           a == Share(ts, p, c)
           b == Share(us, p, c)
<1>1. us \in Seq(T) /\ Len(us) = n + 1 /\ us[1] = t
  BY AddTopFacts
<1>2. \A i \in 1 .. n : us[i + 1] = ts[i]
  BY AddTopFacts
<1>3. n \in Nat /\ Len(ts) = n
  BY LenProperties
<1> HIDE DEF us, n
<1>4. a \in [Nat -> Int] /\ \A i \in 1 .. Len(ts) : a[i] = Part(ts[i], p, c)
  BY ShareFacts
<1>5. b \in [Nat -> Int] /\ \A i \in 1 .. Len(us) : b[i] = Part(us[i], p, c)
  BY <1>1, ShareFacts
<1>6. UtilSum(us, p, c) = PrefixSum(b)[n + 1] /\ UtilSum(ts, p, c) = PrefixSum(a)[n]
  BY <1>1, <1>3 DEF UtilSum
<1> HIDE DEF a, b
<1>7. b[1] = Part(t, p, c) /\ \A i \in 1 .. n : b[i + 1] = a[i]
  BY <1>1, <1>2, <1>3, <1>4, <1>5
<1>8. PrefixSum(b)[n + 1] = b[1] + PrefixSum(a)[n]
  BY <1>3, <1>4, <1>5, <1>7, PrefixSumPrepend
<1> QED  BY <1>6, <1>7, <1>8 DEF us

LEMMA UtilSumRemoveAt ==
    ASSUME NEW T, \A t \in T : t.util \in Int, NEW ts \in Seq(T),
           NEW k \in 1 .. Len(ts), NEW p, NEW c
    PROVE  UtilSum(RemoveAt(ts, k), p, c) = UtilSum(ts, p, c) - Part(ts[k], p, c)
<1> DEFINE us == RemoveAt(ts, k)
           n == Len(ts) - 1
           a == Share(ts, p, c)
           b == Share(us, p, c)
<1>1. us \in Seq(T) /\ Len(us) = n
  BY RemoveAtFacts
<1>2. \A i \in 1 .. n : us[i] = IF i < k THEN ts[i] ELSE ts[i + 1]
  BY RemoveAtFacts
<1>3. n \in Nat /\ Len(ts) = n + 1 /\ k \in 1 .. n + 1
  BY LenProperties
<1> HIDE DEF us, n
<1>4. a \in [Nat -> Int] /\ \A i \in 1 .. Len(ts) : a[i] = Part(ts[i], p, c)
  BY ShareFacts
<1>5. b \in [Nat -> Int] /\ \A i \in 1 .. Len(us) : b[i] = Part(us[i], p, c)
  BY <1>1, ShareFacts
<1>6. UtilSum(us, p, c) = PrefixSum(b)[n] /\ UtilSum(ts, p, c) = PrefixSum(a)[n + 1]
  BY <1>1, <1>3 DEF UtilSum
<1> HIDE DEF a, b
<1>7. \A i \in 1 .. n : b[i] = IF i < k THEN a[i] ELSE a[i + 1]
  BY <1>1, <1>2, <1>3, <1>4, <1>5
<1>8. PrefixSum(b)[n] = PrefixSum(a)[n + 1] - a[k]
  BY <1>3, <1>4, <1>5, <1>7, PrefixSumRemove
<1> QED  BY <1>3, <1>4, <1>6, <1>8 DEF us

LEMMA UtilSumReplace ==
    ASSUME NEW T, \A t \in T : t.util \in Int, NEW ts \in Seq(T), NEW us \in Seq(T),
           Len(us) = Len(ts), NEW k \in 1 .. Len(ts), NEW p, NEW c,
           \A i \in (1 .. Len(ts)) \ {k} : us[i] = ts[i]
    PROVE  UtilSum(us, p, c) = UtilSum(ts, p, c) - Part(ts[k], p, c) + Part(us[k], p, c)
<1> DEFINE n == Len(ts)
           a == Share(ts, p, c)
           b == Share(us, p, c)
<1>1. n \in Nat /\ Len(ts) = n /\ Len(us) = n
  BY LenProperties
<1> HIDE DEF n
<1>2. a \in [Nat -> Int] /\ \A i \in 1 .. Len(ts) : a[i] = Part(ts[i], p, c)
  BY ShareFacts
<1>3. b \in [Nat -> Int] /\ \A i \in 1 .. Len(us) : b[i] = Part(us[i], p, c)
  BY ShareFacts
<1>4. UtilSum(us, p, c) = PrefixSum(b)[n] /\ UtilSum(ts, p, c) = PrefixSum(a)[n]
  BY <1>1 DEF UtilSum
<1> HIDE DEF a, b
<1>5. \A i \in (1 .. n) \ {k} : b[i] = a[i]
  BY <1>1, <1>2, <1>3
<1>6. PrefixSum(b)[n] = PrefixSum(a)[n] - a[k] + b[k]
  BY <1>1, <1>2, <1>3, <1>5, PrefixSumReplace
<1> QED  BY <1>1, <1>2, <1>3, <1>4, <1>6

(* Two lists whose tasks agree on plugin, CPU and utilization add up to the *)
(* same: a priority does not count.                                         *)
LEMMA UtilSumSame ==
    ASSUME NEW T, \A t \in T : t.util \in Int, NEW ts \in Seq(T), NEW us \in Seq(T),
           Len(us) = Len(ts), NEW p, NEW c,
           \A i \in 1 .. Len(ts) : Part(us[i], p, c) = Part(ts[i], p, c)
    PROVE  UtilSum(us, p, c) = UtilSum(ts, p, c)
<1> DEFINE n == Len(ts)
           a == Share(ts, p, c)
           b == Share(us, p, c)
<1>1. n \in Nat /\ Len(ts) = n /\ Len(us) = n
  BY LenProperties
<1> HIDE DEF n
<1>2. a \in [Nat -> Int] /\ \A i \in 1 .. Len(ts) : a[i] = Part(ts[i], p, c)
  BY ShareFacts
<1>3. b \in [Nat -> Int] /\ \A i \in 1 .. Len(us) : b[i] = Part(us[i], p, c)
  BY ShareFacts
<1>4. UtilSum(us, p, c) = PrefixSum(b)[n] /\ UtilSum(ts, p, c) = PrefixSum(a)[n]
  BY <1>1 DEF UtilSum
<1> HIDE DEF a, b
<1>5. \A i \in 1 .. n : b[i] = a[i]
  BY <1>1, <1>2, <1>3
<1>6. PrefixSum(b)[n] = PrefixSum(a)[n]
  BY <1>1, <1>2, <1>3, <1>5, PrefixSumSame
<1> QED  BY <1>4, <1>6

----------------------------------------------------------------------------
(* THE HANDLERS *)

(* The helpers of Scheduler return what struct rts_task has room for.       *)
LEMMA MinOfIndexes ==
    ASSUME NEW n, NEW S \in SUBSET (1 .. n), S # {}
    PROVE  Min(S) \in S /\ Min(S) \in Nat
<1>1. S \in SUBSET Nat
  OBVIOUS
<1> QED  BY <1>1, MinOfNats

LEMMA IterIndexNat ==
    ASSUME NEW l, NEW rsvid
    PROVE  IterIndex(l, rsvid) \in Nat
<1>1. IndexesByRsvid(l, rsvid) \in SUBSET (1 .. Len(l))
  BY DEF IndexesByRsvid
<1> QED  BY <1>1, MinOfIndexes DEF IterIndex

LEMMA PluginFacts ==
    /\ cpunum \in Nat \ {0} /\ Scale \in Nat \ {0}
    /\ \A p \in Plugins : PrioMin[p] \in Nat /\ PrioMax[p] \in Nat
    /\ Plugins \subseteq Nat /\ {EDF, SSRM, FP, RR} \subseteq Plugins
    /\ EDF = 0 /\ SSRM = 1 /\ FP = 2 /\ RR = 3
    /\ CPUs \subseteq Nat /\ AllCpus \notin CPUs
BY PluginAssumption DEF Plugins, EDF, SSRM, FP, RR, CPUs, AllCpus

LEMMA DivNat ==
    ASSUME NEW a \in Nat, NEW b \in Nat, NEW c \in Nat \ {0}
    PROVE  (a * b) \div c \in Nat
<1>1. a * b \in Nat
  OBVIOUS
<1> DEFINE d == a * b
<1> HIDE DEF d
<1>2. d \in Nat => d \div c \in Nat
  OBVIOUS
<1> QED  BY <1>1, <1>2 DEF d

LEMMA TaskUtilNat ==
    ASSUME NEW t, t.wcet \in Nat, t.period \in Nat, NEW est \in Estimates
    PROVE  TaskUtil(t, est) \in Nat
<1>1. est.wcet \in Nat /\ est.period \in Nat \ {0} /\ Scale \in Nat
  BY SchedulerAssumption, PluginAssumption
<1> DEFINE w == IF t.wcet # 0 THEN t.wcet ELSE est.wcet
           q == IF t.period # 0 THEN t.period ELSE est.period
<1>2. w \in Nat /\ q \in Nat \ {0}
  BY <1>1
<1>3. TaskUtil(t, est) = (w * Scale) \div q
  BY DEF TaskUtil
<1> HIDE DEF w, q
<1> QED  BY <1>1, <1>2, <1>3, DivNat

(* The values of a list of natural numbers have a largest one, and Max is   *)
(* it.                                                                      *)
LEMMA BoundOfList ==
    ASSUME NEW f \in [Nat -> Nat], NEW n \in Nat
    PROVE  \E m \in Nat : \A i \in 1 .. n : f[i] <= m
<1> DEFINE S == {k \in Nat : \E m \in Nat : \A i \in 1 .. k : f[i] <= m}
<1>1. 0 \in S
  OBVIOUS
<1>2. ASSUME NEW k \in Nat, k \in S PROVE k + 1 \in S
  <2>1. PICK m \in Nat : \A i \in 1 .. k : f[i] <= m
    BY <1>2
  <2> DEFINE M == IF f[k + 1] <= m THEN m ELSE f[k + 1]
  <2>2. M \in Nat /\ m <= M /\ f[k + 1] <= M
    OBVIOUS
  <2> HIDE DEF M
  <2>3. \A i \in 1 .. k + 1 : f[i] <= M
    BY <2>1, <2>2
  <2> QED  BY <2>2, <2>3
<1> HIDE DEF S
<1>3. n \in S
  BY <1>1, <1>2, SetInduction
<1> QED  BY <1>3 DEF S

LEMMA MaxOfBounded ==
    ASSUME NEW S \in SUBSET Nat, S # {}, NEW m \in Nat, \A x \in S : x <= m
    PROVE  Max(S) \in S /\ \A y \in S : Max(S) >= y
<1> DEFINE D == {m - x : x \in S}
<1>1. D \in SUBSET Nat /\ D # {}
  <2>1. \A x \in S : m - x \in Nat
    OBVIOUS
  <2>2. PICK x \in S : TRUE
    OBVIOUS
  <2>3. m - x \in D
    OBVIOUS
  <2>4. \A y \in D : y \in Nat
    BY <2>1
  <2> QED  BY <2>3, <2>4
<1>2. Min(D) \in D /\ \A y \in D : Min(D) <= y
  <2> HIDE DEF D
  <2> QED  BY <1>1, MinOfNats
<1>3. PICK x \in S : Min(D) = m - x
  BY <1>2
<1>4. \A y \in S : x >= y
  <2> SUFFICES ASSUME NEW y \in S PROVE x >= y
    OBVIOUS
  <2>1. m - x <= m - y
    BY <1>2, <1>3
  <2> QED  BY <2>1
<1> QED  BY <1>4 DEF Max

LEMMA DivAtMost ==
    ASSUME NEW a \in Nat, NEW r \in Nat \ {0}, NEW b \in 0 .. r
    PROVE  (a * b) \div r \in 0 .. a
<1>1. a * b <= a * r /\ a * b \in Nat
  OBVIOUS
<1> DEFINE x == a * b
           d == x \div r
<1>2. d \in Nat /\ d * r <= x
  <2> HIDE DEF x
  <2>1. x \in Nat  BY <1>1 DEF x
  <2> QED  BY <2>1
<1>3. d <= a
  <2> SUFFICES ASSUME d > a PROVE FALSE
    BY <1>2
  <2> HIDE DEF d
  <2>1. d >= a + 1
    BY <1>2
  <2>2. d * r >= (a + 1) * r
    BY <1>2, <2>1
  <2>3. (a + 1) * r = a * r + r
    OBVIOUS
  <2> DEFINE y == a * r
             z == d * r
  <2>4. y \in Nat /\ z \in Nat
    BY <1>2
  <2>5. z <= x /\ x <= y /\ z >= y + r
    BY <1>1, <1>2, <2>2, <2>3
  <2> HIDE DEF x, y, z
  <2> QED  BY <1>1, <2>4, <2>5 DEF x
<1> HIDE DEF d
<1>4. d \in 0 .. a
  BY <1>2, <1>3
<1> QED  BY <1>4 DEF d

(* What prio_remap does with the user priorities of the tasks of a plugin:  *)
(* lo is the lowest of them, and range how far they spread.                 *)
Spreads(p, ts, lo, range) ==
    /\ \A i \in 1 .. Len(ts) :
          ts[i].pluginid = p => ts[i].priority - lo \in 0 .. range
    /\ \A x \in Nat :
          PrioRemap(p, ts, x) =
             IF range = 0 THEN PrioMin[p]
             ELSE PrioMin[p] + ((PrioMax[p] - PrioMin[p]) * (x - lo)) \div range

LEMMA PrioRemapFacts ==
    ASSUME NEW ts \in Seq(Task), NEW k \in 1 .. Len(ts), NEW p, p = ts[k].pluginid
    PROVE  \E lo \in Nat, range \in Nat : Spreads(p, ts, lo, range)
<1> DEFINE user == {ts[i].priority : i \in {j \in DOMAIN ts : ts[j].pluginid = p}}
           f == [i \in Nat |-> IF i \in 1 .. Len(ts) THEN ts[i].priority ELSE 0]
<1>1. Len(ts) \in Nat /\ DOMAIN ts = 1 .. Len(ts) /\ \A i \in 1 .. Len(ts) : ts[i] \in Task
  BY LenProperties, ElementOfSeq
<1>2. \A i \in 1 .. Len(ts) : ts[i].priority \in Nat /\ ts[i].pluginid \in Plugins
  BY <1>1 DEF Task
<1>3. f \in [Nat -> Nat]
  BY <1>2
<1>4. PICK m \in Nat : \A i \in 1 .. Len(ts) : f[i] <= m
  <2> HIDE DEF f
  <2> QED  BY <1>1, <1>3, BoundOfList
<1>5. \A i \in 1 .. Len(ts) : ts[i].pluginid = p => ts[i].priority \in user
  BY <1>1
<1>6. user \in SUBSET Nat /\ user # {} /\ \A x \in user : x <= m
  <2>1. ASSUME NEW x \in user PROVE x \in Nat /\ x <= m
    <3>1. PICK i \in 1 .. Len(ts) : x = ts[i].priority
      BY <1>1
    <3>2. f[i] = x
      BY <3>1
    <3> QED  BY <1>2, <1>4, <3>1, <3>2
  <2>2. ts[k].priority \in user
    BY <1>5
  <2> HIDE DEF user
  <2> QED  BY <2>1, <2>2
<1> HIDE DEF user
<1>7. /\ Max(user) \in Nat /\ Min(user) \in Nat /\ Min(user) <= Max(user)
      /\ \A x \in user : Min(user) <= x /\ x <= Max(user)
  BY <1>6, MaxOfBounded, MinOfNats
<1> DEFINE lo == Min(user)
           range == Max(user) - Min(user)
<1>8. range \in Nat
  BY <1>7
<1>9. ASSUME NEW i \in 1 .. Len(ts), ts[i].pluginid = p
      PROVE  ts[i].priority - lo \in 0 .. range
  BY <1>2, <1>5, <1>7, <1>9
<1>10. ASSUME NEW x \in Nat
       PROVE  PrioRemap(p, ts, x) =
                 IF range = 0 THEN PrioMin[p]
                 ELSE PrioMin[p] + ((PrioMax[p] - PrioMin[p]) * (x - lo)) \div range
  BY DEF PrioRemap, user
<1>11. lo \in Nat
  BY <1>7
<1> HIDE DEF lo, range
<1>12. Spreads(p, ts, lo, range)
  BY <1>9, <1>10 DEF Spreads
<1> QED  BY <1>8, <1>11, <1>12

LEMMA PrioRemapInPool ==
    ASSUME NEW ts \in Seq(Task), NEW k \in 1 .. Len(ts), NEW p, p = ts[k].pluginid
    PROVE  PrioRemap(p, ts, ts[k].priority) \in PrioMin[p] .. PrioMax[p]
<1>1. PICK lo \in Nat, range \in Nat : Spreads(p, ts, lo, range)
  BY PrioRemapFacts
<1>2. ts[k].priority \in Nat /\ p \in Plugins
  <2>1. ts[k] \in Task
    BY ElementOfSeq
  <2> QED  BY <2>1 DEF Task
<1>3. PrioMin[p] \in Nat /\ PrioMax[p] \in Nat /\ PrioMin[p] <= PrioMax[p]
  BY <1>2, PluginAssumption
<1> DEFINE b == ts[k].priority - lo
           a == PrioMax[p] - PrioMin[p]
<1>4. /\ b \in 0 .. range /\ a \in Nat
      /\ PrioRemap(p, ts, ts[k].priority) =
            IF range = 0 THEN PrioMin[p] ELSE PrioMin[p] + (a * b) \div range
  <2>1. b \in 0 .. range
    BY <1>1 DEF Spreads
  <2>2. a \in Nat
    BY <1>3
  <2>3. PrioRemap(p, ts, ts[k].priority) =
            IF range = 0 THEN PrioMin[p] ELSE PrioMin[p] + (a * b) \div range
    BY <1>1, <1>2 DEF Spreads
  <2> QED  BY <2>1, <2>2, <2>3
<1>5. PrioMin[p] + a = PrioMax[p]
  BY <1>3
<1> HIDE DEF a, b
<1>6. range # 0 => (a * b) \div range \in 0 .. a
  BY <1>4, DivAtMost
<1> DEFINE d == (a * b) \div range
<1>7. PrioRemap(p, ts, ts[k].priority) = IF range = 0 THEN PrioMin[p] ELSE PrioMin[p] + d
  BY <1>4
<1>8. range # 0 => d \in 0 .. a
  BY <1>6
<1> HIDE DEF d
<1> QED  BY <1>3, <1>4, <1>5, <1>7, <1>8

LEMMA CalcPrioInt ==
    ASSUME NEW ts \in Seq(Task), NEW k \in 1 .. Len(ts)
    PROVE  CalcPrio(ts, ts[k]) \in Int
<1>1. ts[k] \in Task
  BY ElementOfSeq
<1>2. ts[k].schedprio \in Int /\ ts[k].priority \in Nat
  BY <1>1 DEF Task
<1>3. IterIndex(SsrmTasks(ts, ts[k].cpu), ts[k].id) \in Nat
  BY IterIndexNat
<1>4. PrioMax[SSRM] \in Nat
  BY PluginFacts
<1>5. PrioRemap(ts[k].pluginid, ts, ts[k].priority) \in Int
  <2> DEFINE p == ts[k].pluginid
  <2>1. PrioRemap(p, ts, ts[k].priority) \in PrioMin[p] .. PrioMax[p]
    BY PrioRemapInPool
  <2>2. PrioMin[p] \in Nat /\ PrioMax[p] \in Nat
    BY <1>1, PluginFacts DEF Task
  <2> QED  BY <2>1, <2>2
<1>6. EDF # SSRM
  BY PluginFacts
<1> QED  BY <1>2, <1>3, <1>4, <1>5, <1>6 DEF CalcPrio

----------------------------------------------------------------------------
(* The task a request builds, the plugin and the CPU it is given, and the   *)
(* lists the handlers leave behind.                                         *)
LEMMA NewTaskFacts ==
    ASSUME TypeOK, NEW par \in Params, NEW ppid \in Pids, NEW est \in Estimates
    PROVE  /\ NewTask(par, ppid, est) \in Task
           /\ NewTask(par, ppid, est).id = next_rsv_id + 1
<1> DEFINE t == [id |-> next_rsv_id + 1, ptid |-> ppid, tid |-> 0, cpu |-> 0,
                 util |-> 0, wcet |-> par.budget, period |-> par.period,
                 deadline |-> par.deadline, priority |-> par.priority,
                 schedprio |-> 0, pluginid |-> 0]
<1>1. par \in [budget : Nat, period : Nat, deadline : Nat, priority : Nat]
  BY SchedulerAssumption
<1>2. 0 \in Threads /\ 0 \in CPUs /\ 0 \in Plugins /\ next_rsv_id + 1 \in Nat
  BY PluginFacts DEF Threads, Daemon, CPUs, EDF, TypeOK
<1>3. t \in Task
  BY <1>1, <1>2 DEF Task
<1>4. t.wcet \in Nat /\ t.period \in Nat
  BY <1>1
<1>5. NewTask(par, ppid, est) = [t EXCEPT !.util = TaskUtil(t, est)]
  BY DEF NewTask
<1>6. t.id = next_rsv_id + 1
  OBVIOUS
<1> HIDE DEF t
<1>7. TaskUtil(t, est) \in Nat
  BY <1>4, TaskUtilNat
<1> QED  BY <1>3, <1>5, <1>6, <1>7 DEF Task

LEMMA BestFacts ==
    ASSUME TypeOK, NEW t, NEW wa, BestPlugins(tasks, t, free, wa) # {}
    PROVE  LET p == Min(BestPlugins(tasks, t, free, wa))
               c == Min(TestCpus(p, tasks, t, free, wa))
           IN  p \in Plugins /\ c \in CPUs /\ t.util <= free[c]
<1> DEFINE best == BestPlugins(tasks, t, free, wa)
           p == Min(best)
           cpus == TestCpus(p, tasks, t, free, wa)
           c == Min(cpus)
<1>1. best \in SUBSET Plugins /\ \A q \in best : TTest(q, tasks, t, free, wa) > 0
  BY DEF BestPlugins
<1>2. best \in SUBSET Nat
  BY <1>1, PluginFacts
<1> HIDE DEF best
<1>3. p \in best
  <2>1. best # {}
    BY DEF best
  <2> QED  BY <1>2, <2>1, MinOfNats
<1>4. cpus # {}
  BY <1>1, <1>3 DEF TTest
<1>5. cpus \in SUBSET CPUs /\ \A d \in cpus : t.util <= free[d]
  BY DEF TestCpus, SsrmReaches
<1> HIDE DEF cpus
<1>6. c \in cpus
  BY <1>4, <1>5, PluginFacts, MinOfNats
<1> QED  BY <1>1, <1>3, <1>5, <1>6 DEF best, cpus

(* A new schedprio changes nothing else.                                    *)
LEMMA ReprioFacts ==
    ASSUME NEW ts \in Seq(Task), NEW k \in 1 .. Len(ts), NEW x \in Int
    PROVE  LET e  == [ts[k] EXCEPT !.schedprio = x]
               us == [ts EXCEPT ![k].schedprio = x]
           IN  /\ e \in Task /\ us \in Seq(Task) /\ Len(us) = Len(ts)
               /\ \A j \in 1 .. Len(ts) : us[j] = IF j = k THEN e ELSE ts[j]
<1> DEFINE e == [ts[k] EXCEPT !.schedprio = x]
           us == [ts EXCEPT ![k].schedprio = x]
<1>1. ts[k] \in Task
  BY ElementOfSeq
<1>2. e \in Task
  BY <1>1 DEF Task
<1>3. us = [ts EXCEPT ![k] = e]
  OBVIOUS
<1> HIDE DEF e, us
<1>4. /\ us \in Seq(Task) /\ Len(us) = Len(ts)
      /\ \A j \in 1 .. Len(ts) : us[j] = IF j = k THEN e ELSE ts[j]
  BY <1>2, <1>3, ExceptSeq
<1> QED  BY <1>2, <1>4 DEF e, us

(* Assign puts the task on top; but for schedprio, which stays an integer,  *)
(* the rest of the list is as it was.                                       *)
LEMMA AssignFacts ==
    ASSUME TypeOK, NEW t \in Task, NEW p \in Plugins, NEW c \in CPUs, Assign(t, p, c)
    PROVE  \E u \in Task :
              /\ u.id = t.id /\ u.cpu = c /\ u.pluginid = p /\ u.util = t.util
              /\ u.wcet = t.wcet /\ u.period = t.period /\ u.deadline = t.deadline
              /\ tasks' = AddTop(tasks, u)
<1> DEFINE placed == [t EXCEPT !.cpu = c, !.pluginid = p]
           ts == AddTop(tasks, placed)
           x == CalcPrio(ts, placed)
           u == [placed EXCEPT !.schedprio = x]
<1>1. placed \in Task /\ tasks \in Seq(Task)
  BY DEF Task, TypeOK
<1>2. /\ placed.id = t.id /\ placed.cpu = c /\ placed.pluginid = p
      /\ placed.util = t.util /\ placed.wcet = t.wcet /\ placed.period = t.period
      /\ placed.deadline = t.deadline
  BY DEF Task
<1>3. tasks' = [ts EXCEPT ![1].schedprio = x]
  BY DEF Assign
<1> HIDE DEF placed
<1>4. /\ ts \in Seq(Task) /\ Len(ts) = Len(tasks) + 1 /\ ts[1] = placed
      /\ \A i \in 1 .. Len(tasks) : ts[i + 1] = tasks[i]
  <2>1. /\ AddTop(tasks, placed) \in Seq(Task)
        /\ Len(AddTop(tasks, placed)) = Len(tasks) + 1
        /\ AddTop(tasks, placed)[1] = placed
        /\ \A i \in 1 .. Len(tasks) : AddTop(tasks, placed)[i + 1] = tasks[i]
    BY <1>1, AddTopFacts
  <2> QED  BY <2>1
<1>5. Len(tasks) \in Nat /\ 1 \in 1 .. Len(ts)
  BY <1>1, <1>4, LenProperties
<1> HIDE DEF ts
<1>6. x \in Int
  BY <1>4, <1>5, CalcPrioInt
<1> HIDE DEF x
<1>7. /\ u \in Task /\ tasks' \in Seq(Task) /\ Len(tasks') = Len(ts)
      /\ \A j \in 1 .. Len(ts) : tasks'[j] = IF j = 1 THEN u ELSE ts[j]
  BY <1>3, <1>4, <1>5, <1>6, ReprioFacts
<1>9. /\ u.id = t.id /\ u.cpu = c /\ u.pluginid = p
      /\ u.util = t.util /\ u.wcet = t.wcet /\ u.period = t.period /\ u.deadline = t.deadline
  BY <1>1, <1>2 DEF Task
<1>10. tasks'[1] = u
  BY <1>5, <1>7
<1> HIDE DEF u
<1>11. tasks' = AddTop(tasks, u)
  <2> DEFINE us == AddTop(tasks, u)
  <2>1. /\ us \in Seq(Task) /\ Len(us) = Len(tasks) + 1 /\ us[1] = u
        /\ \A i \in 1 .. Len(tasks) : us[i + 1] = tasks[i]
    <3>1. /\ AddTop(tasks, u) \in Seq(Task)
          /\ Len(AddTop(tasks, u)) = Len(tasks) + 1
          /\ AddTop(tasks, u)[1] = u
          /\ \A i \in 1 .. Len(tasks) : AddTop(tasks, u)[i + 1] = tasks[i]
      BY <1>1, <1>7, AddTopFacts
    <3> QED  BY <3>1
  <2> HIDE DEF us
  <2>2. ASSUME NEW i \in 1 .. Len(us) PROVE tasks'[i] = us[i]
    <3>1. CASE i = 1
      BY <1>10, <2>1, <3>1
    <3>2. CASE i # 1
      <4>1. i - 1 \in 1 .. Len(tasks) /\ (i - 1) + 1 = i
        BY <1>5, <2>1, <3>2
      <4>2. us[i] = tasks[i - 1] /\ ts[i] = tasks[i - 1]
        BY <1>4, <2>1, <4>1
      <4> QED  BY <1>4, <1>7, <2>1, <3>2, <4>2
    <3> QED  BY <3>1, <3>2
  <2>3. tasks' \in Seq(Task) /\ us \in Seq(Task)
    BY <1>7, <2>1
  <2>4. Len(tasks') = Len(us)
    BY <1>4, <1>7, <2>1
  <2>5. tasks' = us
    BY <2>2, <2>3, <2>4, SeqEqual
  <2> QED  BY <2>5 DEF us
<1> QED  BY <1>7, <1>9, <1>11

(* RecalcPrios touches schedprio only.                                      *)
LEMMA RecalcFacts ==
    ASSUME NEW ts \in Seq(Task)
    PROVE  /\ RecalcPrios(ts) \in Seq(Task) /\ Len(RecalcPrios(ts)) = Len(ts)
           /\ \A i \in 1 .. Len(ts) :
                 RecalcPrios(ts)[i] = [ts[i] EXCEPT !.schedprio = CalcPrio(ts, ts[i])]
<1>1. Len(ts) \in Nat /\ \A i \in 1 .. Len(ts) : ts[i] \in Task
  BY LenProperties, ElementOfSeq
<1>2. \A i \in 1 .. Len(ts) : CalcPrio(ts, ts[i]) \in Int
  BY CalcPrioInt
<1>3. \A i \in 1 .. Len(ts) : [ts[i] EXCEPT !.schedprio = CalcPrio(ts, ts[i])] \in Task
  BY <1>1, <1>2 DEF Task
<1> QED  BY <1>1, <1>3 DEF RecalcPrios

(* What a task is worth on CPU c, whatever its plugin.                      *)
OnCpu(t, c) == IF t.cpu = c THEN t.util ELSE 0

(* The ledgers, entry by entry, when an amount is put into them.            *)
LEMMA EntryFacts ==
    ASSUME NEW C, NEW f \in [C -> Int], NEW c \in C, NEW x \in Int
    PROVE  /\ [f EXCEPT ![c] = @ + x] \in [C -> Int]
           /\ \A d \in C : [f EXCEPT ![c] = @ + x][d] = IF d = c THEN f[d] + x ELSE f[d]
OBVIOUS

LEMMA EntryFacts2 ==
    ASSUME NEW P, NEW C, NEW f \in [P -> [C -> Int]], NEW p \in P, NEW c \in C, NEW x \in Int
    PROVE  /\ [f EXCEPT ![p][c] = @ + x] \in [P -> [C -> Int]]
           /\ \A q \in P, d \in C :
                 [f EXCEPT ![p][c] = @ + x][q][d] = IF q = p /\ d = c THEN f[q][d] + x
                                                                   ELSE f[q][d]
<1> DEFINE g == [f[p] EXCEPT ![c] = @ + x]
<1>1. g \in [C -> Int] /\ \A d \in C : g[d] = IF d = c THEN f[p][d] + x ELSE f[p][d]
  OBVIOUS
<1>2. [f EXCEPT ![p][c] = @ + x] = [f EXCEPT ![p] = g]
  OBVIOUS
<1> HIDE DEF g
<1>3. [f EXCEPT ![p] = g] \in [P -> [C -> Int]]
  BY <1>1
<1>4. \A q \in P : [f EXCEPT ![p] = g][q] = IF q = p THEN g ELSE f[q]
  OBVIOUS
<1> QED  BY <1>1, <1>2, <1>3, <1>4

(* The ledgers when a task's utilization is given back, and when it is      *)
(* taken.                                                                   *)
LEMMA GiveBackFacts ==
    ASSUME TypeOK, NEW t \in Task, GiveBack(t)
    PROVE  /\ free' \in [CPUs -> Int] /\ used' \in [Plugins -> [CPUs -> Int]]
           /\ \A p \in Plugins, c \in CPUs : used'[p][c] = used[p][c] - Part(t, p, c)
           /\ \A c \in CPUs : free'[c] = free[c] + OnCpu(t, c)
<1>1. /\ t.pluginid \in Plugins /\ t.cpu \in CPUs /\ t.util \in Int /\ 0 - t.util \in Int
      /\ free \in [CPUs -> Int] /\ used \in [Plugins -> [CPUs -> Int]]
  BY DEF Task, TypeOK
<1>2. \A q \in Plugins, d \in CPUs : used[q][d] \in Int
  BY <1>1
<1>3. free' = [free EXCEPT ![t.cpu] = @ + t.util]
  BY DEF GiveBack
<1>4. used' = [used EXCEPT ![t.pluginid][t.cpu] = @ + (0 - t.util)]
  <2> DEFINE old == used[t.pluginid][t.cpu]
  <2>1. old - t.util = old + (0 - t.util)
    BY <1>1, <1>2
  <2>2. used' = [used EXCEPT ![t.pluginid][t.cpu] = old - t.util]
    BY DEF GiveBack
  <2> QED  BY <2>1, <2>2
<1>5. /\ used' \in [Plugins -> [CPUs -> Int]]
      /\ \A q \in Plugins, d \in CPUs :
            used'[q][d] = IF q = t.pluginid /\ d = t.cpu THEN used[q][d] + (0 - t.util)
                                                          ELSE used[q][d]
  BY <1>1, <1>4, EntryFacts2
<1>6. /\ free' \in [CPUs -> Int]
      /\ \A d \in CPUs : free'[d] = IF d = t.cpu THEN free[d] + t.util ELSE free[d]
  BY <1>1, <1>3, EntryFacts
<1>7. \A p \in Plugins, c \in CPUs : used'[p][c] = used[p][c] - Part(t, p, c)
  BY <1>1, <1>2, <1>5 DEF Part
<1>8. \A c \in CPUs : free'[c] = free[c] + OnCpu(t, c)
  BY <1>1, <1>6 DEF OnCpu
<1> QED  BY <1>5, <1>6, <1>7, <1>8

LEMMA TakeFacts ==
    ASSUME TypeOK, NEW t \in Task, NEW p \in Plugins, NEW c \in CPUs, Assign(t, p, c),
           NEW u \in Task, u.cpu = c, u.pluginid = p, u.util = t.util
    PROVE  /\ free' \in [CPUs -> Int] /\ used' \in [Plugins -> [CPUs -> Int]]
           /\ \A q \in Plugins, d \in CPUs : used'[q][d] = used[q][d] + Part(u, q, d)
           /\ \A d \in CPUs : free'[d] = free[d] - OnCpu(u, d)
<1>0. t.util \in Nat
  BY DEF Task
<1>1. /\ t.util \in Int /\ 0 - t.util \in Int
      /\ free \in [CPUs -> Int] /\ used \in [Plugins -> [CPUs -> Int]]
  BY <1>0 DEF TypeOK
<1>2. /\ \A d \in CPUs : free[d] \in Int
      /\ \A q \in Plugins, d \in CPUs : used[q][d] \in Int
  BY <1>1
<1>3. free' = [free EXCEPT ![c] = @ + (0 - t.util)]
  <2>1. free[c] - t.util = free[c] + (0 - t.util)
    BY <1>0, <1>2
  <2>2. free' = [free EXCEPT ![c] = free[c] - t.util]
    BY DEF Assign
  <2> QED  BY <2>1, <2>2
<1>4. used' = [used EXCEPT ![p][c] = @ + t.util]
  BY DEF Assign
<1>5. /\ used' \in [Plugins -> [CPUs -> Int]]
      /\ \A q \in Plugins, d \in CPUs :
            used'[q][d] = IF q = p /\ d = c THEN used[q][d] + t.util ELSE used[q][d]
  BY <1>1, <1>4, EntryFacts2
<1>6. /\ free' \in [CPUs -> Int]
      /\ \A d \in CPUs : free'[d] = IF d = c THEN free[d] + (0 - t.util) ELSE free[d]
  BY <1>1, <1>3, EntryFacts
<1>7. \A q \in Plugins, d \in CPUs : used'[q][d] = used[q][d] + Part(u, q, d)
  BY <1>1, <1>2, <1>5 DEF Part
<1>8. \A d \in CPUs : free'[d] = free[d] - OnCpu(u, d)
  BY <1>1, <1>2, <1>6 DEF OnCpu
<1> QED  BY <1>5, <1>6, <1>7, <1>8

(* One creation: the new task is on top of the list, in the ledgers, and    *)
(* within what its CPU had left.                                            *)
LEMMA CreateFacts ==
    ASSUME TypeOK, NEW par \in Params, NEW ppid \in Pids, NEW est \in Estimates,
           NEW wa, RsvCreate(par, ppid, est, wa)
    PROVE  \E u \in Task :
              /\ u.id = next_rsv_id + 1 /\ u.wcet = par.budget /\ u.period = par.period
              /\ u.util = TaskUtil(u, est) /\ u.util <= free[u.cpu]
              /\ tasks' = AddTop(tasks, u)
              /\ free' \in [CPUs -> Int] /\ used' \in [Plugins -> [CPUs -> Int]]
              /\ \A q \in Plugins, d \in CPUs : used'[q][d] = used[q][d] + Part(u, q, d)
              /\ \A d \in CPUs : free'[d] = free[d] - OnCpu(u, d)
<1> DEFINE t == NewTask(par, ppid, est)
           best == BestPlugins(tasks, t, free, wa)
           p == Min(best)
           c == Min(TestCpus(p, tasks, t, free, wa))
<1>1. best # {} /\ Assign(t, p, c)
  BY DEF RsvCreate
<1>2. t \in Task /\ t.id = next_rsv_id + 1
  BY NewTaskFacts
<1>3. t.wcet = par.budget /\ t.period = par.period
  BY DEF NewTask
<1>4. t.util = TaskUtil(t, est)
  BY DEF NewTask, TaskUtil
<1> HIDE DEF t
<1>5. p \in Plugins /\ c \in CPUs /\ t.util <= free[c]
  BY <1>1, BestFacts
<1> HIDE DEF p, c
<1>6. PICK u \in Task :
         /\ u.id = t.id /\ u.cpu = c /\ u.pluginid = p /\ u.util = t.util
         /\ u.wcet = t.wcet /\ u.period = t.period
         /\ tasks' = AddTop(tasks, u)
  BY <1>1, <1>2, <1>5, AssignFacts
<1>7. /\ free' \in [CPUs -> Int] /\ used' \in [Plugins -> [CPUs -> Int]]
      /\ \A q \in Plugins, d \in CPUs : used'[q][d] = used[q][d] + Part(u, q, d)
      /\ \A d \in CPUs : free'[d] = free[d] - OnCpu(u, d)
  BY <1>1, <1>2, <1>5, <1>6, TakeFacts
<1>8. TaskUtil(u, est) = TaskUtil(t, est)
  BY <1>6 DEF TaskUtil
<1> QED  BY <1>2, <1>3, <1>4, <1>5, <1>6, <1>7, <1>8

(* What the kernel keeps for each thread.                                   *)
KernelType == [Threads -> [affinity : CPUs \cup {AllCpus},
                           policy : {"OTHER", "DEADLINE", "FIFO", "RR"}, prio : Int]]

LEMMA SetThreadFacts ==
    ASSUME kernel \in KernelType, NEW th \in Threads,
           NEW affinity \in CPUs \cup {AllCpus},
           NEW policy \in {"OTHER", "DEADLINE", "FIFO", "RR"}, NEW prio \in Int,
           NEW done \in 0 .. 2, SetThread(th, affinity, policy, prio, done)
    PROVE  kernel' \in KernelType
<1>1. CASE done = 0  BY <1>1 DEF SetThread
<1>2. CASE done = 1  BY <1>2 DEF SetThread, KernelType
<1>3. CASE done = 2  BY <1>3 DEF SetThread, KernelType
<1> QED  BY <1>1, <1>2, <1>3

(* One single refresh: one task has a new utilization and the plugin's      *)
(* share follows it.                                                        *)
LEMMA RefreshFacts ==
    ASSUME TypeOK, NEW rsvid, NEW est \in Estimates, RefreshSingle(rsvid, est)
    PROVE  \E k \in 1 .. Len(tasks), u \in Task :
              /\ u.id = tasks[k].id /\ u.ptid = tasks[k].ptid
              /\ u.cpu = tasks[k].cpu /\ u.pluginid = tasks[k].pluginid /\ u.tid = tasks[k].tid
              /\ u.wcet = tasks[k].wcet /\ u.period = tasks[k].period
              /\ u.deadline = tasks[k].deadline /\ u.util = TaskUtil(tasks[k], est)
              /\ tasks' \in Seq(Task) /\ Len(tasks') = Len(tasks)
              /\ \A j \in 1 .. Len(tasks) : tasks'[j] = IF j = k THEN u ELSE tasks[j]
              /\ used' \in [Plugins -> [CPUs -> Int]]
              /\ \A q \in Plugins, d \in CPUs :
                    used'[q][d] = used[q][d] - Part(tasks[k], q, d) + Part(u, q, d)
<1> DEFINE k == SearchIndex(tasks, IndexesByRsvid(tasks, rsvid))
           old == tasks[k]
           t == [old EXCEPT !.util = TaskUtil(old, est)]
           ts == [tasks EXCEPT ![k] = t]
           x == CalcPrio(ts, t)
           u == [t EXCEPT !.schedprio = x]
<1>1. /\ k # 0
      /\ used' = [used EXCEPT ![t.pluginid][t.cpu] = @ - tasks[k].util + t.util]
      /\ tasks' = [ts EXCEPT ![k].schedprio = x]
  BY DEF RefreshSingle
<1>2. tasks \in Seq(Task) /\ used \in [Plugins -> [CPUs -> Int]] /\ Len(tasks) \in Nat
  BY LenProperties DEF TypeOK
<1>3. k \in 1 .. Len(tasks)
  <2>1. k \in 0 .. Len(tasks)
    BY <1>2, IndexFacts
  <2> QED  BY <1>1, <1>2, <2>1
<1> HIDE DEF k
<1>4. old \in Task
  BY <1>2, <1>3, ElementOfSeq
<1> HIDE DEF old
<1>5. TaskUtil(old, est) \in Nat
  BY <1>4, TaskUtilNat DEF Task
<1>6. /\ t \in Task
      /\ t.id = old.id /\ t.ptid = old.ptid /\ t.cpu = old.cpu /\ t.pluginid = old.pluginid
      /\ t.wcet = old.wcet /\ t.period = old.period /\ t.util = TaskUtil(old, est)
      /\ t.deadline = old.deadline /\ t.tid = old.tid
  BY <1>4, <1>5 DEF Task
<1> HIDE DEF t
<1>7. /\ ts \in Seq(Task) /\ Len(ts) = Len(tasks)
      /\ \A j \in 1 .. Len(tasks) : ts[j] = IF j = k THEN t ELSE tasks[j]
  BY <1>2, <1>3, <1>6, ExceptSeq
<1>8. k \in 1 .. Len(ts) /\ ts[k] = t
  BY <1>3, <1>7
<1> HIDE DEF ts
<1>9. x \in Int
  BY <1>7, <1>8, CalcPrioInt
<1> HIDE DEF x
<1>10. /\ u \in Task /\ tasks' \in Seq(Task) /\ Len(tasks') = Len(ts)
       /\ \A j \in 1 .. Len(ts) : tasks'[j] = IF j = k THEN u ELSE ts[j]
  BY <1>1, <1>7, <1>8, <1>9, ReprioFacts
<1>11. /\ u.id = t.id /\ u.ptid = t.ptid /\ u.cpu = t.cpu /\ u.pluginid = t.pluginid
       /\ u.wcet = t.wcet /\ u.period = t.period /\ u.util = t.util
       /\ u.deadline = t.deadline /\ u.tid = t.tid
  BY <1>6 DEF Task
<1> HIDE DEF u
<1>12. \A j \in 1 .. Len(tasks) : tasks'[j] = IF j = k THEN u ELSE tasks[j]
  BY <1>7, <1>10
<1>13. /\ t.pluginid \in Plugins /\ t.cpu \in CPUs /\ t.util \in Int /\ old.util \in Int
       /\ t.util - old.util \in Int
  BY <1>4, <1>6 DEF Task
<1>14. used' = [used EXCEPT ![t.pluginid][t.cpu] = @ + (t.util - old.util)]
  <2> DEFINE was == used[t.pluginid][t.cpu]
  <2>1. was - old.util + t.util = was + (t.util - old.util)
    BY <1>2, <1>13
  <2>2. used' = [used EXCEPT ![t.pluginid][t.cpu] = was - old.util + t.util]
    BY <1>1 DEF old
  <2> QED  BY <2>1, <2>2
<1>15. /\ used' \in [Plugins -> [CPUs -> Int]]
       /\ \A q \in Plugins, d \in CPUs :
             used'[q][d] = IF q = t.pluginid /\ d = t.cpu
                           THEN used[q][d] + (t.util - old.util) ELSE used[q][d]
  BY <1>2, <1>13, <1>14, EntryFacts2
<1>16. \A q \in Plugins, d \in CPUs : used[q][d] \in Int
  BY <1>2
<1>17. ASSUME NEW q \in Plugins, NEW d \in CPUs
       PROVE  used'[q][d] = used[q][d] - Part(old, q, d) + Part(u, q, d)
  BY <1>6, <1>11, <1>13, <1>15, <1>16 DEF Part
<1> QED  BY <1>3, <1>6, <1>7, <1>10, <1>11, <1>12, <1>15, <1>17 DEF old

(* One removal, as destroy and the purge do it.                             *)
LEMMA RemoveFacts ==
    ASSUME TypeOK, NEW hits, NEW k, k = RemoveIndex(tasks, hits), k # 0
    PROVE  k \in 1 .. Len(tasks) /\ tasks[k] \in Task
<1>1. tasks \in Seq(Task) /\ Len(tasks) \in Nat
  BY LenProperties DEF TypeOK
<1>2. k \in 0 .. Len(tasks)
  BY <1>1, IndexFacts
<1>3. k \in 1 .. Len(tasks)
  BY <1>1, <1>2
<1> QED  BY <1>1, <1>3, ElementOfSeq

(* One attach: one task has a new thread.                                   *)
LEMMA AttachFacts ==
    ASSUME TypeOK, NEW rsvid, NEW th \in Tids, NEW done \in 0 .. 2, RsvAttach(rsvid, th, done)
    PROVE  \E k \in 1 .. Len(tasks) :
              /\ tasks' = [tasks EXCEPT ![k] = [tasks[k] EXCEPT !.tid = th]]
              /\ [tasks[k] EXCEPT !.tid = th] \in Task
              /\ tasks' \in Seq(Task) /\ Len(tasks') = Len(tasks)
              /\ \A j \in 1 .. Len(tasks) :
                    tasks'[j] = IF j = k THEN [tasks[k] EXCEPT !.tid = th] ELSE tasks[j]
              /\ Schedule(tasks'[k], done)
<1> DEFINE k == IterIndex(tasks, rsvid)
           u == [tasks[k] EXCEPT !.tid = th]
<1>1. k # 0 /\ tasks' = [tasks EXCEPT ![k] = u] /\ Schedule(tasks'[k], done)
  BY DEF RsvAttach
<1>2. tasks \in Seq(Task) /\ Len(tasks) \in Nat
  BY LenProperties DEF TypeOK
<1>3. k \in 1 .. Len(tasks)
  <2>1. k \in 0 .. Len(tasks)
    BY <1>2, IndexFacts
  <2> QED  BY <1>1, <1>2, <2>1
<1> HIDE DEF k
<1>4. tasks[k] \in Task
  BY <1>2, <1>3, ElementOfSeq
<1>5. u \in Task
  BY <1>4 DEF Task, Threads
<1> HIDE DEF u
<1>6. /\ tasks' \in Seq(Task) /\ Len(tasks') = Len(tasks)
      /\ \A j \in 1 .. Len(tasks) : tasks'[j] = IF j = k THEN u ELSE tasks[j]
  BY <1>1, <1>2, <1>3, <1>5, ExceptSeq
<1> QED  BY <1>1, <1>3, <1>5, <1>6 DEF u

----------------------------------------------------------------------------
(* TYPES *)

(* The remaining utilization a capacity query adds up.                      *)
LEMMA RemainingUtilInt ==
    ASSUME TypeOK
    PROVE  RemainingUtil \in Int
<1> DEFINE a == [n \in Nat |-> IF n \in 1 .. cpunum THEN free[n - 1] ELSE 0]
<1>1. \A n \in 1 .. cpunum : n - 1 \in CPUs
  BY PluginAssumption DEF CPUs
<1>2. a \in [Nat -> Int]
  BY <1>1 DEF TypeOK
<1>3. RemainingUtil = PrefixSum(a)[cpunum]
  BY DEF RemainingUtil
<1> HIDE DEF a
<1> QED  BY <1>2, <1>3, PrefixSumEquations, PluginAssumption

(* The number of plugins a system refresh finds overloaded.                 *)
LEMMA OverloadedInt ==
    ASSUME NEW S \in SUBSET Plugins
    PROVE  Cardinality(S) \in Int
<1>1. IsFiniteSet(0 .. 3)
  <2>1. 0 \in Int /\ 3 \in Int
    OBVIOUS
  <2> QED  BY <2>1, FS_Interval, Zenon
<1>2. S \subseteq 0 .. 3
  BY DEF Plugins, EDF, SSRM, FP, RR
<1>3. IsFiniteSet(S)
  BY <1>1, <1>2, FS_Subset
<1> QED  BY <1>3, FS_CardinalityType

(* A step of any handler keeps the types of the scheduler's state.          *)
LEMMA TypeStep ==
    ASSUME TypeOK, [Next]_vars
    PROVE  TypeOK'
<1> USE DEF TypeOK
<1>0. CASE UNCHANGED vars
  BY <1>0 DEF vars
<1>1. ASSUME NEW par \in Params, NEW ppid \in Pids, NEW est \in Estimates,
             NEW wa \in [CPUs -> BOOLEAN], RsvCreate(par, ppid, est, wa)
      PROVE  TypeOK'
  <2>1. PICK u \in Task :
           /\ tasks' = AddTop(tasks, u)
           /\ free' \in [CPUs -> Int] /\ used' \in [Plugins -> [CPUs -> Int]]
    BY <1>1, CreateFacts
  <2>2. tasks' \in Seq(Task)
    BY <2>1, AddTopFacts
  <2>3. /\ next_rsv_id' \in Nat /\ UNCHANGED <<kernel, pc, victim>>
        /\ reply' = ReplyWith("RSV_CREATE_OK", next_rsv_id')
    BY <1>1 DEF RsvCreate
  <2> QED  BY <2>1, <2>2, <2>3 DEF ReplyWith, RepTypes
<1>2. ASSUME NEW par \in Params, NEW ppid \in Pids, NEW est \in Estimates,
             RsvCreateSpins(par, ppid, est)
      PROVE  TypeOK'
  BY <1>2 DEF RsvCreateSpins
<1>3. CASE RsvCreateFails
  BY <1>3 DEF RsvCreateFails, ReplyWith, RepTypes
<1>4. CASE Spin
  BY <1>4 DEF Spin, vars
<1>5. ASSUME NEW rsvid \in 1 .. MaxRsv, NEW done \in 0 .. 2, NEW th \in Tids,
             RsvAttach(rsvid, th, done)
      PROVE  TypeOK'
  <2>1. PICK k \in 1 .. Len(tasks) :
           /\ tasks' \in Seq(Task) /\ Len(tasks') = Len(tasks) /\ Schedule(tasks'[k], done)
    BY <1>5, AttachFacts
  <2>2. tasks'[k] \in Task
    BY <2>1, ElementOfSeq
  <2> DEFINE t == tasks'[k]
             prio == IF t.pluginid = EDF THEN 0 ELSE t.schedprio
  <2>0. kernel \in KernelType
    BY DEF KernelType
  <2> HIDE DEF TypeOK
  <2>3. /\ t.tid \in Threads /\ t.cpu \in CPUs \cup {AllCpus} /\ prio \in Int
        /\ t.pluginid \in Plugins
    <3> HIDE DEF t
    <3>1. t \in Task
      BY <2>2 DEF t
    <3>2. t.tid \in Threads /\ t.cpu \in CPUs /\ t.pluginid \in Plugins /\ t.schedprio \in Int
      BY <3>1 DEF Task
    <3> QED  BY <3>2
  <2>4. SetThread(t.tid, t.cpu, Policy(t.pluginid), prio, done)
    BY <2>1 DEF Schedule
  <2> HIDE DEF t, prio
  <2>5. Policy(t.pluginid) \in {"OTHER", "DEADLINE", "FIFO", "RR"}
    BY <2>3 DEF Policy, Plugins, EDF, SSRM, FP, RR
  <2>6. kernel' \in KernelType
    BY <2>0, <2>3, <2>4, <2>5, SetThreadFacts
  <2>7. UNCHANGED <<next_rsv_id, free, used, pc, victim>>
    BY <1>5 DEF RsvAttach
  <2>8. reply' \in [rep_type : RepTypes, payload : Int]
    BY <1>5 DEF RsvAttach, Reply, RepTypes
  <2> QED  BY <2>1, <2>6, <2>7, <2>8 DEF KernelType, TypeOK
<1>6. ASSUME NEW rsvid \in 1 .. MaxRsv, NEW done \in 0 .. 2, RsvDetach(rsvid, done)
      PROVE  TypeOK'
  <2> DEFINE k == IterIndex(tasks, rsvid)
  <2>1. k # 0 /\ Deschedule(tasks[k], done)
    BY <1>6 DEF RsvDetach
  <2>2. k \in 1 .. Len(tasks)
    <3>1. k \in 0 .. Len(tasks) /\ Len(tasks) \in Nat
      BY IndexFacts, LenProperties
    <3> HIDE DEF k
    <3> QED  BY <2>1, <3>1
  <2> HIDE DEF k
  <2>3. tasks[k].tid \in Threads
    <3>1. tasks[k] \in Task
      BY <2>2, ElementOfSeq
    <3> QED  BY <3>1 DEF Task
  <2>4. kernel' \in KernelType
    <3>1. kernel \in KernelType
      BY DEF KernelType
    <3>2. SetThread(tasks[k].tid, AllCpus, "OTHER", 0, done)
      BY <2>1 DEF Deschedule
    <3>3. /\ AllCpus \in CPUs \cup {AllCpus} /\ 0 \in Int /\ done \in 0 .. 2
          /\ "OTHER" \in {"OTHER", "DEADLINE", "FIFO", "RR"}
      OBVIOUS
    <3> QED  BY <2>3, <3>1, <3>2, <3>3, SetThreadFacts, Zenon
  <2>5. UNCHANGED <<book, pc, victim>>
    BY <1>6 DEF RsvDetach
  <2>6. reply' \in [rep_type : RepTypes, payload : Int]
    BY <1>6 DEF RsvDetach, Reply, RepTypes
  <2> QED  BY <2>4, <2>5, <2>6 DEF KernelType, book
<1>7. ASSUME NEW rsvid \in 1 .. MaxRsv, NEW type \in {"RSV_ATTACH_ERR", "RSV_DETACH_ERR"},
             NoSuchRsv(rsvid, type)
      PROVE  TypeOK'
  BY <1>7 DEF NoSuchRsv, Reply, RepTypes, book
<1>8. ASSUME NEW rsvid \in 1 .. MaxRsv, RsvDestroy(rsvid)
      PROVE  TypeOK'
  <2> DEFINE k == RemoveIndex(tasks, IndexesByRsvid(tasks, rsvid))
  <2>1. k # 0 /\ tasks' = RemoveAt(tasks, k) /\ GiveBack(tasks[k])
    BY <1>8 DEF RsvDestroy
  <2>2. k \in 1 .. Len(tasks) /\ tasks[k] \in Task
    BY <2>1, RemoveFacts
  <2> HIDE DEF k
  <2>3. tasks' \in Seq(Task)
    BY <2>1, <2>2, RemoveAtFacts
  <2>4. free' \in [CPUs -> Int] /\ used' \in [Plugins -> [CPUs -> Int]]
    BY <2>1, <2>2, GiveBackFacts
  <2>5. UNCHANGED <<next_rsv_id, kernel, pc, victim>> /\ reply' = Reply("RSV_DESTROY_OK")
    BY <1>8 DEF RsvDestroy
  <2> QED  BY <2>3, <2>4, <2>5 DEF Reply, RepTypes
<1>9. ASSUME NEW rsvid \in 1 .. MaxRsv, RsvDestroyFails(rsvid)
      PROVE  TypeOK'
  BY <1>9 DEF RsvDestroyFails, Reply, RepTypes, book
<1>10. ASSUME NEW rsvid \in 1 .. MaxRsv, NEW est \in Estimates, RefreshSingle(rsvid, est)
       PROVE  TypeOK'
  <2>1. tasks' \in Seq(Task) /\ used' \in [Plugins -> [CPUs -> Int]]
    BY <1>10, RefreshFacts
  <2>2. UNCHANGED <<next_rsv_id, free, kernel, pc, victim>>
    BY <1>10 DEF RefreshSingle
  <2>3. reply' \in {Reply("REFRESH_SINGLE_OVL"), Reply("REFRESH_SINGLE_OK")}
    BY <1>10 DEF RefreshSingle
  <2> QED  BY <2>1, <2>2, <2>3 DEF Reply, RepTypes
<1>11. ASSUME NEW rsvid \in 1 .. MaxRsv, RefreshSingleFails(rsvid)
       PROVE  TypeOK'
  BY <1>11 DEF RefreshSingleFails, Reply, RepTypes, book
<1>12. CASE RefreshSys
  <2> DEFINE S == {p \in Plugins : \E c \in CPUs : used'[p][c] > Scale}
             overl == Cardinality(S)
  <2>1. /\ used' = [p \in Plugins |-> [c \in CPUs |-> UtilSum(tasks, p, c)]]
        /\ tasks' = RecalcPrios(tasks)
        /\ UNCHANGED <<next_rsv_id, free, kernel, pc, victim>>
    BY <1>12 DEF RefreshSys
  <2>2. reply' = ReplyWith(IF overl < 0 THEN "REFRESH_SYS_OVL" ELSE "REFRESH_SYS_OK", -overl)
    BY <1>12 DEF RefreshSys
  <2>3. overl \in Int
    BY OverloadedInt
  <2> HIDE DEF overl
  <2>4. \A t \in Task : t.util \in Int
    BY DEF Task
  <2>5. used' \in [Plugins -> [CPUs -> Int]]
    BY <2>1, <2>4, UtilSumInt
  <2>6. tasks' \in Seq(Task)
    BY <2>1, RecalcFacts
  <2>7. reply' \in [rep_type : RepTypes, payload : Int]
    BY <2>2, <2>3 DEF ReplyWith, RepTypes
  <2> QED  BY <2>1, <2>5, <2>6, <2>7
<1>13. CASE CapQuery
  <2>1. cpunum * SysUtil \in Int
    BY PluginAssumption, SchedulerAssumption
  <2>2. UNCHANGED <<next_rsv_id, tasks, free, used, kernel, pc, victim>>
    BY <1>13 DEF CapQuery, book
  <2>3. reply' \in [rep_type : RepTypes, payload : Int]
    BY <1>13, <2>1, RemainingUtilInt DEF CapQuery, Reply, ReplyWith, RepTypes
  <2> QED  BY <2>2, <2>3
<1>14. ASSUME NEW ppid \in Pids, Delete(ppid)
       PROVE  TypeOK'
  BY <1>14 DEF Delete, book
<1>15. CASE DeleteTurn
  <2> DEFINE k == RemoveIndex(tasks, IndexesByPpid(tasks, victim))
  <2>1. k # 0 /\ tasks' = RemoveAt(tasks, k) /\ GiveBack(tasks[k])
    BY <1>15 DEF DeleteTurn
  <2>2. k \in 1 .. Len(tasks) /\ tasks[k] \in Task
    BY <2>1, RemoveFacts
  <2> HIDE DEF k
  <2>3. tasks' \in Seq(Task)
    BY <2>1, <2>2, RemoveAtFacts
  <2>4. free' \in [CPUs -> Int] /\ used' \in [Plugins -> [CPUs -> Int]]
    BY <2>1, <2>2, GiveBackFacts
  <2>5. UNCHANGED <<next_rsv_id, kernel, pc, victim, reply>>
    BY <1>15 DEF DeleteTurn
  <2> QED  BY <2>3, <2>4, <2>5
<1>16. CASE DeleteEnds
  BY <1>16 DEF DeleteEnds, book
<1> QED
  BY <1>0, <1>1, <1>2, <1>3, <1>4, <1>5, <1>6, <1>7, <1>8, <1>9, <1>10, <1>11, <1>12,
     <1>13, <1>14, <1>15, <1>16 DEF Next

LEMMA TypeInit ==
    ASSUME Init
    PROVE  TypeOK
<1>1. 0 \in Int /\ SysUtil \in Int
  BY SchedulerAssumption, PluginAssumption
<1>2. Untouched \in [affinity : CPUs \cup {AllCpus},
                     policy : {"OTHER", "DEADLINE", "FIFO", "RR"}, prio : Int]
  BY DEF Untouched
<1> QED  BY <1>1, <1>2 DEF Init, TypeOK, Reply, RepTypes

(* The state of the scheduler always has the types of its structs: every    *)
(* utilization, priority and index the handlers compute is a number, and no *)
(* list operation leaves the list.                                          *)
THEOREM Types == Spec => []TypeOK
<1>1. Init => TypeOK
  BY TypeInit
<1>2. TypeOK /\ [Next]_vars => TypeOK'
  BY TypeStep
<1> QED  BY <1>1, <1>2, PTL DEF Spec

----------------------------------------------------------------------------
(* THE THREADS *)
(* What attach and detach do to the threads of the clients and to the      *)
(* daemon itself, whichever of their system calls fail.                    *)

(* A step applies one attach to the thread it records, one detach to the    *)
(* thread recorded earlier, or leaves the kernel alone.                     *)
Attach ==
    \E t \in Task, done \in 0 .. 2 : t.tid \in Tids /\ Schedule(t, done)

Detach ==
    \E t \in Task, done \in 0 .. 2 :
        /\ Deschedule(t, done)
        /\ reply' = Reply(IF done = 2 THEN "RSV_DETACH_OK" ELSE "RSV_DETACH_ERR")

AttachesOne ==
    \E rsvid \in 1 .. MaxRsv, done \in 0 .. 2, th \in Tids : RsvAttach(rsvid, th, done)

LEMMA KernelActions ==
    ASSUME TypeOK, [Next]_vars
    PROVE  AttachesOne \/ Detach \/ kernel' = kernel
<1>1. ASSUME NEW rsvid \in 1 .. MaxRsv, NEW done \in 0 .. 2, NEW th \in Tids,
             RsvAttach(rsvid, th, done)
      PROVE  AttachesOne
  BY <1>1 DEF AttachesOne
<1>2. ASSUME NEW rsvid \in 1 .. MaxRsv, NEW done \in 0 .. 2, RsvDetach(rsvid, done)
      PROVE  Detach
  <2> DEFINE k == IterIndex(tasks, rsvid)
  <2>1. k # 0 /\ Deschedule(tasks[k], done)
    BY <1>2 DEF RsvDetach
  <2>2. reply' = Reply(IF done = 2 THEN "RSV_DETACH_OK" ELSE "RSV_DETACH_ERR")
    BY <1>2 DEF RsvDetach
  <2>3. k \in 0 .. Len(tasks) /\ Len(tasks) \in Nat
    BY IndexFacts, LenProperties DEF TypeOK
  <2> HIDE DEF k
  <2>4. k \in 1 .. Len(tasks)
    BY <2>1, <2>3
  <2>5. tasks[k] \in Task
    BY <2>4, ElementOfSeq DEF TypeOK
  <2> QED  BY <2>1, <2>2, <2>5 DEF Detach
<1>3. ASSUME [Next]_vars, ~AttachesOne, ~Detach
      PROVE  kernel' = kernel
  BY <1>1, <1>2, <1>3
     DEF Next, vars, book, RsvCreate, RsvCreateSpins, RsvCreateFails, Spin, NoSuchRsv,
         RsvDestroy, RsvDestroyFails, RefreshSingle, RefreshSingleFails, RefreshSys,
         CapQuery, Delete, DeleteTurn, DeleteEnds
<1> QED  BY <1>3

LEMMA KernelKinds ==
    ASSUME TypeOK, [Next]_vars
    PROVE  Attach \/ Detach \/ kernel' = kernel
<1>1. ASSUME NEW rsvid \in 1 .. MaxRsv, NEW done \in 0 .. 2, NEW th \in Tids,
             RsvAttach(rsvid, th, done)
      PROVE  Attach
  <2>1. PICK k \in 1 .. Len(tasks) :
           /\ tasks' \in Seq(Task) /\ Len(tasks') = Len(tasks) /\ Schedule(tasks'[k], done)
           /\ tasks'[k] = [tasks[k] EXCEPT !.tid = th] /\ tasks'[k] \in Task
    BY <1>1, AttachFacts
  <2>2. tasks[k] \in Task
    BY ElementOfSeq DEF TypeOK
  <2>3. tasks'[k].tid = th
    BY <2>1, <2>2 DEF Task
  <2> QED  BY <2>1, <2>3 DEF Attach
<1> QED  BY <1>1, KernelActions DEF AttachesOne

(* Every reservation names a thread a client attached, or none.             *)
LEMMA KernelTyped ==
    ASSUME TypeOK, NEW t \in Task
    PROVE  kernel \in KernelType /\ t.tid \in Threads /\ t.cpu \in CPUs /\ t.cpu # AllCpus
BY PluginFacts DEF TypeOK, KernelType, Task

(* As long as no client attaches thread 0, the daemon keeps the policy and  *)
(* the affinity it started with, although detaching a reservation nothing   *)
(* was attached to is applied to thread 0.                                  *)
THEOREM DaemonPolicy == Daemon \notin Tids /\ Spec => []DaemonKeepsPolicy
<1> SUFFICES ASSUME Daemon \notin Tids PROVE Spec => []DaemonKeepsPolicy
  OBVIOUS
<1>1. Init => DaemonKeepsPolicy
  BY DEF Init, DaemonKeepsPolicy, Threads
<1>2. ASSUME TypeOK, DaemonKeepsPolicy, [Next]_vars
      PROVE  DaemonKeepsPolicy'
  <2>1. kernel[Daemon] = Untouched
    BY <1>2 DEF DaemonKeepsPolicy
  <2>2. CASE Attach
    <3>1. PICK t \in Task, done \in 0 .. 2 : t.tid \in Tids /\ Schedule(t, done)
      BY <2>2 DEF Attach
    <3>2. kernel'[Daemon] = kernel[Daemon]
      <4>1. kernel \in KernelType /\ t.tid # Daemon
        BY <1>2, <3>1, KernelTyped
      <4> QED  BY <3>1, <4>1 DEF Schedule, SetThread, KernelType
    <3> QED  BY <2>1, <3>2 DEF DaemonKeepsPolicy
  <2>3. CASE Detach
    <3>1. PICK t \in Task, done \in 0 .. 2 : SetThread(t.tid, AllCpus, "OTHER", 0, done)
      BY <2>3 DEF Detach, Deschedule
    <3>2. kernel \in KernelType /\ t.tid \in Threads
      BY <1>2, KernelTyped
    <3>3. kernel'[Daemon] = Untouched
      BY <2>1, <3>1, <3>2 DEF SetThread, KernelType, Untouched, Threads
    <3> QED  BY <3>3 DEF DaemonKeepsPolicy
  <2>4. CASE kernel' = kernel
    BY <2>1, <2>4 DEF DaemonKeepsPolicy
  <2> QED  BY <1>2, <2>2, <2>3, <2>4, KernelKinds
<1> QED  BY <1>1, <1>2, Types, PTL DEF Spec

(* Only a detach that fails between its two system calls leaves a thread    *)
(* with a real-time policy and free to leave its CPU: an attach pins the    *)
(* thread before it raises the policy, and nothing else touches a thread.   *)
THEOREM StrayThreads == Spec => StrayOnlyByFailedDetach
<1>1. ASSUME TypeOK, [Next]_vars
      PROVE  [\A th \in Threads : Stray(th)' /\ ~Stray(th)
                 => reply'.rep_type = "RSV_DETACH_ERR"]_vars
  <2> SUFFICES ASSUME NEW th \in Threads, Stray(th)', ~Stray(th)
               PROVE  reply'.rep_type = "RSV_DETACH_ERR"
    OBVIOUS
  <2>1. CASE Attach
    <3>1. PICK t \in Task, done \in 0 .. 2 : Schedule(t, done)
      BY <2>1 DEF Attach
    <3>2. kernel \in KernelType /\ t.tid \in Threads /\ t.cpu # AllCpus
      BY <1>1, KernelTyped
    <3>3. kernel'[th].affinity = AllCpus => kernel'[th] = kernel[th]
      BY <3>1, <3>2 DEF Schedule, SetThread, KernelType
    <3> QED  BY <3>3 DEF Stray
  <2>2. CASE Detach
    <3>1. PICK t \in Task, done \in 0 .. 2 :
             /\ SetThread(t.tid, AllCpus, "OTHER", 0, done)
             /\ reply' = Reply(IF done = 2 THEN "RSV_DETACH_OK" ELSE "RSV_DETACH_ERR")
      BY <2>2 DEF Detach, Deschedule
    <3>2. kernel \in KernelType /\ t.tid \in Threads
      BY <1>1, KernelTyped
    <3>3. CASE done = 2
      <4>1. kernel'[th].policy = "OTHER" \/ kernel'[th] = kernel[th]
        BY <3>1, <3>2, <3>3 DEF SetThread, KernelType
      <4> QED  BY <4>1 DEF Stray
    <3>4. CASE done # 2
      BY <3>1, <3>4 DEF Reply
    <3> QED  BY <3>3, <3>4
  <2>3. CASE kernel' = kernel
    BY <2>3 DEF Stray
  <2> QED  BY <1>1, <2>1, <2>2, <2>3, KernelKinds
<1> QED  BY <1>1, Types, PTL DEF Spec, StrayOnlyByFailedDetach

----------------------------------------------------------------------------
(* THE LEDGERS *)
(* What the plugins account for, what the CPUs have left, and the order of *)
(* the list both are computed from.                                        *)

(* What a step does to the list and to the ledgers is one of six things.    *)
Admits ==
    \E u \in Task, par \in Params, est \in Estimates :
        /\ u.id = next_rsv_id + 1 /\ u.wcet = par.budget /\ u.period = par.period
        /\ u.util = TaskUtil(u, est) /\ u.util <= free[u.cpu]
        /\ tasks' = AddTop(tasks, u)
        /\ \A q \in Plugins, d \in CPUs : used'[q][d] = used[q][d] + Part(u, q, d)
        /\ \A d \in CPUs : free'[d] = free[d] - OnCpu(u, d)
        /\ next_rsv_id' = next_rsv_id + 1

Removes ==
    \E k \in 1 .. Len(tasks) :
        /\ tasks[k] \in Task
        /\ tasks' = RemoveAt(tasks, k)
        /\ GiveBack(tasks[k])
        /\ next_rsv_id' = next_rsv_id

Revalues ==
    \E k \in 1 .. Len(tasks), u \in Task, est \in Estimates :
        /\ u.id = tasks[k].id /\ u.ptid = tasks[k].ptid
        /\ u.cpu = tasks[k].cpu /\ u.pluginid = tasks[k].pluginid
        /\ u.wcet = tasks[k].wcet /\ u.period = tasks[k].period
        /\ u.util = TaskUtil(tasks[k], est)
        /\ Len(tasks') = Len(tasks)
        /\ \A j \in 1 .. Len(tasks) : tasks'[j] = IF j = k THEN u ELSE tasks[j]
        /\ \A q \in Plugins, d \in CPUs :
              used'[q][d] = used[q][d] - Part(tasks[k], q, d) + Part(u, q, d)
        /\ UNCHANGED <<next_rsv_id, free>>
        /\ pc = "loop"
        /\ reply'.rep_type \in {"REFRESH_SINGLE_OK", "REFRESH_SINGLE_OVL"}

Attaches ==
    \E k \in 1 .. Len(tasks), th \in Tids :
        /\ Len(tasks') = Len(tasks)
        /\ \A j \in 1 .. Len(tasks) :
              tasks'[j] = IF j = k THEN [tasks[k] EXCEPT !.tid = th] ELSE tasks[j]
        /\ UNCHANGED <<next_rsv_id, free, used>>

Keeps ==
    /\ UNCHANGED <<tasks, free, used>>
    /\ next_rsv_id' \in {next_rsv_id, next_rsv_id + 1}

Creates ==
    \E par \in Params, ppid \in Pids, est \in Estimates, wa \in [CPUs -> BOOLEAN] :
        RsvCreate(par, ppid, est, wa)

RefreshesOne ==
    \E rsvid \in 1 .. MaxRsv, est \in Estimates : RefreshSingle(rsvid, est)

LEMMA StepCases ==
    ASSUME TypeOK, [Next]_vars
    PROVE  Creates \/ Removes \/ RefreshesOne \/ RefreshSys \/ AttachesOne \/ Keeps
<1>0. CASE UNCHANGED vars
  BY <1>0 DEF vars, Keeps
<1>1. ASSUME NEW par \in Params, NEW ppid \in Pids, NEW est \in Estimates,
             NEW wa \in [CPUs -> BOOLEAN], RsvCreate(par, ppid, est, wa)
      PROVE  Creates
  BY <1>1 DEF Creates
<1>2. ASSUME NEW par \in Params, NEW ppid \in Pids, NEW est \in Estimates,
             RsvCreateSpins(par, ppid, est)
      PROVE  Keeps
  BY <1>2 DEF RsvCreateSpins, Keeps
<1>3. CASE RsvCreateFails
  BY <1>3 DEF RsvCreateFails, Keeps
<1>4. CASE Spin
  BY <1>4 DEF Spin, vars, Keeps
<1>5. ASSUME NEW rsvid \in 1 .. MaxRsv, NEW done \in 0 .. 2, NEW th \in Tids,
             RsvAttach(rsvid, th, done)
      PROVE  AttachesOne
  BY <1>5 DEF AttachesOne
<1>6. ASSUME NEW rsvid \in 1 .. MaxRsv, NEW done \in 0 .. 2, RsvDetach(rsvid, done)
      PROVE  Keeps
  BY <1>6 DEF RsvDetach, Keeps, book
<1>7. ASSUME NEW rsvid \in 1 .. MaxRsv, NEW type, NoSuchRsv(rsvid, type)
      PROVE  Keeps
  BY <1>7 DEF NoSuchRsv, Keeps, book
<1>8. ASSUME NEW rsvid \in 1 .. MaxRsv, RsvDestroy(rsvid)
      PROVE  Removes
  <2> DEFINE k == RemoveIndex(tasks, IndexesByRsvid(tasks, rsvid))
  <2>1. k # 0 /\ tasks' = RemoveAt(tasks, k) /\ GiveBack(tasks[k]) /\ next_rsv_id' = next_rsv_id
    BY <1>8 DEF RsvDestroy
  <2>2. k \in 1 .. Len(tasks) /\ tasks[k] \in Task
    BY <2>1, RemoveFacts
  <2> HIDE DEF k
  <2> QED  BY <2>1, <2>2 DEF Removes
<1>9. ASSUME NEW rsvid \in 1 .. MaxRsv, RsvDestroyFails(rsvid)
      PROVE  Keeps
  BY <1>9 DEF RsvDestroyFails, Keeps, book
<1>10. ASSUME NEW rsvid \in 1 .. MaxRsv, NEW est \in Estimates, RefreshSingle(rsvid, est)
       PROVE  RefreshesOne
  BY <1>10 DEF RefreshesOne
<1>11. ASSUME NEW rsvid \in 1 .. MaxRsv, RefreshSingleFails(rsvid)
       PROVE  Keeps
  BY <1>11 DEF RefreshSingleFails, Keeps, book
<1>12. CASE CapQuery
  BY <1>12 DEF CapQuery, Keeps, book
<1>13. ASSUME NEW ppid \in Pids, Delete(ppid)
       PROVE  Keeps
  BY <1>13 DEF Delete, Keeps, book
<1>14. CASE DeleteTurn
  <2> DEFINE k == RemoveIndex(tasks, IndexesByPpid(tasks, victim))
  <2>1. k # 0 /\ tasks' = RemoveAt(tasks, k) /\ GiveBack(tasks[k]) /\ next_rsv_id' = next_rsv_id
    BY <1>14 DEF DeleteTurn
  <2>2. k \in 1 .. Len(tasks) /\ tasks[k] \in Task
    BY <2>1, RemoveFacts
  <2> HIDE DEF k
  <2> QED  BY <2>1, <2>2 DEF Removes
<1>15. CASE DeleteEnds
  BY <1>15 DEF DeleteEnds, Keeps, book
<1> QED
  BY <1>0, <1>1, <1>2, <1>3, <1>4, <1>5, <1>6, <1>7, <1>8, <1>9, <1>10, <1>11, <1>12,
     <1>13, <1>14, <1>15 DEF Next

LEMMA StepActions ==
    ASSUME TypeOK, [Next]_vars
    PROVE  Creates \/ Removes \/ RefreshesOne \/ RefreshSys \/ Attaches \/ Keeps
<1>1. ASSUME NEW rsvid \in 1 .. MaxRsv, NEW done \in 0 .. 2, NEW th \in Tids,
             RsvAttach(rsvid, th, done)
      PROVE  Attaches
  <2>1. UNCHANGED <<next_rsv_id, free, used>>
    BY <1>1 DEF RsvAttach
  <2>2. PICK k \in 1 .. Len(tasks) :
          /\ Len(tasks') = Len(tasks)
          /\ \A j \in 1 .. Len(tasks) :
                tasks'[j] = IF j = k THEN [tasks[k] EXCEPT !.tid = th] ELSE tasks[j]
    BY <1>1, AttachFacts
  <2> QED  BY <2>1, <2>2 DEF Attaches
<1> QED  BY <1>1, StepCases DEF AttachesOne

LEMMA StepKinds ==
    ASSUME TypeOK, [Next]_vars
    PROVE  Admits \/ Removes \/ Revalues \/ RefreshSys \/ Attaches \/ Keeps
<1>1. ASSUME NEW par \in Params, NEW ppid \in Pids, NEW est \in Estimates,
             NEW wa \in [CPUs -> BOOLEAN], RsvCreate(par, ppid, est, wa)
      PROVE  Admits
  <2>1. next_rsv_id' = next_rsv_id + 1
    BY <1>1 DEF RsvCreate
  <2> QED  BY <1>1, <2>1, CreateFacts DEF Admits
<1>2. ASSUME NEW rsvid \in 1 .. MaxRsv, NEW est \in Estimates, RefreshSingle(rsvid, est)
      PROVE  Revalues
  <2>1. UNCHANGED <<next_rsv_id, free>> /\ pc = "loop"
    BY <1>2 DEF RefreshSingle
  <2>2. reply'.rep_type \in {"REFRESH_SINGLE_OK", "REFRESH_SINGLE_OVL"}
    BY <1>2 DEF RefreshSingle, Reply
  <2> QED  BY <1>2, <2>1, <2>2, RefreshFacts DEF Revalues
<1> QED  BY <1>1, <1>2, StepActions DEF Creates, RefreshesOne

----------------------------------------------------------------------------
(* THE PLUGINS' LEDGERS *)

LEMMA TasksHaveUtil == \A t \in Task : t.util \in Int /\ t.util >= 0
BY DEF Task

LEMMA AccountingStep ==
    ASSUME TypeOK, TypeOK', PluginAccounting, [Next]_vars
    PROVE  PluginAccounting'
<1> SUFFICES ASSUME NEW p \in Plugins, NEW c \in CPUs
             PROVE  used'[p][c] = UtilSum(tasks', p, c)
  BY DEF PluginAccounting
<1>1. tasks \in Seq(Task) /\ tasks' \in Seq(Task) /\ \A t \in Task : t.util \in Int
  BY TasksHaveUtil DEF TypeOK
<1>2. used[p][c] = UtilSum(tasks, p, c)
  BY DEF PluginAccounting
<1>3. UtilSum(tasks, p, c) \in Int
  BY <1>1, UtilSumInt
<1>4. CASE Admits
  <2>1. PICK u \in Task : tasks' = AddTop(tasks, u) /\ used'[p][c] = used[p][c] + Part(u, p, c)
    BY <1>4 DEF Admits
  <2>2. UtilSum(AddTop(tasks, u), p, c) = Part(u, p, c) + UtilSum(tasks, p, c)
    BY <1>1, UtilSumAddTop
  <2>3. Part(u, p, c) \in Int
    BY <1>1 DEF Part
  <2> QED  BY <1>2, <1>3, <2>1, <2>2, <2>3
<1>5. CASE Removes
  <2>1. PICK k \in 1 .. Len(tasks) :
          tasks[k] \in Task /\ tasks' = RemoveAt(tasks, k) /\ GiveBack(tasks[k])
    BY <1>5 DEF Removes
  <2>2. used'[p][c] = used[p][c] - Part(tasks[k], p, c)
    BY <2>1, GiveBackFacts
  <2>3. UtilSum(RemoveAt(tasks, k), p, c) = UtilSum(tasks, p, c) - Part(tasks[k], p, c)
    BY <1>1, UtilSumRemoveAt
  <2> QED  BY <1>2, <2>1, <2>2, <2>3
<1>6. CASE Revalues
  <2>1. PICK k \in 1 .. Len(tasks), u \in Task :
          /\ Len(tasks') = Len(tasks)
          /\ \A j \in 1 .. Len(tasks) : tasks'[j] = IF j = k THEN u ELSE tasks[j]
          /\ used'[p][c] = used[p][c] - Part(tasks[k], p, c) + Part(u, p, c)
    BY <1>6 DEF Revalues
  <2>2. tasks'[k] = u /\ \A j \in (1 .. Len(tasks)) \ {k} : tasks'[j] = tasks[j]
    BY <2>1
  <2>3. UtilSum(tasks', p, c)
            = UtilSum(tasks, p, c) - Part(tasks[k], p, c) + Part(tasks'[k], p, c)
    BY <1>1, <2>1, <2>2, UtilSumReplace
  <2> QED  BY <1>2, <2>1, <2>2, <2>3
<1>7. CASE RefreshSys
  <2>1. used'[p][c] = UtilSum(tasks, p, c) /\ tasks' = RecalcPrios(tasks)
    BY <1>7 DEF RefreshSys
  <2>2. /\ Len(tasks') = Len(tasks)
        /\ \A i \in 1 .. Len(tasks) :
              tasks'[i] = [tasks[i] EXCEPT !.schedprio = CalcPrio(tasks, tasks[i])]
    BY <1>1, <2>1, RecalcFacts
  <2>3. \A i \in 1 .. Len(tasks) : tasks[i] \in Task
    BY <1>1, ElementOfSeq
  <2>4. \A i \in 1 .. Len(tasks) : Part(tasks'[i], p, c) = Part(tasks[i], p, c)
    BY <2>2, <2>3 DEF Part, Task
  <2>5. UtilSum(tasks', p, c) = UtilSum(tasks, p, c)
    BY <1>1, <2>2, <2>4, UtilSumSame
  <2> QED  BY <2>1, <2>5
<1>8. CASE Attaches
  <2>1. PICK k \in 1 .. Len(tasks), th \in Tids :
          /\ Len(tasks') = Len(tasks)
          /\ \A j \in 1 .. Len(tasks) :
                tasks'[j] = IF j = k THEN [tasks[k] EXCEPT !.tid = th] ELSE tasks[j]
          /\ used' = used
    BY <1>8 DEF Attaches
  <2>2. \A i \in 1 .. Len(tasks) : tasks[i] \in Task
    BY <1>1, ElementOfSeq
  <2>3. \A i \in 1 .. Len(tasks) : Part(tasks'[i], p, c) = Part(tasks[i], p, c)
    BY <2>1, <2>2 DEF Part, Task
  <2>4. UtilSum(tasks', p, c) = UtilSum(tasks, p, c)
    <3>1. Len(tasks') = Len(tasks)
      BY <2>1
    <3> QED  BY <1>1, <2>3, <3>1, UtilSumSame
  <2> QED  BY <1>2, <2>1, <2>4
<1>9. CASE Keeps
  BY <1>2, <1>9 DEF Keeps
<1> QED  BY <1>4, <1>5, <1>6, <1>7, <1>8, <1>9, StepKinds

(* util_used_percpu of every plugin is always the sum of the utilizations   *)
(* of its tasks on that CPU: t_add_to_utils, t_remove_from_utils and        *)
(* t_recalc_util keep by increments what ts_recalc_utils computes anew.     *)
THEOREM Accounting == Spec => []PluginAccounting
<1>1. Init => PluginAccounting
  BY UtilSumEmpty DEF Init, PluginAccounting
<1>2. TypeOK /\ TypeOK' /\ PluginAccounting /\ [Next]_vars => PluginAccounting'
  BY AccountingStep
<1> QED  BY <1>1, <1>2, Types, PTL DEF Spec

----------------------------------------------------------------------------
(* CPU TIME LEFT *)

LEMMA OvercommitStep ==
    ASSUME TypeOK, TypeOK', NeverOvercommitted, [Next]_vars
    PROVE  NeverOvercommitted'
<1> SUFFICES ASSUME NEW c \in CPUs PROVE free'[c] >= 0
  BY DEF NeverOvercommitted
<1>1. free[c] \in Int /\ free[c] >= 0
  BY DEF TypeOK, NeverOvercommitted
<1>2. CASE Admits
  <2>1. PICK u \in Task : u.util <= free[u.cpu] /\ free'[c] = free[c] - OnCpu(u, c)
    BY <1>2 DEF Admits
  <2>2. u.util \in Int
    BY TasksHaveUtil
  <2> QED  BY <1>1, <2>1, <2>2 DEF OnCpu
<1>3. CASE Removes
  <2>1. PICK k \in 1 .. Len(tasks) : tasks[k] \in Task /\ GiveBack(tasks[k])
    BY <1>3 DEF Removes
  <2>2. free'[c] = free[c] + OnCpu(tasks[k], c)
    BY <2>1, GiveBackFacts
  <2>3. tasks[k].util \in Int /\ tasks[k].util >= 0
    BY <2>1, TasksHaveUtil
  <2> QED  BY <1>1, <2>2, <2>3 DEF OnCpu
<1>4. CASE Revalues
  BY <1>1, <1>4 DEF Revalues
<1>5. CASE RefreshSys
  BY <1>1, <1>5 DEF RefreshSys
<1>6. CASE Attaches
  BY <1>1, <1>6 DEF Attaches
<1>7. CASE Keeps
  BY <1>1, <1>7 DEF Keeps
<1> QED  BY <1>2, <1>3, <1>4, <1>5, <1>6, <1>7, StepKinds

(* rts_scheduler_assign never takes more of a CPU than it has left:         *)
(* whatever t_test a plugin runs, sys_rt_curr_free_utils stays at or above  *)
(* 0 through admissions, destroys, refreshes and purges.                    *)
THEOREM Overcommit == Spec => []NeverOvercommitted
<1>1. Init => NeverOvercommitted
  BY SchedulerAssumption, PluginAssumption DEF Init, NeverOvercommitted
<1>2. TypeOK /\ TypeOK' /\ NeverOvercommitted /\ [Next]_vars => NeverOvercommitted'
  BY OvercommitStep
<1> QED  BY <1>1, <1>2, Types, PTL DEF Spec

----------------------------------------------------------------------------
(* THE TWO LEDGERS *)

(* A task is accounted for by exactly one plugin.                           *)
LEMMA PartsAddUp ==
    ASSUME NEW t \in Task, NEW c
    PROVE  /\ Part(t, EDF, c) + Part(t, SSRM, c) + Part(t, FP, c) + Part(t, RR, c) = OnCpu(t, c)
           /\ \A p \in Plugins : Part(t, p, c) \in Int
           /\ OnCpu(t, c) \in Int
<1>1. t.util \in Int /\ t.pluginid \in Plugins
  BY DEF Task
<1> QED  BY <1>1 DEF Part, OnCpu, Plugins, EDF, SSRM, FP, RR

(* What the ledgers add up to on one CPU before and after a step.           *)
LEMMA TogetherStep ==
    ASSUME TypeOK, TypeOK', PluginAccounting, [Next]_vars, ~Revalues, NEW c \in CPUs
    PROVE  (free[c] + Accounted(c))' = free[c] + Accounted(c)
<1>1. /\ {EDF, SSRM, FP, RR} \subseteq Plugins
      /\ free[c] \in Int /\ free'[c] \in Int
      /\ \A p \in Plugins : used[p][c] \in Int /\ used'[p][c] \in Int
  BY PluginFacts DEF TypeOK
<1>2. CASE Admits
  <2>1. PICK u \in Task : /\ \A q \in Plugins : used'[q][c] = used[q][c] + Part(u, q, c)
                         /\ free'[c] = free[c] - OnCpu(u, c)
    BY <1>2 DEF Admits
  <2> QED  BY <1>1, <2>1, PartsAddUp DEF Accounted
<1>3. CASE Removes
  <2>1. PICK k \in 1 .. Len(tasks) : tasks[k] \in Task /\ GiveBack(tasks[k])
    BY <1>3 DEF Removes
  <2>2. /\ \A q \in Plugins : used'[q][c] = used[q][c] - Part(tasks[k], q, c)
        /\ free'[c] = free[c] + OnCpu(tasks[k], c)
    BY <2>1, GiveBackFacts
  <2> DEFINE u == tasks[k]
  <2>3. /\ Part(u, EDF, c) + Part(u, SSRM, c) + Part(u, FP, c) + Part(u, RR, c) = OnCpu(u, c)
        /\ \A p \in Plugins : Part(u, p, c) \in Int
        /\ OnCpu(u, c) \in Int
    BY <2>1, PartsAddUp
  <2> HIDE DEF u
  <2>4. /\ \A q \in Plugins : used'[q][c] = used[q][c] - Part(u, q, c)
        /\ free'[c] = free[c] + OnCpu(u, c)
    BY <2>2 DEF u
  <2>5. \A q \in {EDF, SSRM, FP, RR} :
           /\ used'[q][c] = used[q][c] - Part(u, q, c)
           /\ used[q][c] \in Int /\ Part(u, q, c) \in Int
    BY <1>1, <2>3, <2>4
  <2>6. /\ free'[c] = free[c] + OnCpu(u, c) /\ free[c] \in Int
        /\ Part(u, EDF, c) + Part(u, SSRM, c) + Part(u, FP, c) + Part(u, RR, c) = OnCpu(u, c)
    BY <1>1, <2>3, <2>4
  <2> DEFINE w1 == used[EDF][c]   v1 == Part(u, EDF, c)
             w2 == used[SSRM][c]  v2 == Part(u, SSRM, c)
             w3 == used[FP][c]    v3 == Part(u, FP, c)
             w4 == used[RR][c]    v4 == Part(u, RR, c)
  <2>7. /\ used'[EDF][c] = w1 - v1 /\ used'[SSRM][c] = w2 - v2
        /\ used'[FP][c] = w3 - v3 /\ used'[RR][c] = w4 - v4
        /\ w1 \in Int /\ w2 \in Int /\ w3 \in Int /\ w4 \in Int
        /\ v1 \in Int /\ v2 \in Int /\ v3 \in Int /\ v4 \in Int
    BY <2>5
  <2>8. free'[c] = free[c] + (v1 + v2 + v3 + v4) /\ free[c] \in Int
    BY <2>6
  <2>9. Accounted(c) = w1 + w2 + w3 + w4
    BY DEF Accounted
  <2>10. Accounted(c)' = used'[EDF][c] + used'[SSRM][c] + used'[FP][c] + used'[RR][c]
    BY DEF Accounted
  <2> HIDE DEF w1, w2, w3, w4, v1, v2, v3, v4
  <2>11. Accounted(c)' = (w1 - v1) + (w2 - v2) + (w3 - v3) + (w4 - v4)
    BY <2>7, <2>10
  <2>12. free'[c] + Accounted(c)' = free[c] + Accounted(c)
    BY <2>7, <2>8, <2>9, <2>11
  <2> QED  BY <2>12
<1>4. CASE RefreshSys
  <2>1. \A p \in Plugins : used'[p][c] = used[p][c]
    BY <1>4 DEF RefreshSys, PluginAccounting
  <2>2. free' = free
    BY <1>4 DEF RefreshSys
  <2> QED  BY <1>1, <2>1, <2>2 DEF Accounted
<1>5. CASE Attaches
  BY <1>5 DEF Attaches, Accounted
<1>6. CASE Keeps
  BY <1>6 DEF Keeps, Accounted
<1> QED  BY <1>2, <1>3, <1>4, <1>5, <1>6, StepKinds

(* The two ledgers of the daemon move together: destroys and purges give    *)
(* back to both what the admission took from both, and only a single        *)
(* refresh makes them drift apart.                                          *)
THEOREM MoveTogether == Spec => LedgersMoveTogether
<1>1. ASSUME TypeOK, TypeOK', PluginAccounting, [Next]_vars
      PROVE  [\A c \in CPUs : (free[c] + Accounted(c))' # free[c] + Accounted(c)
                 => /\ pc = "loop"
                    /\ reply'.rep_type \in {"REFRESH_SINGLE_OK", "REFRESH_SINGLE_OVL"}]_vars
  <2>1. CASE Revalues
    BY <2>1 DEF Revalues
  <2>2. CASE ~Revalues
    BY <1>1, <2>2, TogetherStep
  <2> QED  BY <2>1, <2>2
<1> QED  BY <1>1, Types, Accounting, PTL DEF Spec, LedgersMoveTogether

(* Every client declares its budget and its period.                         *)
AllDeclared == \A par \in Params : par.budget # 0 /\ par.period # 0

(* Then no task depends on the estimates.                                   *)
TasksDeclared ==
    \A i \in 1 .. Len(tasks) :
        /\ tasks[i].wcet # 0 /\ tasks[i].period # 0
        /\ tasks[i].util = (tasks[i].wcet * Scale) \div tasks[i].period

LEMMA DeclaredStep ==
    ASSUME AllDeclared, TypeOK, TypeOK', TasksDeclared, [Next]_vars
    PROVE  TasksDeclared'
<1> DEFINE D(t) == t.wcet # 0 /\ t.period # 0 /\ t.util = (t.wcet * Scale) \div t.period
<1> SUFFICES ASSUME NEW i \in 1 .. Len(tasks') PROVE D(tasks'[i])
  BY DEF TasksDeclared
<1>1. tasks \in Seq(Task) /\ Len(tasks) \in Nat /\ \A j \in 1 .. Len(tasks) : tasks[j] \in Task
  BY LenProperties, ElementOfSeq DEF TypeOK
<1>2. \A j \in 1 .. Len(tasks) : D(tasks[j])
  BY DEF TasksDeclared
<1>3. CASE Admits
  <2>1. PICK u \in Task, par \in Params, est \in Estimates :
           /\ u.wcet = par.budget /\ u.period = par.period /\ u.util = TaskUtil(u, est)
           /\ tasks' = AddTop(tasks, u)
    BY <1>3 DEF Admits
  <2>2. D(u)
    BY <2>1 DEF AllDeclared, TaskUtil
  <2> HIDE DEF D
  <2>3. /\ Len(tasks') = Len(tasks) + 1 /\ tasks'[1] = u
        /\ \A j \in 1 .. Len(tasks) : tasks'[j + 1] = tasks[j]
    <3>1. /\ Len(AddTop(tasks, u)) = Len(tasks) + 1 /\ AddTop(tasks, u)[1] = u
          /\ \A j \in 1 .. Len(tasks) : AddTop(tasks, u)[j + 1] = tasks[j]
      BY <1>1, AddTopFacts
    <3> QED  BY <2>1, <3>1
  <2>4. CASE i = 1
    BY <2>2, <2>3, <2>4
  <2>5. CASE i # 1
    <3>1. i - 1 \in 1 .. Len(tasks) /\ (i - 1) + 1 = i
      BY <1>1, <2>3, <2>5
    <3> QED  BY <1>2, <2>3, <3>1
  <2> QED  BY <2>4, <2>5
<1>4. CASE Removes
  <2> HIDE DEF D
  <2>1. PICK k \in 1 .. Len(tasks) : tasks' = RemoveAt(tasks, k)
    BY <1>4 DEF Removes
  <2>2. /\ Len(tasks') = Len(tasks) - 1
        /\ \A j \in 1 .. Len(tasks) - 1 : tasks'[j] = IF j < k THEN tasks[j] ELSE tasks[j + 1]
    BY <1>1, <2>1, RemoveAtFacts
  <2>3. i \in 1 .. Len(tasks) /\ i + 1 \in 1 .. Len(tasks)
    BY <1>1, <2>2
  <2> QED  BY <1>2, <2>2, <2>3
<1>5. CASE Revalues
  <2>1. PICK k \in 1 .. Len(tasks), u \in Task, est \in Estimates :
           /\ u.wcet = tasks[k].wcet /\ u.period = tasks[k].period
           /\ u.util = TaskUtil(tasks[k], est)
           /\ Len(tasks') = Len(tasks)
           /\ \A j \in 1 .. Len(tasks) : tasks'[j] = IF j = k THEN u ELSE tasks[j]
    BY <1>5 DEF Revalues
  <2>2. D(u)
    BY <1>2, <2>1 DEF TaskUtil
  <2> HIDE DEF D
  <2> QED  BY <1>2, <2>1, <2>2
<1>6. CASE RefreshSys
  <2>1. /\ Len(tasks') = Len(tasks)
        /\ \A j \in 1 .. Len(tasks) :
              tasks'[j] = [tasks[j] EXCEPT !.schedprio = CalcPrio(tasks, tasks[j])]
    BY <1>1, <1>6, RecalcFacts DEF RefreshSys
  <2>2. i \in 1 .. Len(tasks) /\ tasks[i] \in Task /\ D(tasks[i])
    BY <1>1, <1>2, <2>1
  <2>3. tasks'[i] = [tasks[i] EXCEPT !.schedprio = CalcPrio(tasks, tasks[i])]
    BY <2>1, <2>2
  <2> QED  BY <2>2, <2>3 DEF Task
<1>7. CASE Attaches
  <2>1. PICK k \in 1 .. Len(tasks), th \in Tids :
           /\ Len(tasks') = Len(tasks)
           /\ \A j \in 1 .. Len(tasks) :
                 tasks'[j] = IF j = k THEN [tasks[k] EXCEPT !.tid = th] ELSE tasks[j]
    BY <1>7 DEF Attaches
  <2> QED  BY <1>1, <1>2, <2>1 DEF Task
<1>8. CASE Keeps
  BY <1>2, <1>8 DEF Keeps
<1> QED  BY <1>3, <1>4, <1>5, <1>6, <1>7, <1>8, StepKinds

(* A single refresh of a declared task computes the utilization it has.     *)
LEMMA DeclaredTogether ==
    ASSUME TypeOK, TypeOK', PluginAccounting, TasksDeclared, [Next]_vars, NEW c \in CPUs
    PROVE  (free[c] + Accounted(c))' = free[c] + Accounted(c)
<1>1. CASE ~Revalues
  BY <1>1, TogetherStep
<1>2. CASE Revalues
  <2>1. PICK k \in 1 .. Len(tasks), u \in Task, est \in Estimates :
           /\ u.cpu = tasks[k].cpu /\ u.pluginid = tasks[k].pluginid
           /\ u.util = TaskUtil(tasks[k], est)
           /\ \A q \in Plugins, d \in CPUs :
                 used'[q][d] = used[q][d] - Part(tasks[k], q, d) + Part(u, q, d)
           /\ free' = free
    BY <1>2 DEF Revalues
  <2>2. u.util = tasks[k].util
    BY <2>1 DEF TasksDeclared, TaskUtil
  <2>3. \A q : Part(u, q, c) = Part(tasks[k], q, c)
    BY <2>1, <2>2 DEF Part
  <2>4. \A q \in Plugins : used[q][c] \in Int /\ Part(u, q, c) \in Int
    BY PartsAddUp DEF TypeOK
  <2>5. \A q \in Plugins : used'[q][c] = used[q][c]
    BY <2>1, <2>3, <2>4
  <2> QED  BY <2>1, <2>5, PluginFacts DEF Accounted
<1> QED  BY <1>1, <1>2

LEMMA AgreeInit ==
    ASSUME Init
    PROVE  LedgersAgree /\ TasksDeclared
<1>1. /\ SysUtil \in Int /\ {EDF, SSRM, FP, RR} \subseteq Plugins
  BY SchedulerAssumption, PluginFacts
<1> QED  BY <1>1 DEF Init, LedgersAgree, Accounted, TasksDeclared

(* When every client declares its parameters, what the plugins account for  *)
(* and what the CPUs have left add up to the RT utilization of the system,  *)
(* after any history of requests and purges.                                *)
THEOREM Agree == AllDeclared /\ Spec => []LedgersAgree
<1> SUFFICES ASSUME AllDeclared PROVE Spec => []LedgersAgree
  OBVIOUS
<1>1. Init => LedgersAgree /\ TasksDeclared
  BY AgreeInit
<1>2. TypeOK /\ TypeOK' /\ TasksDeclared /\ [Next]_vars => TasksDeclared'
  BY DeclaredStep
<1>3. ASSUME TypeOK, TypeOK', PluginAccounting, TasksDeclared, LedgersAgree, [Next]_vars
      PROVE  LedgersAgree'
  BY <1>3, DeclaredTogether DEF LedgersAgree
<1> QED  BY <1>1, <1>2, <1>3, Types, Accounting, PTL DEF Spec

(* So the tasks admitted to a CPU never ask for more than the RT            *)
(* utilization of the system: the EDF bound of the daemon holds on every    *)
(* CPU over the plugins together.                                           *)
THEOREM NotOverloaded == AllDeclared /\ Spec => []NoCpuOverloaded
<1> SUFFICES ASSUME AllDeclared PROVE Spec => []NoCpuOverloaded
  OBVIOUS
<1>1. ASSUME TypeOK, PluginAccounting, NeverOvercommitted, LedgersAgree
      PROVE  NoCpuOverloaded
  <2> SUFFICES ASSUME NEW c \in CPUs
               PROVE  UtilSum(tasks, EDF, c) + UtilSum(tasks, SSRM, c)
                      + UtilSum(tasks, FP, c) + UtilSum(tasks, RR, c) <= SysUtil
    BY DEF NoCpuOverloaded
  <2>1. /\ free[c] \in Int /\ free[c] >= 0 /\ free[c] + Accounted(c) = SysUtil
        /\ \A p \in Plugins : used[p][c] \in Int /\ used[p][c] = UtilSum(tasks, p, c)
    BY <1>1 DEF TypeOK, NeverOvercommitted, LedgersAgree, PluginAccounting
  <2> QED  BY <2>1, PluginFacts DEF Accounted
<1>2. Spec => []LedgersAgree
  BY Agree
<1> QED  BY <1>1, <1>2, Types, Accounting, Overcommit, PTL

----------------------------------------------------------------------------
(* THE LIST *)

(* A step puts one task in front, takes one out, or leaves every task with  *)
(* its id, owner, CPU and plugin where it is.                               *)
SameTask(t, u) ==
    t.id = u.id /\ t.ptid = u.ptid /\ t.cpu = u.cpu /\ t.pluginid = u.pluginid

Pushed == /\ next_rsv_id' = next_rsv_id + 1
          /\ Len(tasks') = Len(tasks) + 1
          /\ tasks'[1].id = next_rsv_id + 1
          /\ \A i \in 1 .. Len(tasks) : tasks'[i + 1] = tasks[i]

Unlinked(k) == /\ next_rsv_id' = next_rsv_id
               /\ Len(tasks') = Len(tasks) - 1
               /\ \A i \in 1 .. Len(tasks) - 1 :
                     tasks'[i] = IF i < k THEN tasks[i] ELSE tasks[i + 1]

InPlace == /\ next_rsv_id' \in {next_rsv_id, next_rsv_id + 1}
           /\ Len(tasks') = Len(tasks)
           /\ \A i \in 1 .. Len(tasks) : SameTask(tasks'[i], tasks[i])

LEMMA ListKinds ==
    ASSUME TypeOK, [Next]_vars
    PROVE  Pushed \/ (\E k \in 1 .. Len(tasks) : Unlinked(k)) \/ InPlace
<1>1. tasks \in Seq(Task) /\ \A j \in 1 .. Len(tasks) : tasks[j] \in Task
  BY ElementOfSeq DEF TypeOK
<1>2. CASE Admits
  <2>1. PICK u \in Task : /\ u.id = next_rsv_id + 1 /\ tasks' = AddTop(tasks, u)
                         /\ next_rsv_id' = next_rsv_id + 1
    BY <1>2 DEF Admits
  <2>2. /\ Len(AddTop(tasks, u)) = Len(tasks) + 1 /\ AddTop(tasks, u)[1] = u
        /\ \A j \in 1 .. Len(tasks) : AddTop(tasks, u)[j + 1] = tasks[j]
    BY <1>1, AddTopFacts
  <2> QED  BY <2>1, <2>2 DEF Pushed
<1>3. CASE Removes
  <2>1. PICK k \in 1 .. Len(tasks) : tasks' = RemoveAt(tasks, k) /\ next_rsv_id' = next_rsv_id
    BY <1>3 DEF Removes
  <2> QED  BY <1>1, <2>1, RemoveAtFacts DEF Unlinked
<1>4. CASE Revalues
  <2>1. PICK k \in 1 .. Len(tasks), u \in Task :
           /\ SameTask(u, tasks[k]) /\ Len(tasks') = Len(tasks)
           /\ \A j \in 1 .. Len(tasks) : tasks'[j] = IF j = k THEN u ELSE tasks[j]
           /\ next_rsv_id' = next_rsv_id
    BY <1>4 DEF Revalues, SameTask
  <2>2. \A i \in 1 .. Len(tasks) : SameTask(tasks'[i], tasks[i])
    BY <2>1 DEF SameTask
  <2> QED  BY <2>1, <2>2 DEF InPlace
<1>5. CASE RefreshSys
  <2>1. /\ Len(tasks') = Len(tasks) /\ next_rsv_id' = next_rsv_id
        /\ \A j \in 1 .. Len(tasks) :
              tasks'[j] = [tasks[j] EXCEPT !.schedprio = CalcPrio(tasks, tasks[j])]
    BY <1>1, <1>5, RecalcFacts DEF RefreshSys
  <2>2. ASSUME NEW i \in 1 .. Len(tasks) PROVE SameTask(tasks'[i], tasks[i])
    <3>1. tasks[i] \in Task
      BY <1>1
    <3> QED  BY <2>1, <3>1 DEF Task, SameTask
  <2> QED  BY <2>1, <2>2 DEF InPlace
<1>6. CASE Attaches
  <2>1. PICK k \in 1 .. Len(tasks), th \in Tids :
           /\ Len(tasks') = Len(tasks) /\ next_rsv_id' = next_rsv_id
           /\ \A j \in 1 .. Len(tasks) :
                 tasks'[j] = IF j = k THEN [tasks[k] EXCEPT !.tid = th] ELSE tasks[j]
    BY <1>6 DEF Attaches
  <2>2. ASSUME NEW i \in 1 .. Len(tasks) PROVE SameTask(tasks'[i], tasks[i])
    <3>1. tasks[i] \in Task
      BY <1>1
    <3> QED  BY <2>1, <3>1 DEF Task, SameTask
  <2> QED  BY <2>1, <2>2 DEF InPlace
<1>7. CASE Keeps
  BY <1>7 DEF Keeps, InPlace, SameTask
<1> QED  BY <1>2, <1>3, <1>4, <1>5, <1>6, <1>7, StepKinds

LEMMA NewestStep ==
    ASSUME TypeOK, TypeOK', NewestFirst, [Next]_vars
    PROVE  NewestFirst'
<1> DEFINE n == Len(tasks)
           id(i) == tasks[i].id
<1>1. /\ n \in Nat /\ next_rsv_id \in Nat
      /\ \A i \in 1 .. n : tasks[i].id \in Nat /\ tasks[i].id <= next_rsv_id
      /\ \A i, j \in 1 .. n : i < j => tasks[i].id > tasks[j].id
  <2>1. \A i \in 1 .. n : tasks[i] \in Task
    BY ElementOfSeq DEF TypeOK
  <2>2. n \in Nat
    BY LenProperties DEF TypeOK
  <2> QED  BY <2>1, <2>2 DEF Task, NewestFirst, TypeOK
<1>2. CASE Pushed
  <2>1. ASSUME NEW i \in 1 .. Len(tasks'), i # 1
        PROVE  i - 1 \in 1 .. n /\ tasks'[i] = tasks[i - 1]
    <3>1. i - 1 \in 1 .. n /\ (i - 1) + 1 = i
      BY <1>1, <1>2, <2>1 DEF Pushed
    <3> QED  BY <1>2, <3>1 DEF Pushed
  <2>2. tasks'[1].id = next_rsv_id + 1 /\ next_rsv_id' = next_rsv_id + 1
    BY <1>2 DEF Pushed
  <2>3. ASSUME NEW i \in 1 .. Len(tasks'), NEW j \in 1 .. Len(tasks'), i < j
        PROVE  tasks'[i].id > tasks'[j].id
    <3>1. j # 1 /\ j - 1 \in 1 .. n /\ tasks'[j] = tasks[j - 1]
      BY <2>1, <2>3
    <3>2. CASE i = 1
      BY <1>1, <2>2, <3>1, <3>2
    <3>3. CASE i # 1
      <4>1. i - 1 \in 1 .. n /\ tasks'[i] = tasks[i - 1] /\ i - 1 < j - 1
        BY <1>1, <2>1, <2>3, <3>3
      <4> QED  BY <1>1, <3>1, <4>1
    <3> QED  BY <3>2, <3>3
  <2>4. ASSUME NEW i \in 1 .. Len(tasks') PROVE tasks'[i].id <= next_rsv_id'
    <3>1. CASE i = 1
      BY <1>1, <2>2, <3>1
    <3>2. CASE i # 1
      <4>1. i - 1 \in 1 .. n /\ tasks'[i] = tasks[i - 1]
        BY <2>1, <3>2
      <4> QED  BY <1>1, <2>2, <4>1
    <3> QED  BY <3>1, <3>2
  <2> QED  BY <2>3, <2>4 DEF NewestFirst
<1>3. ASSUME NEW k \in 1 .. n, Unlinked(k)
      PROVE  NewestFirst'
  <2>1. ASSUME NEW i \in 1 .. Len(tasks')
        PROVE  /\ i \in 1 .. n /\ i + 1 \in 1 .. n
               /\ tasks'[i] = IF i < k THEN tasks[i] ELSE tasks[i + 1]
    BY <1>1, <1>3 DEF Unlinked
  <2>2. ASSUME NEW i \in 1 .. Len(tasks'), NEW j \in 1 .. Len(tasks'), i < j
        PROVE  tasks'[i].id > tasks'[j].id
    <3>1. PICK a \in 1 .. n : tasks'[i] = tasks[a] /\ a = IF i < k THEN i ELSE i + 1
      BY <2>1
    <3>2. PICK b \in 1 .. n : tasks'[j] = tasks[b] /\ b = IF j < k THEN j ELSE j + 1
      BY <2>1
    <3>3. a < b
      BY <2>2, <3>1, <3>2
    <3> QED  BY <1>1, <3>1, <3>2, <3>3
  <2>3. \A i \in 1 .. Len(tasks') : tasks'[i].id <= next_rsv_id'
    BY <1>1, <1>3, <2>1 DEF Unlinked
  <2> QED  BY <2>2, <2>3 DEF NewestFirst
<1>4. CASE InPlace
  <2>1. /\ Len(tasks') = n /\ next_rsv_id <= next_rsv_id'
        /\ \A i \in 1 .. n : tasks'[i].id = tasks[i].id
    BY <1>1, <1>4 DEF InPlace, SameTask
  <2>2. /\ next_rsv_id' \in Nat
    BY DEF TypeOK
  <2> QED  BY <1>1, <2>1, <2>2 DEF NewestFirst
<1> QED  BY <1>2, <1>3, <1>4, ListKinds

(* The reservations stay ordered from the newest to the oldest, so no two   *)
(* ever have the same id: whatever list_ptr_remove unlinks, the iterator    *)
(* loops of attach and detach find at most one reservation.                 *)
THEOREM Newest == Spec => []NewestFirst
<1>1. Init => NewestFirst
  BY DEF Init, NewestFirst
<1>2. TypeOK /\ TypeOK' /\ NewestFirst /\ [Next]_vars => NewestFirst'
  BY NewestStep
<1> QED  BY <1>1, <1>2, Types, PTL DEF Spec

(* With the ids in order, a task before the step and one after it that have *)
(* the same id are the same task, at most one place away.                   *)
LEMMA PlacementStep ==
    ASSUME TypeOK, NewestFirst, [Next]_vars
    PROVE  /\ Len(tasks') >= Len(tasks) - 1
           /\ \A i \in 1 .. Len(tasks), j \in 1 .. Len(tasks') :
                 tasks[i].id = tasks'[j].id =>
                    SameTask(tasks[i], tasks'[j]) /\ i - j \in -1 .. 1
<1>1. /\ Len(tasks) \in Nat /\ next_rsv_id \in Nat
      /\ \A i \in 1 .. Len(tasks) : tasks[i].id \in Nat /\ tasks[i].id <= next_rsv_id
  <2>1. \A i \in 1 .. Len(tasks) : tasks[i] \in Task
    BY ElementOfSeq DEF TypeOK
  <2>2. Len(tasks) \in Nat
    BY LenProperties DEF TypeOK
  <2> QED  BY <2>1, <2>2 DEF Task, NewestFirst, TypeOK
<1>2. \A i, j \in 1 .. Len(tasks) : tasks[i].id = tasks[j].id => i = j
  <2> SUFFICES ASSUME NEW i \in 1 .. Len(tasks), NEW j \in 1 .. Len(tasks), i # j
               PROVE  tasks[i].id # tasks[j].id
    OBVIOUS
  <2>1. i < j \/ j < i
    BY <1>1
  <2> QED  BY <1>1, <2>1 DEF NewestFirst
<1>3. CASE Pushed
  <2>1. ASSUME NEW i \in 1 .. Len(tasks), NEW j \in 1 .. Len(tasks'),
               tasks[i].id = tasks'[j].id
        PROVE  SameTask(tasks[i], tasks'[j]) /\ i - j \in -1 .. 1
    <3>1. j # 1
      BY <1>1, <1>3, <2>1 DEF Pushed
    <3>2. j - 1 \in 1 .. Len(tasks) /\ (j - 1) + 1 = j
      BY <1>1, <1>3, <3>1 DEF Pushed
    <3>3. tasks'[j] = tasks[j - 1]
      BY <1>3, <3>2 DEF Pushed
    <3>4. i = j - 1
      BY <1>2, <2>1, <3>2, <3>3
    <3> QED  BY <3>2, <3>3, <3>4 DEF SameTask
  <2> QED  BY <1>1, <1>3, <2>1 DEF Pushed
<1>4. ASSUME NEW k \in 1 .. Len(tasks), Unlinked(k)
      PROVE  /\ Len(tasks') >= Len(tasks) - 1
             /\ \A i \in 1 .. Len(tasks), j \in 1 .. Len(tasks') :
                   tasks[i].id = tasks'[j].id =>
                      SameTask(tasks[i], tasks'[j]) /\ i - j \in -1 .. 1
  <2>1. ASSUME NEW i \in 1 .. Len(tasks), NEW j \in 1 .. Len(tasks'),
               tasks[i].id = tasks'[j].id
        PROVE  SameTask(tasks[i], tasks'[j]) /\ i - j \in -1 .. 1
    <3>1. /\ j \in 1 .. Len(tasks) /\ j + 1 \in 1 .. Len(tasks)
          /\ tasks'[j] = IF j < k THEN tasks[j] ELSE tasks[j + 1]
      BY <1>1, <1>4 DEF Unlinked
    <3>2. CASE j < k
      <4>1. i = j
        BY <1>2, <2>1, <3>1, <3>2
      <4> QED  BY <3>1, <3>2, <4>1 DEF SameTask
    <3>3. CASE ~(j < k)
      <4>1. i = j + 1
        BY <1>2, <2>1, <3>1, <3>3
      <4> QED  BY <3>1, <3>3, <4>1 DEF SameTask
    <3> QED  BY <3>2, <3>3
  <2> QED  BY <1>1, <1>4, <2>1 DEF Unlinked
<1>5. CASE InPlace
  <2>1. ASSUME NEW i \in 1 .. Len(tasks), NEW j \in 1 .. Len(tasks'),
               tasks[i].id = tasks'[j].id
        PROVE  SameTask(tasks[i], tasks'[j]) /\ i - j \in -1 .. 1
    <3>1. j \in 1 .. Len(tasks) /\ SameTask(tasks'[j], tasks[j])
      BY <1>5 DEF InPlace
    <3>2. i = j
      BY <1>2, <2>1, <3>1 DEF SameTask
    <3> QED  BY <3>1, <3>2 DEF SameTask
  <2> QED  BY <1>1, <1>5, <2>1 DEF InPlace
<1> QED  BY <1>3, <1>4, <1>5, ListKinds

(* A reservation keeps its owner, CPU, plugin and place in the list for as  *)
(* long as it lives, and one step removes at most one.                      *)
THEOREM Placement == Spec => PlacementStable
<1>1. ASSUME TypeOK, NewestFirst, [Next]_vars
      PROVE  [/\ Len(tasks') >= Len(tasks) - 1
              /\ \A i \in 1 .. Len(tasks), j \in 1 .. Len(tasks') :
                    tasks[i].id = tasks'[j].id =>
                       /\ tasks[i].ptid = tasks'[j].ptid
                       /\ tasks[i].cpu = tasks'[j].cpu
                       /\ tasks[i].pluginid = tasks'[j].pluginid
                       /\ i - j \in -1 .. 1]_vars
  BY <1>1, PlacementStep DEF SameTask
<1> QED  BY <1>1, Types, Newest, PTL DEF Spec, PlacementStable

----------------------------------------------------------------------------
(* THE REFINEMENT *)
(* The scheduler implements the module Admission: every step of it grants, *)
(* refuses or ends one reservation, or is none of the clients' business.   *)

GrantOf(t) == [id |-> t.id, ptid |-> t.ptid, cpu |-> t.cpu, pluginid |-> t.pluginid]

LEMMA GrantsAre == Grants = {GrantOf(tasks[i]) : i \in 1 .. Len(tasks)}
BY DEF Grants, GrantOf

LEMMA GrantsAreNext == Grants' = {GrantOf(tasks'[i]) : i \in 1 .. Len(tasks')}
BY DEF Grants, GrantOf

(* Facts about the list that every case needs.                              *)
LEMMA ListFacts ==
    ASSUME TypeOK
    PROVE  /\ Len(tasks) \in Nat /\ next_rsv_id \in Nat
           /\ tasks \in Seq(Task)
           /\ \A i \in 1 .. Len(tasks) : tasks[i] \in Task /\ tasks[i].id \in Nat
<1>1. \A i \in 1 .. Len(tasks) : tasks[i] \in Task
  BY ElementOfSeq DEF TypeOK
<1>2. Len(tasks) \in Nat
  BY LenProperties DEF TypeOK
<1> QED  BY <1>1, <1>2 DEF Task, TypeOK

(* A step that leaves the list its length leaves the grants as they are.    *)
LEMMA InPlaceKeepsGrants ==
    ASSUME TypeOK, [Next]_vars, Len(tasks') = Len(tasks)
    PROVE  Grants' = Grants
<1>1. Len(tasks) \in Nat
  BY ListFacts
<1>2. InPlace
  <2>1. ~Pushed
    BY <1>1 DEF Pushed
  <2>2. \A k \in 1 .. Len(tasks) : ~Unlinked(k)
    BY <1>1 DEF Unlinked
  <2> QED  BY <2>1, <2>2, ListKinds
<1>3. \A i \in 1 .. Len(tasks) : GrantOf(tasks'[i]) = GrantOf(tasks[i])
  BY <1>2 DEF InPlace, SameTask, GrantOf
<1> QED  BY <1>3, GrantsAre, GrantsAreNext

LEMMA AdmitsGrants ==
    ASSUME TypeOK, TypeOK', NeverOvercommitted', [Next]_vars, Admits
    PROVE  A!Next
<1>1. PICK u \in Task :
                       /\ u.id = next_rsv_id + 1
                       /\ tasks' = AddTop(tasks, u)
                       /\ \A d \in CPUs : free'[d] = free[d] - OnCpu(u, d)
                       /\ next_rsv_id' = next_rsv_id + 1
  BY DEF Admits
<1>2. /\ u.ptid \in Pids /\ u.cpu \in CPUs /\ u.pluginid \in Plugins
      /\ u.util \in Int /\ u.util >= 0
  BY TasksHaveUtil DEF Task
<1>0. tasks \in Seq(Task) /\ Len(tasks) \in Nat /\ next_rsv_id \in Nat
  BY ListFacts
<1>3. next_rsv_id' > next_rsv_id
  BY <1>1, <1>0
<1>4. Grants' = Grants \cup {GrantOf(u)}
  <2>1. /\ Len(tasks') = Len(tasks) + 1 /\ tasks'[1] = u
        /\ \A j \in 1 .. Len(tasks) : tasks'[j + 1] = tasks[j]
    <3>1. tasks' = AddTop(tasks, u)
      BY <1>1
    <3>2. tasks \in Seq(Task) /\ u \in Task
      BY <1>0
    <3>3. /\ Len(AddTop(tasks, u)) = Len(tasks) + 1
          /\ AddTop(tasks, u)[1] = u
          /\ \A j \in 1 .. Len(tasks) : AddTop(tasks, u)[j + 1] = tasks[j]
      BY ONLY <3>2, AddTopFacts
    <3> QED  BY <3>1, <3>3
  <2>2. ASSUME NEW i \in 1 .. Len(tasks'), i # 1
        PROVE  i - 1 \in 1 .. Len(tasks) /\ tasks'[i] = tasks[i - 1]
    <3>1. i - 1 \in 1 .. Len(tasks) /\ (i - 1) + 1 = i
      BY <2>1, <2>2, ListFacts
    <3> QED  BY <2>1, <3>1
  <2>3. \A j \in 1 .. Len(tasks) : j + 1 \in 1 .. Len(tasks')
    BY <2>1, ListFacts
  <2>4. 1 \in 1 .. Len(tasks')
    BY <2>1, ListFacts
  <2>5. Grants' \subseteq Grants \cup {GrantOf(u)}
    <3> SUFFICES ASSUME NEW i \in 1 .. Len(tasks')
                 PROVE  GrantOf(tasks'[i]) \in Grants \cup {GrantOf(u)}
      BY GrantsAreNext
    <3>1. CASE i = 1
      BY <2>1, <3>1
    <3>2. CASE i # 1
      BY <2>2, <3>2, GrantsAre
    <3> QED  BY <3>1, <3>2
  <2>6. Grants \subseteq Grants'
    BY <2>1, <2>3, GrantsAre, GrantsAreNext
  <2>7. GrantOf(u) \in Grants'
    BY <2>1, <2>4, GrantsAreNext
  <2> QED  BY <2>5, <2>6, <2>7
<1>5. GrantOf(u) = [id |-> next_rsv_id', ptid |-> u.ptid, cpu |-> u.cpu,
                    pluginid |-> u.pluginid]
  BY <1>1 DEF GrantOf
<1>6. 0 <= free'[u.cpu] /\ free'[u.cpu] <= free[u.cpu]
  <2>1. free[u.cpu] \in Int /\ free'[u.cpu] \in Int /\ free'[u.cpu] >= 0
    BY <1>2 DEF TypeOK, NeverOvercommitted
  <2>2. free'[u.cpu] = free[u.cpu] - u.util
    BY <1>1, <1>2 DEF OnCpu
  <2> QED  BY <1>2, <2>1, <2>2
<1>7. A!Only(u.cpu)
  <2>1. \A d \in CPUs : free[d] \in Int
    BY DEF TypeOK
  <2> QED  BY <1>1, <2>1 DEF A!Only, OnCpu
<1>8. A!Grant(u.ptid, u.cpu, u.pluginid)
  BY <1>3, <1>4, <1>5, <1>6, <1>7 DEF A!Grant
<1> QED  BY <1>2, <1>8 DEF A!Next

LEMMA RemovesEnds ==
    ASSUME TypeOK, TypeOK', NewestFirst, [Next]_vars, Removes
    PROVE  A!Next
<1>1. PICK k \in 1 .. Len(tasks) :
         /\ tasks[k] \in Task /\ tasks' = RemoveAt(tasks, k)
         /\ GiveBack(tasks[k]) /\ next_rsv_id' = next_rsv_id
  BY DEF Removes
<1> DEFINE g == GrantOf(tasks[k])
<1>2. g.cpu = tasks[k].cpu /\ tasks[k].cpu \in CPUs
  BY <1>1 DEF GrantOf, Task
<1>3. g \in Grants
  BY GrantsAre
<1>4. Grants' = Grants \ {g}
  <2>1. /\ Len(tasks') = Len(tasks) - 1
        /\ \A i \in 1 .. Len(tasks) - 1 :
              tasks'[i] = IF i < k THEN tasks[i] ELSE tasks[i + 1]
    BY <1>1, RemoveAtFacts, ListFacts
  <2>2. ASSUME NEW i \in 1 .. Len(tasks), i # k
        PROVE  GrantOf(tasks[i]) # g
    <3>1. i < k \/ k < i
      BY <2>2, ListFacts
    <3>2. tasks[i].id # tasks[k].id
      BY <3>1, ListFacts DEF NewestFirst
    <3> QED  BY <3>2 DEF GrantOf
  <2>3. ASSUME NEW i \in 1 .. Len(tasks') PROVE GrantOf(tasks'[i]) \in Grants \ {g}
    <3>1. PICK a \in 1 .. Len(tasks) : a # k /\ tasks'[i] = tasks[a]
      <4>1. i \in 1 .. Len(tasks) - 1 /\ i \in 1 .. Len(tasks) /\ i + 1 \in 1 .. Len(tasks)
        BY <2>1, ListFacts
      <4>2. CASE i < k
        BY <2>1, <4>1, <4>2, ListFacts
      <4>3. CASE ~(i < k)
        <5>1. i + 1 # k
          BY <4>1, <4>3, ListFacts
        <5> QED  BY <2>1, <4>1, <4>3, <5>1
      <4> QED  BY <4>2, <4>3
    <3> QED  BY <2>2, <3>1, GrantsAre
  <2>4. ASSUME NEW i \in 1 .. Len(tasks), i # k PROVE GrantOf(tasks[i]) \in Grants'
    <3>1. PICK a \in 1 .. Len(tasks') : tasks'[a] = tasks[i]
      <4>1. CASE i < k
        <5>1. i \in 1 .. Len(tasks')
          BY <2>1, <4>1, ListFacts
        <5> QED  BY <2>1, <4>1, <5>1
      <4>2. CASE k < i
        <5>1. i - 1 \in 1 .. Len(tasks') /\ ~(i - 1 < k) /\ (i - 1) + 1 = i
          BY <2>1, <4>2, ListFacts
        <5> QED  BY <2>1, <5>1
      <4> QED  BY <2>4, <4>1, <4>2, ListFacts
    <3> QED  BY <3>1, GrantsAreNext
  <2>5. Grants' \subseteq Grants \ {g}
    BY <2>3, GrantsAreNext
  <2>6. Grants \ {g} \subseteq Grants'
    BY <2>4, GrantsAre
  <2> QED  BY <2>5, <2>6
<1>5. \A d \in CPUs : free'[d] = free[d] + OnCpu(tasks[k], d)
  BY <1>1, GiveBackFacts
<1>6. tasks[k].util \in Int /\ tasks[k].util >= 0
  BY <1>1, TasksHaveUtil
<1>7. free'[g.cpu] >= free[g.cpu]
  <2>1. free[g.cpu] \in Int
    BY <1>2 DEF TypeOK
  <2> QED  BY <1>2, <1>5, <1>6, <2>1 DEF OnCpu
<1>8. A!Only(g.cpu)
  <2>1. \A d \in CPUs : free[d] \in Int
    BY DEF TypeOK
  <2> QED  BY <1>2, <1>5, <2>1 DEF A!Only, OnCpu
<1>9. A!End(g)
  BY <1>1, <1>4, <1>7, <1>8 DEF A!End
<1> QED  BY <1>3, <1>9 DEF A!Next

LEMMA AdmissionStep ==
    ASSUME TypeOK, TypeOK', NewestFirst, NeverOvercommitted', [Next]_vars
    PROVE  [A!Next]_<<Grants, next_rsv_id, free>>
<1>1. CASE Admits
  BY <1>1, AdmitsGrants
<1>2. CASE Removes
  BY <1>2, RemovesEnds
<1>3. CASE Revalues
  BY <1>3, InPlaceKeepsGrants DEF Revalues
<1>4. CASE RefreshSys
  <2>1. Len(tasks') = Len(tasks)
    BY <1>4, RecalcFacts, ListFacts DEF RefreshSys
  <2> QED  BY <1>4, <2>1, InPlaceKeepsGrants DEF RefreshSys
<1>5. CASE Attaches
  BY <1>5, InPlaceKeepsGrants DEF Attaches
<1>6. CASE Keeps
  <2>1. Grants' = Grants /\ free' = free
    BY <1>6, InPlaceKeepsGrants DEF Keeps
  <2>2. CASE next_rsv_id' = next_rsv_id
    BY <2>1, <2>2
  <2>3. CASE next_rsv_id' = next_rsv_id + 1
    <3>1. next_rsv_id' > next_rsv_id
      BY <2>3, ListFacts
    <3>2. A!Refuse
      BY <2>1, <3>1 DEF A!Refuse
    <3> QED  BY <3>2 DEF A!Next
  <2> QED  BY <1>6, <2>2, <2>3 DEF Keeps
<1> QED  BY <1>1, <1>2, <1>3, <1>4, <1>5, <1>6, StepKinds

(* The scheduler implements the module Admission for any number of CPUs,    *)
(* clients and reservations and whatever the estimates do: ids are never    *)
(* used again, grants end one at a time, stay on their CPU, and only they   *)
(* change what a CPU has left.                                              *)
THEOREM Implements == Spec => ImplementsAdmission
<1>1. Init => A!Init
  <2> SUFFICES ASSUME Init PROVE A!Init
    OBVIOUS
  <2>1. Len(tasks) = 0
    BY DEF Init
  <2>2. Grants = {}
    BY <2>1, GrantsAre
  <2> QED  BY <2>2 DEF Init, A!Init
<1>2. TypeOK /\ TypeOK' /\ NewestFirst /\ NeverOvercommitted' /\ [Next]_vars
         => [A!Next]_<<Grants, next_rsv_id, free>>
  BY AdmissionStep
<1> QED  BY <1>1, <1>2, Types, Newest, Overcommit, PTL DEF Spec, ImplementsAdmission, A!Spec

----------------------------------------------------------------------------
(* What rts_taskset_add_sorted_pr leaves: the task is in, the others keep   *)
(* their order, and a list sorted by period stays sorted.                   *)
ByPeriod(s) == \A i, j \in 1 .. Len(s) : i <= j => s[i].period <= s[j].period

(* `us` is the list `s` with task t at place k.                             *)
Inserts(us, s, t, k) ==
    /\ Len(us) = Len(s) + 1
    /\ \A i \in 1 .. Len(s) + 1 :
          us[i] = IF i < k THEN s[i] ELSE IF i = k THEN t ELSE s[i - 1]
    /\ k > 1 => s[1].period <= t.period
    /\ \A i \in 2 .. k - 1 : s[i].period < t.period
    /\ k <= Len(s) => t.period <= s[k].period

LEMMA AddSortedFacts ==
    ASSUME NEW s \in Seq(Task), NEW t \in Task
    PROVE  /\ AddSorted(s, t) \in Seq(Task)
           /\ \E k \in 1 .. Len(s) + 1 : Inserts(AddSorted(s, t), s, t, k)
<1> DEFINE n == Len(s)
           stop == {j \in 2 .. n : t.period <= s[j].period}
           us == AddSorted(s, t)
<1>1. n \in Nat /\ \A i \in 1 .. n : s[i] \in Task /\ s[i].period \in Nat
  <2>1. \A i \in 1 .. n : s[i] \in Task
    BY ElementOfSeq
  <2> QED  BY <2>1, LenProperties DEF Task
<1>2. t.period \in Nat /\ (s = <<>> <=> n = 0)
  BY <1>1, EmptySeq DEF Task
<1>3. CASE s = <<>> \/ t.period < s[1].period
  <2>1. us = AddTop(s, t)
    BY <1>3 DEF AddSorted
  <2>2. /\ AddTop(s, t) \in Seq(Task) /\ Len(AddTop(s, t)) = n + 1 /\ AddTop(s, t)[1] = t
        /\ \A i \in 1 .. n : AddTop(s, t)[i + 1] = s[i]
    BY AddTopFacts
  <2>3. us \in Seq(Task) /\ Len(us) = n + 1
    BY <2>1, <2>2
  <2>4. ASSUME NEW i \in 1 .. n + 1
        PROVE  us[i] = IF i < 1 THEN s[i] ELSE IF i = 1 THEN t ELSE s[i - 1]
    <3>1. CASE i = 1
      BY <2>1, <2>2, <3>1
    <3>2. CASE i # 1
      <4>1. i - 1 \in 1 .. n /\ (i - 1) + 1 = i
        BY <1>1, <3>2
      <4> QED  BY <2>1, <2>2, <3>2, <4>1
    <3> QED  BY <3>1, <3>2
  <2>5. 1 <= n => t.period <= s[1].period
    BY <1>1, <1>2, <1>3
  <2>6. 1 \in 1 .. n + 1 /\ ~(1 > 1) /\ 2 .. 1 - 1 = {}
    BY <1>1
  <2>7. Inserts(us, s, t, 1)
    <3> HIDE DEF us
    <3> QED  BY <2>3, <2>4, <2>5, <2>6 DEF Inserts
  <2> HIDE DEF us
  <2> QED  BY <2>3, <2>6, <2>7 DEF us
<1>4. CASE ~(s = <<>> \/ t.period < s[1].period)
  <2> DEFINE k == IF stop = {} THEN n + 1 ELSE Min(stop)
  <2>1. us = InsertAt(s, k, t)
    BY <1>4 DEF AddSorted
  <2>2. /\ k \in 2 .. n + 1 /\ (k <= n => t.period <= s[k].period)
        /\ \A i \in 2 .. k - 1 : ~(t.period <= s[i].period)
    <3>1. CASE stop = {}
      <4>1. k = n + 1 /\ n # 0
        BY <1>2, <1>4, <3>1
      <4>2. \A i \in 2 .. n : ~(t.period <= s[i].period)
        BY <3>1
      <4> QED  BY <1>1, <4>1, <4>2
    <3>2. CASE stop # {}
      <4>1. stop \in SUBSET Nat
        OBVIOUS
      <4>2. Min(stop) \in stop /\ \A y \in stop : Min(stop) <= y
        <5> HIDE DEF stop
        <5> QED  BY <3>2, <4>1, MinOfNats
      <4>3. k = Min(stop)
        BY <3>2
      <4> DEFINE m == Min(stop)
      <4>4. m \in stop /\ \A y \in stop : m <= y
        BY <4>2
      <4> HIDE DEF m
      <4>5. m \in 2 .. n /\ t.period <= s[m].period
        BY <4>4
      <4>6. \A i \in 2 .. m - 1 : ~(t.period <= s[i].period)
        BY <1>1, <4>4, <4>5
      <4>7. k = m
        BY <4>3 DEF m
      <4>8. /\ m \in 2 .. n + 1 /\ (m <= n => t.period <= s[m].period)
            /\ \A i \in 2 .. m - 1 : ~(t.period <= s[i].period)
        BY <1>1, <4>5, <4>6
      <4> HIDE DEF k
      <4> QED  BY <4>7, <4>8
    <3> QED  BY <3>1, <3>2
  <2> HIDE DEF k, stop
  <2>3. k \in 1 .. n + 1 /\ k > 1
    BY <1>1, <2>2
  <2>4. /\ us \in Seq(Task) /\ Len(us) = n + 1
        /\ \A i \in 1 .. n + 1 : us[i] = IF i < k THEN s[i] ELSE IF i = k THEN t ELSE s[i - 1]
    <3>1. /\ InsertAt(s, k, t) \in Seq(Task) /\ Len(InsertAt(s, k, t)) = Len(s) + 1
          /\ \A i \in 1 .. Len(s) + 1 :
                InsertAt(s, k, t)[i] = IF i < k THEN s[i] ELSE IF i = k THEN t ELSE s[i - 1]
      BY <2>3, InsertAtFacts
    <3> QED  BY <2>1, <3>1
  <2>5. s[1].period <= t.period
    BY <1>1, <1>2, <1>4
  <2>6. \A i \in 2 .. k - 1 : s[i].period < t.period
    BY <1>1, <1>2, <2>2
  <2>7. Inserts(us, s, t, k)
    <3> HIDE DEF us
    <3> QED  BY <2>2, <2>4, <2>5, <2>6 DEF Inserts
  <2> HIDE DEF us
  <2> QED  BY <2>3, <2>4, <2>7 DEF us
<1> QED  BY <1>3, <1>4

LEMMA AddSortedKeeps ==
    ASSUME NEW s \in Seq(Task), NEW t \in Task
    PROVE  /\ AddSorted(s, t) \in Seq(Task)
           /\ Len(AddSorted(s, t)) = Len(s) + 1
           /\ \E k \in 1 .. Len(s) + 1 : AddSorted(s, t)[k] = t
           /\ \A i \in 1 .. Len(s) : \E j \in 1 .. Len(s) + 1 : AddSorted(s, t)[j] = s[i]
           /\ \A j \in 1 .. Len(s) + 1 :
                 AddSorted(s, t)[j] = t \/ \E i \in 1 .. Len(s) : AddSorted(s, t)[j] = s[i]
           /\ ByPeriod(s) => ByPeriod(AddSorted(s, t))
<1> DEFINE n == Len(s)
           us == AddSorted(s, t)
<1>1. n \in Nat /\ t.period \in Nat /\ \A i \in 1 .. n : s[i].period \in Nat
  <2>1. \A i \in 1 .. n : s[i] \in Task
    BY ElementOfSeq
  <2> QED  BY <2>1, LenProperties DEF Task
<1>2. PICK k \in 1 .. n + 1 :
         /\ Len(us) = n + 1
         /\ \A i \in 1 .. n + 1 : us[i] = IF i < k THEN s[i] ELSE IF i = k THEN t ELSE s[i - 1]
         /\ k > 1 => s[1].period <= t.period
         /\ \A i \in 2 .. k - 1 : s[i].period < t.period
         /\ k <= n => t.period <= s[k].period
  BY AddSortedFacts DEF Inserts
<1>3. us \in Seq(Task)
  BY AddSortedFacts
<1> HIDE DEF us, n
<1>4. us[k] = t
  BY <1>1, <1>2
<1>5. ASSUME NEW i \in 1 .. n PROVE \E j \in 1 .. n + 1 : us[j] = s[i]
  <2>1. CASE i < k
    <3>1. i \in 1 .. n + 1
      BY <1>1
    <3> QED  BY <1>2, <2>1, <3>1
  <2>2. CASE ~(i < k)
    <3>1. i + 1 \in 1 .. n + 1 /\ ~(i + 1 < k) /\ i + 1 # k /\ (i + 1) - 1 = i
      BY <1>1, <2>2
    <3>2. us[i + 1] = s[i]
      BY <1>2, <3>1
    <3> QED  BY <3>1, <3>2
  <2> QED  BY <2>1, <2>2
<1>6. ASSUME NEW j \in 1 .. n + 1 PROVE us[j] = t \/ \E i \in 1 .. n : us[j] = s[i]
  <2>1. CASE j < k
    <3>1. j \in 1 .. n
      BY <1>1, <2>1
    <3> QED  BY <1>2, <2>1, <3>1
  <2>2. CASE j = k
    BY <1>4, <2>2
  <2>3. CASE j > k
    <3>1. j - 1 \in 1 .. n
      BY <1>1, <2>3
    <3> QED  BY <1>1, <1>2, <2>3, <3>1
  <2> QED  BY <1>1, <2>1, <2>2, <2>3
<1>7. ASSUME ByPeriod(s) PROVE ByPeriod(us)
  <2> DEFINE q(i) == s[i].period
  <2>1. \A i, j \in 1 .. n : i <= j => q(i) <= q(j)
    BY <1>7 DEF ByPeriod, n
  <2>2. \A i \in 1 .. n : q(i) \in Nat
    BY <1>1
  <2>3. \A i \in 1 .. n : i < k => q(i) <= t.period
    <3> SUFFICES ASSUME NEW i \in 1 .. n, i < k PROVE q(i) <= t.period
      OBVIOUS
    <3>1. CASE i = 1
      BY <1>1, <1>2, <3>1
    <3>2. CASE i # 1
      <4>1. i \in 2 .. k - 1
        BY <1>1, <3>2
      <4>2. q(i) < t.period
        BY <1>2, <4>1
      <4> QED  BY <1>1, <2>2, <4>2
    <3> QED  BY <3>1, <3>2
  <2>4. \A i \in 1 .. n : k <= i => t.period <= q(i)
    <3> SUFFICES ASSUME NEW i \in 1 .. n, k <= i PROVE t.period <= q(i)
      OBVIOUS
    <3>1. k \in 1 .. n /\ k <= n
      BY <1>1
    <3>2. t.period <= q(k) /\ q(k) <= q(i)
      BY <1>2, <2>1, <3>1
    <3> QED  BY <1>1, <2>2, <3>1, <3>2
  <2>5. \A i \in 1 .. n + 1 :
           us[i].period = IF i < k THEN q(i) ELSE IF i = k THEN t.period ELSE q(i - 1)
    BY <1>2
  <2> HIDE DEF q
  <2>6. ASSUME NEW i \in 1 .. n + 1, NEW j \in 1 .. n + 1, i <= j
        PROVE  us[i].period <= us[j].period
    <3>1. (i < k => i \in 1 .. n) /\ (j < k => j \in 1 .. n)
      BY <1>1
    <3>2. (i > k => i - 1 \in 1 .. n) /\ (j > k => j - 1 \in 1 .. n)
      BY <1>1
    <3>3. CASE i < k
      <4>1. CASE j < k
        BY <2>1, <2>5, <2>6, <3>1, <3>3, <4>1
      <4>2. CASE j = k
        BY <2>3, <2>5, <3>1, <3>3, <4>2
      <4>3. CASE j > k
        <5>1. j - 1 \in 1 .. n /\ i <= j - 1
          BY <1>1, <3>2, <3>3, <4>3
        <5>2. us[j].period = q(j - 1) /\ us[i].period = q(i)
          BY <1>1, <2>5, <3>3, <4>3
        <5> QED  BY <2>1, <3>1, <3>3, <5>1, <5>2
      <4> QED  BY <1>1, <4>1, <4>2, <4>3
    <3>4. CASE i = k
      <4>1. CASE j = k
        BY <1>1, <2>5, <3>4, <4>1
      <4>2. CASE j > k
        <5>1. j - 1 \in 1 .. n /\ k <= j - 1
          BY <1>1, <3>2, <4>2
        <5>2. us[j].period = q(j - 1) /\ us[i].period = t.period
          BY <1>1, <2>5, <3>4, <4>2
        <5> QED  BY <2>4, <5>1, <5>2
      <4> QED  BY <1>1, <2>6, <3>4, <4>1, <4>2
    <3>5. CASE i > k
      <4>1. j > k /\ i - 1 \in 1 .. n /\ j - 1 \in 1 .. n /\ i - 1 <= j - 1
        BY <1>1, <2>6, <3>2, <3>5
      <4>2. us[j].period = q(j - 1) /\ us[i].period = q(i - 1)
        BY <1>1, <2>5, <3>5, <4>1
      <4> QED  BY <2>1, <4>1, <4>2
    <3> QED  BY <1>1, <3>3, <3>4, <3>5
  <2> QED  BY <1>2, <2>6 DEF ByPeriod
<1> QED  BY <1>2, <1>3, <1>4, <1>5, <1>6, <1>7 DEF us, n

----------------------------------------------------------------------------
(* The list sort_taskset builds: the SSRM tasks of a CPU, every one of them *)
(* and no other, by period.                                                 *)
SsrmOn(t, c) == t.pluginid = SSRM /\ t.cpu = c

LEMMA SsrmSortedFacts ==
    ASSUME NEW ts \in Seq(Task), NEW c
    PROVE  /\ SsrmSorted(ts, c) \in [0 .. Len(ts) -> Seq(Task)]
           /\ SsrmSorted(ts, c)[0] = <<>>
           /\ \A n \in 1 .. Len(ts) :
                 SsrmSorted(ts, c)[n] =
                    IF SsrmOn(ts[n], c) THEN AddSorted(SsrmSorted(ts, c)[n - 1], ts[n])
                    ELSE SsrmSorted(ts, c)[n - 1]
<1> DEFINE N == Len(ts)
           Solves(f) == f = [n \in 0 .. N |->
                                IF n = 0 THEN <<>>
                                ELSE IF SsrmOn(ts[n], c) THEN AddSorted(f[n - 1], ts[n])
                                ELSE f[n - 1]]
           G == [n \in 1 .. N |->
                    [s \in Seq(Task) |-> IF SsrmOn(ts[n], c) THEN AddSorted(s, ts[n]) ELSE s]]
           C == SsrmSorted(ts, c)
<1>1. N \in Nat /\ \A n \in 1 .. N : ts[n] \in Task
  BY LenProperties, ElementOfSeq
<1>2. <<>> \in Seq(Task)
  OBVIOUS
<1>3. \A n \in 1 .. N, s \in Seq(Task) : AddSorted(s, ts[n]) \in Seq(Task)
  BY <1>1, AddSortedFacts
<1>4. G \in [1 .. N -> [Seq(Task) -> Seq(Task)]]
  BY <1>3
<1>5. \A n \in 1 .. N, s \in Seq(Task) :
         G[n][s] = IF SsrmOn(ts[n], c) THEN AddSorted(s, ts[n]) ELSE s
  OBVIOUS
<1> HIDE DEF G
<1>6. PICK f \in [0 .. N -> Seq(Task)] : f[0] = <<>> /\ \A n \in 1 .. N : f[n] = G[n][f[n - 1]]
  <2> DEFINE Q == Seq(Task)
             b == <<>>
  <2>1. N \in Nat /\ b \in Q /\ G \in [1 .. N -> [Q -> Q]]
    BY <1>1, <1>2, <1>4
  <2> HIDE DEF N, Q, b
  <2>2. \E f \in [0 .. N -> Q] : f[0] = b /\ \A n \in 1 .. N : f[n] = G[n][f[n - 1]]
    BY <2>1, StepsExist
  <2> QED  BY <2>2 DEF Q, b
<1>7. ASSUME NEW n \in 1 .. N
      PROVE  f[n] = IF SsrmOn(ts[n], c) THEN AddSorted(f[n - 1], ts[n]) ELSE f[n - 1]
  <2>1. n - 1 \in 0 .. N
    BY <1>1
  <2>2. f[n - 1] \in Seq(Task)
    BY <2>1
  <2> QED  BY <1>5, <1>6, <2>2
<1>8. Solves(f)
  <2> DEFINE value(n) == IF n = 0 THEN <<>>
                         ELSE IF SsrmOn(ts[n], c) THEN AddSorted(f[n - 1], ts[n])
                         ELSE f[n - 1]
  <2>1. ASSUME NEW n \in 0 .. N PROVE f[n] = value(n)
    <3>1. n = 0 \/ n \in 1 .. N
      BY <1>1
    <3> QED  BY <1>1, <1>6, <1>7, <3>1
  <2>2. f = [n \in 0 .. N |-> f[n]]
    OBVIOUS
  <2> HIDE DEF value, N
  <2>3. f = [n \in 0 .. N |-> value(n)]
    BY <2>1, <2>2
  <2> QED  BY <2>3 DEF value
<1>9. C = CHOOSE g : Solves(g)
  BY DEF SsrmSorted, SsrmOn
<1>10. Solves(C)
  <2> HIDE DEF Solves, C
  <2> QED  BY <1>8, <1>9
<1>11. DOMAIN C = 0 .. N /\ C[0] = <<>>
  <2> HIDE DEF C
  <2> QED  BY <1>1, <1>10
<1>12. ASSUME NEW n \in 1 .. N
       PROVE  C[n] = IF SsrmOn(ts[n], c) THEN AddSorted(C[n - 1], ts[n]) ELSE C[n - 1]
  <2> HIDE DEF C
  <2>1. n \in 0 .. N /\ n # 0
    BY <1>1
  <2>2. C = [m \in 0 .. N |-> IF m = 0 THEN <<>>
                              ELSE IF SsrmOn(ts[m], c) THEN AddSorted(C[m - 1], ts[m])
                              ELSE C[m - 1]]
    BY <1>10
  <2>3. C[n] = IF n = 0 THEN <<>>
               ELSE IF SsrmOn(ts[n], c) THEN AddSorted(C[n - 1], ts[n])
               ELSE C[n - 1]
    BY <2>1, <2>2
  <2> QED  BY <2>1, <2>3
<1>13. \A n \in 0 .. N : C[n] \in Seq(Task)
  <2> DEFINE U == {n \in Nat : n <= N => C[n] \in Seq(Task)}
  <2> HIDE DEF C
  <2>1. 0 \in U
    BY <1>2, <1>11
  <2>2. ASSUME NEW n \in Nat, n \in U PROVE n + 1 \in U
    <3> SUFFICES ASSUME n + 1 <= N PROVE C[n + 1] \in Seq(Task)
      OBVIOUS
    <3>1. C[n] \in Seq(Task) /\ n + 1 \in 1 .. N /\ (n + 1) - 1 = n
      BY <1>1, <2>2
    <3>2. AddSorted(C[n], ts[n + 1]) \in Seq(Task)
      BY <1>3, <3>1
    <3> QED  BY <1>12, <3>1, <3>2
  <2> HIDE DEF U
  <2>3. \A n \in Nat : n \in U
    BY <2>1, <2>2, SetInduction
  <2>4. ASSUME NEW n \in 0 .. N PROVE C[n] \in Seq(Task)
    <3>1. n \in U
      BY <2>3
    <3> QED  BY <3>1 DEF U
  <2> QED  BY <2>4
<1>14. C \in [0 .. N -> Seq(Task)]
  <2> HIDE DEF C, N
  <2>1. C = [n \in 0 .. N |-> C[n]]
    BY <1>10, <1>11 DEF Solves
  <2> QED  BY <1>13, <2>1
<1> QED  BY <1>11, <1>12, <1>14

(* How many they are, as a sum over the list.                               *)
SsrmFlag(ts, c) ==
    [i \in Nat |-> IF i \in 1 .. Len(ts) /\ SsrmOn(ts[i], c) THEN 1 ELSE 0]

SsrmCount(ts, c) == PrefixSum(SsrmFlag(ts, c))[Len(ts)]

(* What holds of the list s built from the first n nodes of ts.             *)
Gathers(s, ts, n, c) ==
    /\ s \in Seq(Task)
    /\ Len(s) = PrefixSum(SsrmFlag(ts, c))[n]
    /\ ByPeriod(s)
    /\ \A i \in 1 .. n : SsrmOn(ts[i], c) => \E j \in 1 .. Len(s) : s[j] = ts[i]
    /\ \A j \in 1 .. Len(s) : \E i \in 1 .. n : SsrmOn(ts[i], c) /\ s[j] = ts[i]

LEMMA GathersNext ==
    ASSUME NEW ts \in Seq(Task), NEW c, NEW n \in Nat, n + 1 <= Len(ts), NEW s,
           Gathers(s, ts, n, c)
    PROVE  Gathers(IF SsrmOn(ts[n + 1], c) THEN AddSorted(s, ts[n + 1]) ELSE s, ts, n + 1, c)
<1> DEFINE t == ts[n + 1]
           us == AddSorted(s, t)
           a == SsrmFlag(ts, c)
<1>1. n + 1 \in 1 .. Len(ts)
  BY LenProperties
<1>2. t \in Task
  BY <1>1, ElementOfSeq
<1>3. a \in [Nat -> Int] /\ a[n + 1] = IF SsrmOn(t, c) THEN 1 ELSE 0
  BY <1>1 DEF SsrmFlag
<1>4. PrefixSum(a)[n + 1] = PrefixSum(a)[n] + a[n + 1] /\ PrefixSum(a)[n] \in Int
  <2> HIDE DEF a
  <2> QED  BY <1>3, PrefixSumEquations
<1>5. CASE SsrmOn(t, c)
  <2>1. s \in Seq(Task) /\ Len(s) \in Nat
    BY LenProperties DEF Gathers
  <2>2. /\ us \in Seq(Task)
        /\ Len(us) = Len(s) + 1
        /\ \E k \in 1 .. Len(s) + 1 : us[k] = t
        /\ \A i \in 1 .. Len(s) : \E j \in 1 .. Len(s) + 1 : us[j] = s[i]
        /\ \A j \in 1 .. Len(s) + 1 : us[j] = t \/ \E i \in 1 .. Len(s) : us[j] = s[i]
        /\ ByPeriod(s) => ByPeriod(us)
    BY <1>2, <2>1, AddSortedKeeps
  <2> HIDE DEF us, t
  <2>3. Len(us) = PrefixSum(a)[n + 1]
    BY <1>3, <1>4, <1>5, <2>1, <2>2 DEF Gathers
  <2>4. ASSUME NEW i \in 1 .. n + 1, SsrmOn(ts[i], c)
        PROVE  \E j \in 1 .. Len(us) : us[j] = ts[i]
    <3>1. CASE i = n + 1
      BY <2>2, <3>1 DEF t
    <3>2. CASE i # n + 1
      <4>1. i \in 1 .. n
        BY <3>2
      <4>2. PICK j \in 1 .. Len(s) : s[j] = ts[i]
        BY <2>4, <4>1 DEF Gathers
      <4> QED  BY <2>2, <4>2
    <3> QED  BY <3>1, <3>2
  <2>5. ASSUME NEW j \in 1 .. Len(us)
        PROVE  \E i \in 1 .. n + 1 : SsrmOn(ts[i], c) /\ us[j] = ts[i]
    <3>1. CASE us[j] = t
      <4>1. n + 1 \in 1 .. n + 1
        OBVIOUS
      <4> QED  BY <1>5, <3>1, <4>1 DEF t
    <3>2. CASE \E i \in 1 .. Len(s) : us[j] = s[i]
      <4>1. PICK m \in 1 .. Len(s) : us[j] = s[m]
        BY <3>2
      <4>2. PICK i \in 1 .. n : SsrmOn(ts[i], c) /\ s[m] = ts[i]
        BY <4>1 DEF Gathers
      <4>3. i \in 1 .. n + 1
        OBVIOUS
      <4> QED  BY <4>1, <4>2, <4>3
    <3> QED  BY <2>2, <3>1, <3>2
  <2>6. ByPeriod(us)
    BY <2>2 DEF Gathers
  <2>7. Gathers(us, ts, n + 1, c)
    BY <2>2, <2>3, <2>4, <2>5, <2>6 DEF Gathers
  <2> QED  BY <1>5, <2>7 DEF us, t
<1>6. CASE ~SsrmOn(t, c)
  <2>1. Len(s) = PrefixSum(a)[n + 1]
    BY <1>3, <1>4, <1>6 DEF Gathers
  <2>2. ASSUME NEW i \in 1 .. n + 1, SsrmOn(ts[i], c) PROVE i \in 1 .. n
    BY <1>6, <2>2
  <2>3. 1 .. n \in SUBSET (1 .. n + 1)
    OBVIOUS
  <2>4. Gathers(s, ts, n + 1, c)
    BY <2>1, <2>2, <2>3 DEF Gathers
  <2> QED  BY <1>6, <2>4
<1> QED  BY <1>5, <1>6

LEMMA SsrmTasksFacts ==
    ASSUME NEW ts \in Seq(Task), NEW c
    PROVE  Gathers(SsrmTasks(ts, c), ts, Len(ts), c)
<1> DEFINE F == SsrmSorted(ts, c)
           U == {n \in Nat : n <= Len(ts) => Gathers(F[n], ts, n, c)}
<1>1. /\ F[0] = <<>> /\ Len(ts) \in Nat
      /\ \A n \in 1 .. Len(ts) :
            F[n] = IF SsrmOn(ts[n], c) THEN AddSorted(F[n - 1], ts[n]) ELSE F[n - 1]
  BY SsrmSortedFacts, LenProperties
<1> HIDE DEF F
<1>2. Gathers(<<>>, ts, 0, c)
  <2>1. SsrmFlag(ts, c) \in [Nat -> Int]
    BY DEF SsrmFlag
  <2>2. PrefixSum(SsrmFlag(ts, c))[0] = 0
    BY <2>1, PrefixSumEquations
  <2>3. <<>> \in Seq(Task) /\ Len(<<>>) = 0 /\ 1 .. 0 = {}
    BY EmptySeq
  <2>4. ByPeriod(<<>>)
    BY <2>3 DEF ByPeriod
  <2> QED  BY <2>2, <2>3, <2>4 DEF Gathers
<1>3. 0 \in U
  BY <1>1, <1>2
<1>4. ASSUME NEW n \in Nat, n \in U PROVE n + 1 \in U
  <2> SUFFICES ASSUME n + 1 <= Len(ts) PROVE Gathers(F[n + 1], ts, n + 1, c)
    OBVIOUS
  <2>1. Gathers(F[n], ts, n, c) /\ n + 1 \in 1 .. Len(ts) /\ (n + 1) - 1 = n
    BY <1>1, <1>4
  <2>2. F[n + 1] = IF SsrmOn(ts[n + 1], c) THEN AddSorted(F[n], ts[n + 1]) ELSE F[n]
    BY <1>1, <2>1
  <2>3. Gathers(IF SsrmOn(ts[n + 1], c) THEN AddSorted(F[n], ts[n + 1]) ELSE F[n], ts, n + 1, c)
    BY <2>1, GathersNext
  <2> QED  BY <2>2, <2>3
<1> HIDE DEF U
<1>5. Len(ts) \in U
  BY <1>1, <1>3, <1>4, SetInduction
<1> QED  BY <1>1, <1>5 DEF U, F, SsrmTasks

----------------------------------------------------------------------------
(* THE PRIORITY POOLS *)

(* The SSRM tasks of every CPU fit in the SSRM pool.                        *)
PoolHolds(ts) ==
    \A c \in CPUs : SsrmCount(ts, c) <= (PrioMax[SSRM] - PrioMin[SSRM]) + 1

InPool(t) == t.pluginid # EDF => t.schedprio \in PrioMin[t.pluginid] .. PrioMax[t.pluginid]

LEMMA FlagFacts ==
    ASSUME NEW ts, NEW c
    PROVE  /\ SsrmFlag(ts, c) \in [Nat -> Int]
           /\ \A i \in Nat : SsrmFlag(ts, c)[i] \in 0 .. 1
           /\ \A i \in 1 .. Len(ts) : SsrmFlag(ts, c)[i] = IF SsrmOn(ts[i], c) THEN 1 ELSE 0
           /\ \A n \in Nat : PrefixSum(SsrmFlag(ts, c))[n] \in Int
<1> DEFINE a == SsrmFlag(ts, c)
<1>1. /\ a \in [Nat -> Int]
      /\ \A i \in Nat : a[i] \in 0 .. 1
  BY DEF SsrmFlag
<1>2. \A i \in Nat : i \in 1 .. Len(ts) => a[i] = IF SsrmOn(ts[i], c) THEN 1 ELSE 0
  BY DEF SsrmFlag
<1>3. \A i \in 1 .. Len(ts) : i \in Nat
  OBVIOUS
<1> HIDE DEF a
<1>4. \A n \in Nat : PrefixSum(a)[n] \in Int
  BY <1>1, PrefixSumEquations
<1> QED  BY <1>1, <1>2, <1>3, <1>4 DEF a

LEMMA CountSame ==
    ASSUME NEW ts \in Seq(Task), NEW us \in Seq(Task), Len(us) = Len(ts), NEW c,
           \A i \in 1 .. Len(ts) : us[i].cpu = ts[i].cpu /\ us[i].pluginid = ts[i].pluginid
    PROVE  SsrmCount(us, c) = SsrmCount(ts, c)
<1> DEFINE a == SsrmFlag(ts, c)
           b == SsrmFlag(us, c)
<1>1. a \in [Nat -> Int] /\ b \in [Nat -> Int] /\ Len(ts) \in Nat
  BY FlagFacts, LenProperties
<1>2. ASSUME NEW i \in 1 .. Len(ts) PROVE b[i] = a[i]
  <2>1. SsrmOn(us[i], c) <=> SsrmOn(ts[i], c)
    BY DEF SsrmOn
  <2>2. a[i] = IF SsrmOn(ts[i], c) THEN 1 ELSE 0
    BY FlagFacts
  <2>3. b[i] = IF SsrmOn(us[i], c) THEN 1 ELSE 0
    <3>1. i \in 1 .. Len(us)
      OBVIOUS
    <3> QED  BY <3>1, FlagFacts
  <2> QED  BY <2>1, <2>2, <2>3
<1> HIDE DEF a, b
<1>3. PrefixSum(b)[Len(ts)] = PrefixSum(a)[Len(ts)]
  BY <1>1, <1>2, PrefixSumSame
<1> QED  BY <1>3 DEF a, b, SsrmCount

LEMMA CountAddTop ==
    ASSUME NEW ts \in Seq(Task), NEW t \in Task, NEW c
    PROVE  SsrmCount(AddTop(ts, t), c) = (IF SsrmOn(t, c) THEN 1 ELSE 0) + SsrmCount(ts, c)
<1> DEFINE us == AddTop(ts, t)
           a == SsrmFlag(ts, c)
           b == SsrmFlag(us, c)
           n == Len(ts)
<1>1. a \in [Nat -> Int] /\ b \in [Nat -> Int] /\ n \in Nat
  BY FlagFacts, LenProperties
<1>2. us \in Seq(Task) /\ Len(us) = n + 1 /\ us[1] = t /\ \A i \in 1 .. n : us[i + 1] = ts[i]
  BY AddTopFacts
<1> HIDE DEF us
<1>3. \A i \in 1 .. n + 1 : b[i] = IF SsrmOn(us[i], c) THEN 1 ELSE 0
  BY <1>2, FlagFacts
<1>4. \A i \in 1 .. n : a[i] = IF SsrmOn(ts[i], c) THEN 1 ELSE 0
  BY FlagFacts
<1>5. ASSUME NEW i \in 1 .. n PROVE b[i + 1] = a[i]
  <2>1. i + 1 \in 1 .. n + 1
    BY <1>1
  <2> QED  BY <1>2, <1>3, <1>4, <2>1
<1>6. b[1] = IF SsrmOn(t, c) THEN 1 ELSE 0
  <2>1. 1 \in 1 .. n + 1
    BY <1>1
  <2> QED  BY <1>2, <1>3, <2>1
<1> HIDE DEF a, b, n
<1>7. PrefixSum(b)[n + 1] = b[1] + PrefixSum(a)[n]
  BY <1>1, <1>5, PrefixSumPrepend
<1> QED  BY <1>2, <1>6, <1>7 DEF a, b, n, us, SsrmCount

LEMMA CountRemoveAt ==
    ASSUME NEW ts \in Seq(Task), NEW k \in 1 .. Len(ts), NEW c
    PROVE  SsrmCount(RemoveAt(ts, k), c) <= SsrmCount(ts, c)
<1> DEFINE us == RemoveAt(ts, k)
           a == SsrmFlag(ts, c)
           b == SsrmFlag(us, c)
           n == Len(ts) - 1
<1>1. a \in [Nat -> Int] /\ b \in [Nat -> Int] /\ n \in Nat /\ Len(ts) = n + 1
  BY FlagFacts, LenProperties
<1>2. /\ us \in Seq(Task) /\ Len(us) = n
      /\ \A i \in 1 .. n : us[i] = IF i < k THEN ts[i] ELSE ts[i + 1]
  BY RemoveAtFacts
<1> HIDE DEF us
<1>3. \A i \in 1 .. n : b[i] = IF SsrmOn(us[i], c) THEN 1 ELSE 0
  BY <1>2, FlagFacts
<1>4. \A i \in 1 .. n + 1 : a[i] = IF SsrmOn(ts[i], c) THEN 1 ELSE 0
  BY <1>1, FlagFacts
<1>5. ASSUME NEW i \in 1 .. n PROVE b[i] = IF i < k THEN a[i] ELSE a[i + 1]
  <2>1. i \in 1 .. n + 1 /\ i + 1 \in 1 .. n + 1
    BY <1>1
  <2> QED  BY <1>2, <1>3, <1>4, <2>1
<1>6. a[k] \in 0 .. 1 /\ PrefixSum(a)[n + 1] \in Int /\ k \in 1 .. n + 1
  BY <1>1, FlagFacts
<1> HIDE DEF a, b, n
<1>7. PrefixSum(b)[n] = PrefixSum(a)[n + 1] - a[k]
  BY <1>1, <1>5, <1>6, PrefixSumRemove
<1>8. PrefixSum(b)[n] <= PrefixSum(a)[n + 1]
  BY <1>6, <1>7
<1> QED  BY <1>1, <1>2, <1>8 DEF a, b, us, SsrmCount

(* A task of the list is found by its id among the SSRM tasks of its CPU.   *)
LEMMA SsrmFound ==
    ASSUME NEW ts \in Seq(Task), NEW k \in 1 .. Len(ts), ts[k].pluginid = SSRM
    PROVE  LET s == SsrmTasks(ts, ts[k].cpu)
               j == IterIndex(s, ts[k].id)
           IN  /\ s \in Seq(Task) /\ Len(s) \in Nat
               /\ j \in 1 .. Len(s) /\ s[j].id = ts[k].id
               /\ Len(s) = SsrmCount(ts, ts[k].cpu)
<1> DEFINE c == ts[k].cpu
           s == SsrmTasks(ts, c)
           hits == IndexesByRsvid(s, ts[k].id)
           j == IterIndex(s, ts[k].id)
<1>1. Gathers(s, ts, Len(ts), c)
  BY SsrmTasksFacts
<1> HIDE DEF s
<1>2. s \in Seq(Task) /\ Len(s) \in Nat /\ Len(s) = SsrmCount(ts, c)
  BY <1>1, LenProperties DEF Gathers, SsrmCount
<1>3. PICK i \in 1 .. Len(s) : s[i] = ts[k]
  BY <1>1 DEF Gathers, SsrmOn
<1>4. i \in hits /\ hits \in SUBSET (1 .. Len(s))
  BY <1>3 DEF IndexesByRsvid
<1>5. Min(hits) \in hits
  <2> HIDE DEF hits
  <2> QED  BY <1>4, MinOfIndexes
<1>6. j = Min(hits)
  BY <1>4 DEF IterIndex
<1>7. \A m \in hits : s[m].id = ts[k].id
  BY DEF IndexesByRsvid
<1>8. j \in 1 .. Len(s) /\ s[j].id = ts[k].id
  <2> HIDE DEF hits, j
  <2> QED  BY <1>4, <1>5, <1>6, <1>7
<1> QED  BY <1>2, <1>8 DEF s

(* t_calc_prio stays in the pool of the task's plugin.                      *)
LEMMA CalcPrioInPool ==
    ASSUME NEW ts \in Seq(Task), NEW k \in 1 .. Len(ts), PoolHolds(ts), NEW p,
           p = ts[k].pluginid, p # EDF
    PROVE  CalcPrio(ts, ts[k]) \in PrioMin[p] .. PrioMax[p]
<1>1. ts[k] \in Task
  BY ElementOfSeq
<1>2. ts[k].cpu \in CPUs /\ p \in Plugins
  BY <1>1 DEF Task
<1>3. CASE p = SSRM
  <2> DEFINE s == SsrmTasks(ts, ts[k].cpu)
             j == IterIndex(s, ts[k].id)
  <2>1. /\ Len(s) \in Nat /\ j \in 1 .. Len(s)
        /\ Len(s) = SsrmCount(ts, ts[k].cpu)
    BY <1>3, SsrmFound
  <2>2. Len(s) <= (PrioMax[SSRM] - PrioMin[SSRM]) + 1
    BY <1>2, <2>1 DEF PoolHolds
  <2>3. CalcPrio(ts, ts[k]) = PrioMax[SSRM] + 1 - j
    <3>1. SSRM # EDF
      BY PluginFacts
    <3> QED  BY <1>3, <3>1 DEF CalcPrio
  <2>4. PrioMax[SSRM] \in Nat /\ PrioMin[SSRM] \in Nat
    BY PluginFacts
  <2> HIDE DEF s, j
  <2>5. PrioMax[SSRM] + 1 - j \in PrioMin[SSRM] .. PrioMax[SSRM]
    BY <2>1, <2>2, <2>4
  <2> QED  BY <1>3, <2>3, <2>5
<1>4. CASE p # SSRM
  <2>1. CalcPrio(ts, ts[k]) = PrioRemap(p, ts, ts[k].priority)
    BY <1>4 DEF CalcPrio
  <2>2. PrioRemap(p, ts, ts[k].priority) \in PrioMin[p] .. PrioMax[p]
    BY PrioRemapInPool
  <2> QED  BY <2>1, <2>2
<1> QED  BY <1>3, <1>4

(* The plugin and the CPU a creation chooses passed its test: for SSRM,     *)
(* that its pool has room.                                                  *)
LEMMA BestHasRoom ==
    ASSUME TypeOK, NEW t \in Task, NEW wa, BestPlugins(tasks, t, free, wa) # {},
           NEW p, p = Min(BestPlugins(tasks, t, free, wa)), p = SSRM,
           NEW c, c = Min(TestCpus(p, tasks, t, free, wa))
    PROVE  SsrmCount(tasks, c) + 1 <= (PrioMax[SSRM] - PrioMin[SSRM]) + 1
<1> DEFINE best == BestPlugins(tasks, t, free, wa)
           cpus == TestCpus(p, tasks, t, free, wa)
           s == SsrmTasks(tasks, c)
<1>1. best \in SUBSET Plugins /\ \A q \in best : TTest(q, tasks, t, free, wa) > 0
  BY DEF BestPlugins
<1>2. best \in SUBSET Nat
  BY <1>1, PluginFacts
<1>3. p \in best
  <2> HIDE DEF best
  <2> QED  BY <1>2, MinOfNats DEF best
<1>4. cpus # {}
  BY <1>1, <1>3 DEF TTest
<1>5. cpus \in SUBSET CPUs /\ \A d \in cpus : SsrmReaches(tasks, t, free, d)
  BY DEF TestCpus
<1>6. c \in cpus
  <2>1. c = Min(cpus)
    OBVIOUS
  <2> HIDE DEF cpus
  <2> QED  BY <1>4, <1>5, <2>1, PluginFacts, MinOfNats
<1>7. Len(AddSorted(s, t)) <= (PrioMax[SSRM] - PrioMin[SSRM]) + 1
  <2>1. SsrmReaches(tasks, t, free, c)
    BY <1>5, <1>6
  <2> QED  BY <2>1 DEF SsrmReaches
<1>8. s \in Seq(Task) /\ Len(s) = SsrmCount(tasks, c)
  BY SsrmTasksFacts DEF TypeOK, Gathers, SsrmCount
<1> HIDE DEF s
<1>9. Len(AddSorted(s, t)) = Len(s) + 1
  BY <1>8, AddSortedKeeps
<1> QED  BY <1>7, <1>8, <1>9

LEMMA CreateInPool ==
    ASSUME TypeOK, PoolHolds(tasks), NEW par \in Params, NEW ppid \in Pids,
           NEW est \in Estimates, NEW wa, RsvCreate(par, ppid, est, wa)
    PROVE  \E u \in Task :
              tasks' = AddTop(tasks, u) /\ InPool(u) /\ PoolHolds(AddTop(tasks, u))
<1> DEFINE t == NewTask(par, ppid, est)
           best == BestPlugins(tasks, t, free, wa)
           p == Min(best)
           c == Min(TestCpus(p, tasks, t, free, wa))
           placed == [t EXCEPT !.cpu = c, !.pluginid = p]
           ts == AddTop(tasks, placed)
           x == CalcPrio(ts, placed)
           u == [placed EXCEPT !.schedprio = x]
<1>1. best # {} /\ Assign(t, p, c)
  BY DEF RsvCreate
<1>2. t \in Task /\ tasks \in Seq(Task)
  BY NewTaskFacts DEF TypeOK
<1> HIDE DEF t
<1>3. p \in Plugins /\ c \in CPUs
  BY <1>1, BestFacts
<1>4. p = SSRM => SsrmCount(tasks, c) + 1 <= (PrioMax[SSRM] - PrioMin[SSRM]) + 1
  BY <1>1, <1>2, BestHasRoom
<1> HIDE DEF p, c
<1>5. placed \in Task /\ placed.cpu = c /\ placed.pluginid = p
  BY <1>2, <1>3 DEF Task
<1>6. tasks' = [ts EXCEPT ![1].schedprio = x]
  BY <1>1 DEF Assign
<1> HIDE DEF placed
<1>7. /\ ts \in Seq(Task) /\ Len(ts) = Len(tasks) + 1 /\ ts[1] = placed
      /\ \A i \in 1 .. Len(tasks) : ts[i + 1] = tasks[i]
  <2>1. placed \in Task /\ tasks \in Seq(Task)
    BY <1>2, <1>5
  <2>2. /\ AddTop(tasks, placed) \in Seq(Task)
        /\ Len(AddTop(tasks, placed)) = Len(tasks) + 1
        /\ AddTop(tasks, placed)[1] = placed
        /\ \A i \in 1 .. Len(tasks) : AddTop(tasks, placed)[i + 1] = tasks[i]
    BY <2>1, AddTopFacts
  <2> QED  BY <2>2
<1>8. Len(tasks) \in Nat /\ 1 \in 1 .. Len(ts)
  BY <1>2, <1>7, LenProperties
<1>9. PoolHolds(ts)
  <2> SUFFICES ASSUME NEW d \in CPUs
               PROVE  SsrmCount(ts, d) <= (PrioMax[SSRM] - PrioMin[SSRM]) + 1
    BY DEF PoolHolds
  <2>1. SsrmCount(ts, d) = (IF SsrmOn(placed, d) THEN 1 ELSE 0) + SsrmCount(tasks, d)
    BY <1>2, <1>5, CountAddTop
  <2>2. SsrmCount(tasks, d) <= (PrioMax[SSRM] - PrioMin[SSRM]) + 1
    BY DEF PoolHolds
  <2>3. SsrmCount(tasks, d) \in Int
    BY <1>8, FlagFacts DEF SsrmCount
  <2>4. CASE SsrmOn(placed, d)
    <3>1. p = SSRM /\ d = c
      BY <1>5, <2>4 DEF SsrmOn
    <3> QED  BY <1>4, <2>1, <2>3, <2>4, <3>1
  <2>5. CASE ~SsrmOn(placed, d)
    BY <2>1, <2>2, <2>3, <2>5
  <2> QED  BY <2>4, <2>5
<1> HIDE DEF ts
<1>10. p # EDF => x \in PrioMin[p] .. PrioMax[p]
  BY <1>5, <1>7, <1>8, <1>9, CalcPrioInPool
<1>11. x \in Int
  BY <1>7, <1>8, CalcPrioInt
<1> HIDE DEF x
<1>12. /\ u \in Task /\ tasks' \in Seq(Task) /\ Len(tasks') = Len(ts)
       /\ \A j \in 1 .. Len(ts) : tasks'[j] = IF j = 1 THEN u ELSE ts[j]
  BY <1>6, <1>7, <1>8, <1>11, ReprioFacts
<1>13. u.pluginid = p /\ u.cpu = c /\ u.schedprio = x
  BY <1>5 DEF Task
<1> HIDE DEF u
<1>14. InPool(u)
  BY <1>10, <1>13 DEF InPool
<1> DEFINE us == AddTop(tasks, u)
<1>15. /\ us \in Seq(Task) /\ Len(us) = Len(tasks) + 1 /\ us[1] = u
       /\ \A i \in 1 .. Len(tasks) : us[i + 1] = tasks[i]
  <2>1. /\ AddTop(tasks, u) \in Seq(Task)
        /\ Len(AddTop(tasks, u)) = Len(tasks) + 1
        /\ AddTop(tasks, u)[1] = u
        /\ \A i \in 1 .. Len(tasks) : AddTop(tasks, u)[i + 1] = tasks[i]
    BY <1>2, <1>12, AddTopFacts
  <2> QED  BY <2>1
<1> HIDE DEF us
<1>16. ASSUME NEW i \in 1 .. Len(ts)
       PROVE  us[i] = IF i = 1 THEN u ELSE ts[i]
  <2>1. CASE i = 1
    BY <1>15, <2>1
  <2>2. CASE i # 1
    <3>1. i - 1 \in 1 .. Len(tasks) /\ (i - 1) + 1 = i
      BY <1>7, <1>8, <2>2
    <3> QED  BY <1>7, <1>15, <2>2, <3>1
  <2> QED  BY <2>1, <2>2
<1>17. tasks' = us
  <2>1. tasks' \in Seq(Task) /\ us \in Seq(Task)
    BY <1>12, <1>15
  <2>2. Len(tasks') = Len(us)
    BY <1>7, <1>12, <1>15
  <2>3. \A i \in 1 .. Len(us) : tasks'[i] = us[i]
    BY <1>12, <1>16, <2>2
  <2> QED  BY <2>1, <2>2, <2>3, SeqEqual
<1>18. \A i \in 1 .. Len(ts) : us[i].cpu = ts[i].cpu /\ us[i].pluginid = ts[i].pluginid
  BY <1>5, <1>7, <1>13, <1>16
<1>19. PoolHolds(us)
  <2>1. ASSUME NEW d \in CPUs PROVE SsrmCount(us, d) = SsrmCount(ts, d)
    BY <1>7, <1>15, <1>18, CountSame
  <2> QED  BY <1>9, <2>1 DEF PoolHolds
<1> QED  BY <1>12, <1>14, <1>17, <1>19 DEF us

(* A single refresh computes the priority of its task anew.                 *)
LEMMA RefreshInPool ==
    ASSUME TypeOK, PoolHolds(tasks), NEW rsvid, NEW est \in Estimates,
           RefreshSingle(rsvid, est)
    PROVE  \E k \in 1 .. Len(tasks), u \in Task :
              /\ u.cpu = tasks[k].cpu /\ u.pluginid = tasks[k].pluginid /\ InPool(u)
              /\ tasks' \in Seq(Task) /\ Len(tasks') = Len(tasks)
              /\ \A j \in 1 .. Len(tasks) : tasks'[j] = IF j = k THEN u ELSE tasks[j]
<1> DEFINE k == SearchIndex(tasks, IndexesByRsvid(tasks, rsvid))
           old == tasks[k]
           t == [old EXCEPT !.util = TaskUtil(old, est)]
           ts == [tasks EXCEPT ![k] = t]
           x == CalcPrio(ts, t)
           u == [t EXCEPT !.schedprio = x]
<1>1. k # 0 /\ tasks' = [ts EXCEPT ![k].schedprio = x]
  BY DEF RefreshSingle
<1>2. tasks \in Seq(Task) /\ Len(tasks) \in Nat
  BY LenProperties DEF TypeOK
<1>3. k \in 1 .. Len(tasks)
  <2>1. k \in 0 .. Len(tasks)
    BY <1>2, IndexFacts
  <2> QED  BY <1>1, <1>2, <2>1
<1> HIDE DEF k
<1>4. old \in Task
  BY <1>2, <1>3, ElementOfSeq
<1> HIDE DEF old
<1>5. TaskUtil(old, est) \in Nat
  BY <1>4, TaskUtilNat DEF Task
<1>6. t \in Task /\ t.cpu = old.cpu /\ t.pluginid = old.pluginid
  BY <1>4, <1>5 DEF Task
<1> HIDE DEF t
<1>7. /\ ts \in Seq(Task) /\ Len(ts) = Len(tasks)
      /\ \A j \in 1 .. Len(tasks) : ts[j] = IF j = k THEN t ELSE tasks[j]
  BY <1>2, <1>3, <1>6, ExceptSeq
<1>8. k \in 1 .. Len(ts) /\ ts[k] = t
  BY <1>3, <1>7
<1> HIDE DEF ts
<1>9. \A j \in 1 .. Len(tasks) : ts[j].cpu = tasks[j].cpu /\ ts[j].pluginid = tasks[j].pluginid
  BY <1>6, <1>7 DEF old
<1>10. PoolHolds(ts)
  <2>1. ASSUME NEW d \in CPUs PROVE SsrmCount(ts, d) = SsrmCount(tasks, d)
    BY <1>2, <1>7, <1>9, CountSame
  <2> QED  BY <2>1 DEF PoolHolds
<1>11. t.pluginid # EDF => x \in PrioMin[t.pluginid] .. PrioMax[t.pluginid]
  BY <1>7, <1>8, <1>10, CalcPrioInPool
<1>12. x \in Int
  BY <1>7, <1>8, CalcPrioInt
<1> HIDE DEF x
<1>13. /\ u \in Task /\ tasks' \in Seq(Task) /\ Len(tasks') = Len(ts)
       /\ \A j \in 1 .. Len(ts) : tasks'[j] = IF j = k THEN u ELSE ts[j]
  BY <1>1, <1>7, <1>8, <1>12, ReprioFacts
<1>14. u.cpu = old.cpu /\ u.pluginid = t.pluginid /\ u.schedprio = x
  BY <1>6 DEF Task
<1>15. u.pluginid = old.pluginid
  BY <1>6, <1>14
<1> HIDE DEF u
<1>16. InPool(u)
  BY <1>11, <1>14 DEF InPool
<1>17. \A j \in 1 .. Len(tasks) : tasks'[j] = IF j = k THEN u ELSE tasks[j]
  BY <1>7, <1>13
<1> QED  BY <1>3, <1>7, <1>13, <1>14, <1>15, <1>16, <1>17 DEF old

(* Every step but a creation and a refresh leaves the priorities, and no    *)
(* step puts more SSRM tasks on a CPU than its pool has priorities for.     *)
PoolInv == PoolHolds(tasks) /\ PrioInPool

LEMMA PrioInPoolIs == PrioInPool <=> \A i \in 1 .. Len(tasks) : InPool(tasks[i])
BY DEF PrioInPool, InPool

LEMMA PrioInPoolIsNext == PrioInPool' <=> \A i \in 1 .. Len(tasks') : InPool(tasks'[i])
BY DEF PrioInPool, InPool

LEMMA PoolStep ==
    ASSUME TypeOK, TypeOK', PoolInv, [Next]_vars
    PROVE  PoolInv'
<1> SUFFICES PoolHolds(tasks') /\ \A i \in 1 .. Len(tasks') : InPool(tasks'[i])
  BY PrioInPoolIsNext DEF PoolInv
<1>1. tasks \in Seq(Task) /\ tasks' \in Seq(Task) /\ Len(tasks) \in Nat
  BY LenProperties DEF TypeOK
<1>2. PoolHolds(tasks) /\ \A i \in 1 .. Len(tasks) : InPool(tasks[i])
  BY PrioInPoolIs DEF PoolInv
<1>3. \A d \in CPUs : SsrmCount(tasks, d) <= (PrioMax[SSRM] - PrioMin[SSRM]) + 1
  BY <1>2 DEF PoolHolds
<1>4. ASSUME Len(tasks') = Len(tasks),
             \A i \in 1 .. Len(tasks) :
                tasks'[i].cpu = tasks[i].cpu /\ tasks'[i].pluginid = tasks[i].pluginid
      PROVE  PoolHolds(tasks')
  <2>1. ASSUME NEW d \in CPUs PROVE SsrmCount(tasks', d) = SsrmCount(tasks, d)
    BY <1>1, <1>4, CountSame
  <2> QED  BY <1>3, <2>1 DEF PoolHolds
<1>5. ASSUME NEW k \in 1 .. Len(tasks), NEW u, InPool(u),
             u.cpu = tasks[k].cpu, u.pluginid = tasks[k].pluginid, Len(tasks') = Len(tasks),
             \A j \in 1 .. Len(tasks) : tasks'[j] = IF j = k THEN u ELSE tasks[j]
      PROVE  PoolHolds(tasks') /\ \A i \in 1 .. Len(tasks') : InPool(tasks'[i])
  BY <1>2, <1>4, <1>5
<1>6. ASSUME tasks' = tasks
      PROVE  PoolHolds(tasks') /\ \A i \in 1 .. Len(tasks') : InPool(tasks'[i])
  BY <1>2, <1>6
<1>7. ASSUME NEW k \in 1 .. Len(tasks), tasks' = RemoveAt(tasks, k)
      PROVE  PoolHolds(tasks') /\ \A i \in 1 .. Len(tasks') : InPool(tasks'[i])
  <2>1. /\ Len(tasks') = Len(tasks) - 1
        /\ \A i \in 1 .. Len(tasks) - 1 :
              tasks'[i] = IF i < k THEN tasks[i] ELSE tasks[i + 1]
    BY <1>1, <1>7, RemoveAtFacts
  <2>2. ASSUME NEW i \in 1 .. Len(tasks') PROVE InPool(tasks'[i])
    <3>1. i \in 1 .. Len(tasks) /\ i + 1 \in 1 .. Len(tasks)
      BY <1>1, <2>1
    <3> QED  BY <1>2, <2>1, <3>1
  <2>3. ASSUME NEW d \in CPUs
        PROVE  SsrmCount(tasks', d) <= (PrioMax[SSRM] - PrioMin[SSRM]) + 1
    <3>1. SsrmCount(tasks', d) <= SsrmCount(tasks, d)
      BY <1>1, <1>7, CountRemoveAt
    <3>2. SsrmCount(tasks', d) \in Int /\ SsrmCount(tasks, d) \in Int
      BY <1>1, <2>1, FlagFacts, LenProperties DEF SsrmCount
    <3>3. PrioMax[SSRM] \in Nat /\ PrioMin[SSRM] \in Nat
      BY PluginFacts
    <3> QED  BY <1>3, <3>1, <3>2, <3>3
  <2> QED  BY <2>2, <2>3 DEF PoolHolds
<1>8. ASSUME NEW par \in Params, NEW ppid \in Pids, NEW est \in Estimates,
             NEW wa \in [CPUs -> BOOLEAN], RsvCreate(par, ppid, est, wa)
      PROVE  PoolHolds(tasks') /\ \A i \in 1 .. Len(tasks') : InPool(tasks'[i])
  <2>1. PICK u \in Task :
           tasks' = AddTop(tasks, u) /\ InPool(u) /\ PoolHolds(AddTop(tasks, u))
    BY <1>2, <1>8, CreateInPool
  <2>2. /\ Len(tasks') = Len(tasks) + 1 /\ tasks'[1] = u
        /\ \A i \in 1 .. Len(tasks) : tasks'[i + 1] = tasks[i]
    <3> DEFINE us == AddTop(tasks, u)
    <3>1. /\ Len(us) = Len(tasks) + 1 /\ us[1] = u
          /\ \A i \in 1 .. Len(tasks) : us[i + 1] = tasks[i]
      BY <1>1, AddTopFacts
    <3>2. tasks' = us
      BY <2>1
    <3> HIDE DEF us
    <3> QED  BY <3>1, <3>2
  <2>3. ASSUME NEW i \in 1 .. Len(tasks') PROVE InPool(tasks'[i])
    <3>1. CASE i = 1
      BY <2>1, <2>2, <3>1
    <3>2. CASE i # 1
      <4>1. i - 1 \in 1 .. Len(tasks) /\ (i - 1) + 1 = i
        BY <1>1, <2>2, <3>2
      <4> QED  BY <1>2, <2>2, <4>1
    <3> QED  BY <3>1, <3>2
  <2> QED  BY <2>1, <2>3
<1>9. CASE RefreshSys
  <2>1. /\ Len(tasks') = Len(tasks)
        /\ \A i \in 1 .. Len(tasks) :
              tasks'[i] = [tasks[i] EXCEPT !.schedprio = CalcPrio(tasks, tasks[i])]
    BY <1>1, <1>9, RecalcFacts DEF RefreshSys
  <2>2. ASSUME NEW i \in 1 .. Len(tasks)
        PROVE  /\ tasks'[i].cpu = tasks[i].cpu /\ tasks'[i].pluginid = tasks[i].pluginid
               /\ InPool(tasks'[i])
    <3>1. tasks[i] \in Task
      BY <1>1, ElementOfSeq
    <3>2. /\ tasks'[i].cpu = tasks[i].cpu /\ tasks'[i].pluginid = tasks[i].pluginid
          /\ tasks'[i].schedprio = CalcPrio(tasks, tasks[i])
      BY <2>1, <3>1 DEF Task
    <3>3. tasks[i].pluginid # EDF =>
             CalcPrio(tasks, tasks[i]) \in PrioMin[tasks[i].pluginid] .. PrioMax[tasks[i].pluginid]
      BY <1>1, <1>2, CalcPrioInPool
    <3> QED  BY <3>2, <3>3 DEF InPool
  <2> QED  BY <1>4, <2>1, <2>2
<1>10. ASSUME NEW rsvid \in 1 .. MaxRsv, NEW est \in Estimates, RefreshSingle(rsvid, est)
       PROVE  PoolHolds(tasks') /\ \A i \in 1 .. Len(tasks') : InPool(tasks'[i])
  BY <1>2, <1>5, <1>10, RefreshInPool
<1>11. CASE Attaches
  <2>1. PICK k \in 1 .. Len(tasks), th \in Tids :
           /\ Len(tasks') = Len(tasks)
           /\ \A j \in 1 .. Len(tasks) :
                 tasks'[j] = IF j = k THEN [tasks[k] EXCEPT !.tid = th] ELSE tasks[j]
    BY <1>11 DEF Attaches
  <2> DEFINE u == [tasks[k] EXCEPT !.tid = th]
  <2>2. tasks[k] \in Task
    BY <1>1, ElementOfSeq
  <2>3. /\ u.cpu = tasks[k].cpu /\ u.pluginid = tasks[k].pluginid
        /\ u.schedprio = tasks[k].schedprio
    BY <2>2 DEF Task
  <2> HIDE DEF u
  <2>4. InPool(u)
    BY <1>2, <2>3 DEF InPool
  <2>5. \A j \in 1 .. Len(tasks) : tasks'[j] = IF j = k THEN u ELSE tasks[j]
    BY <2>1 DEF u
  <2> QED  BY <1>5, <2>1, <2>3, <2>4, <2>5
<1>12. CASE Removes
  BY <1>7, <1>12 DEF Removes
<1>13. CASE Keeps
  BY <1>6, <1>13 DEF Keeps
<1>14. CASE Creates
  BY <1>8, <1>14 DEF Creates
<1>15. CASE RefreshesOne
  BY <1>10, <1>15 DEF RefreshesOne
<1> QED  BY <1>9, <1>11, <1>12, <1>13, <1>14, <1>15, StepActions

(* Every priority a task carries, however stale, is in the pool of its      *)
(* plugin: rts_scheduler_assign gives an SSRM task a CPU only while the     *)
(* pool has a priority left there, and prio_remap cannot leave the pool.    *)
THEOREM Pools == Spec => []PrioInPool
<1>1. Init => PoolInv
  <2> SUFFICES ASSUME Init PROVE PoolInv
    OBVIOUS
  <2>1. tasks = <<>> /\ Len(tasks) = 0 /\ 1 .. Len(tasks) = {}
    BY EmptySeq DEF Init
  <2>2. ASSUME NEW c \in CPUs
        PROVE  SsrmCount(tasks, c) <= (PrioMax[SSRM] - PrioMin[SSRM]) + 1
    <3>1. SsrmFlag(tasks, c) \in [Nat -> Int]
      BY FlagFacts
    <3>2. SsrmCount(tasks, c) = 0
      BY <2>1, <3>1, PrefixSumEquations DEF SsrmCount
    <3>3. PrioMax[SSRM] - PrioMin[SSRM] \in Nat
      <4>1. SSRM \in Plugins
        BY PluginFacts
      <4> QED  BY <4>1, PluginAssumption
    <3> QED  BY <3>2, <3>3
  <2> QED  BY <2>1, <2>2 DEF PoolInv, PoolHolds, PrioInPool
<1>2. TypeOK /\ TypeOK' /\ PoolInv /\ [Next]_vars => PoolInv'
  BY PoolStep
<1>3. PoolInv => PrioInPool
  BY DEF PoolInv
<1> QED  BY <1>1, <1>2, <1>3, Types, PTL DEF Spec

----------------------------------------------------------------------------
(* THE PRIORITIES A REFRESH LEAVES *)

LEMMA DivGrows ==
    ASSUME NEW a \in Nat, NEW r \in Nat \ {0}, NEW b \in Nat, NEW c \in Nat, b <= c
    PROVE  (a * b) \div r <= (a * c) \div r
<1>1. a * b <= a * c /\ a * b \in Nat /\ a * c \in Nat
  OBVIOUS
<1> DEFINE x == a * b
           y == a * c
<1> HIDE DEF x, y
<1>2. x \in Nat /\ y \in Nat /\ x <= y
  BY <1>1 DEF x, y
<1> DEFINE d == x \div r
           e == y \div r
<1>3. /\ d \in Nat /\ e \in Nat /\ d * r <= x /\ y < (e + 1) * r
  BY <1>2
<1>4. d <= e
  <2> SUFFICES ASSUME d > e PROVE FALSE
    BY <1>3
  <2> HIDE DEF d, e
  <2>1. d >= e + 1
    BY <1>3
  <2>2. d * r >= (e + 1) * r
    BY <1>3, <2>1
  <2> DEFINE u == d * r
             v == (e + 1) * r
  <2>3. u \in Nat /\ v \in Nat
    BY <1>3
  <2>4. u <= x /\ y < v /\ u >= v
    BY <1>3, <2>2
  <2> HIDE DEF u, v
  <2> QED  BY <1>2, <2>3, <2>4
<1> HIDE DEF d, e
<1>5. x \div r <= y \div r
  BY <1>4 DEF d, e
<1> QED  BY <1>5 DEF x, y

(* prio_remap keeps the order of the user priorities.                       *)
LEMMA PrioRemapGrows ==
    ASSUME NEW ts \in Seq(Task), NEW i \in 1 .. Len(ts), NEW j \in 1 .. Len(ts), NEW p,
           p = ts[i].pluginid, p = ts[j].pluginid, ts[j].priority <= ts[i].priority
    PROVE  PrioRemap(p, ts, ts[j].priority) <= PrioRemap(p, ts, ts[i].priority)
<1>1. PICK lo \in Nat, range \in Nat : Spreads(p, ts, lo, range)
  BY PrioRemapFacts
<1>2. ts[i].priority \in Nat /\ ts[j].priority \in Nat /\ p \in Plugins
  <2>1. ts[i] \in Task /\ ts[j] \in Task
    BY ElementOfSeq
  <2> QED  BY <2>1 DEF Task
<1>3. PrioMin[p] \in Nat /\ PrioMax[p] \in Nat /\ PrioMin[p] <= PrioMax[p]
  BY <1>2, PluginAssumption
<1> DEFINE bi == ts[i].priority - lo
           bj == ts[j].priority - lo
           a == PrioMax[p] - PrioMin[p]
<1>4. bi \in 0 .. range /\ bj \in 0 .. range
  BY <1>1 DEF Spreads
<1>5. bj <= bi /\ bi \in Nat /\ bj \in Nat /\ a \in Nat
  <2>1. bj <= bi
    BY <1>1, <1>2
  <2>2. a \in Nat
    BY <1>3
  <2> HIDE DEF a, bi, bj
  <2> QED  BY <1>1, <1>4, <2>1, <2>2
<1>6. /\ PrioRemap(p, ts, ts[i].priority) =
            IF range = 0 THEN PrioMin[p] ELSE PrioMin[p] + (a * bi) \div range
      /\ PrioRemap(p, ts, ts[j].priority) =
            IF range = 0 THEN PrioMin[p] ELSE PrioMin[p] + (a * bj) \div range
  BY <1>1, <1>2 DEF Spreads
<1> HIDE DEF bi, bj, a
<1>7. range # 0 => /\ (a * bj) \div range <= (a * bi) \div range
                   /\ (a * bj) \div range \in 0 .. a /\ (a * bi) \div range \in 0 .. a
  BY <1>4, <1>5, DivGrows, DivAtMost
<1> DEFINE di == (a * bi) \div range
           dj == (a * bj) \div range
<1>8. /\ PrioRemap(p, ts, ts[i].priority) = IF range = 0 THEN PrioMin[p] ELSE PrioMin[p] + di
      /\ PrioRemap(p, ts, ts[j].priority) = IF range = 0 THEN PrioMin[p] ELSE PrioMin[p] + dj
  BY <1>6
<1>9. range # 0 => dj <= di /\ dj \in 0 .. a /\ di \in 0 .. a
  BY <1>7
<1> HIDE DEF di, dj
<1> QED  BY <1>3, <1>5, <1>8, <1>9

(* No two tasks of a list have the same id.                                 *)
OneEach(ts) == \A i, j \in 1 .. Len(ts) : i # j => ts[i].id # ts[j].id

(* Of two SSRM tasks of one CPU, the one with the shorter period comes      *)
(* first in the list t_calc_prio counts in, and no two come at one place.   *)
LEMMA SsrmOrder ==
    ASSUME NEW ts \in Seq(Task), OneEach(ts), NEW i \in 1 .. Len(ts), NEW j \in 1 .. Len(ts),
           i # j, ts[i].pluginid = SSRM, ts[j].pluginid = SSRM, ts[i].cpu = ts[j].cpu
    PROVE  /\ CalcPrio(ts, ts[i]) # CalcPrio(ts, ts[j])
           /\ ts[i].period < ts[j].period => CalcPrio(ts, ts[i]) > CalcPrio(ts, ts[j])
<1> DEFINE c == ts[i].cpu
           s == SsrmTasks(ts, c)
           a == IterIndex(s, ts[i].id)
           b == IterIndex(s, ts[j].id)
<1>1. /\ s \in Seq(Task) /\ Len(s) \in Nat
      /\ a \in 1 .. Len(s) /\ s[a].id = ts[i].id
  BY SsrmFound
<1>2. b \in 1 .. Len(s) /\ s[b].id = ts[j].id
  <2>1. s = SsrmTasks(ts, ts[j].cpu)
    OBVIOUS
  <2> HIDE DEF s
  <2> QED  BY <2>1, SsrmFound
<1>3. Gathers(s, ts, Len(ts), c)
  BY SsrmTasksFacts
<1>4. CalcPrio(ts, ts[i]) = PrioMax[SSRM] + 1 - a /\ CalcPrio(ts, ts[j]) = PrioMax[SSRM] + 1 - b
  <2>1. SSRM # EDF
    BY PluginFacts
  <2> QED  BY <2>1 DEF CalcPrio
<1> HIDE DEF s, a, b
<1>5. a # b
  BY <1>1, <1>2 DEF OneEach
<1>6. s[a] = ts[i]
  <2>1. PICK m \in 1 .. Len(ts) : s[a] = ts[m]
    BY <1>1, <1>3 DEF Gathers
  <2> QED  BY <1>1, <2>1 DEF OneEach
<1>7. s[b] = ts[j]
  <2>1. PICK m \in 1 .. Len(ts) : s[b] = ts[m]
    BY <1>2, <1>3 DEF Gathers
  <2> QED  BY <1>2, <2>1 DEF OneEach
<1>8. ts[i].period < ts[j].period => a < b
  <2> SUFFICES ASSUME ts[i].period < ts[j].period, b <= a PROVE FALSE
    BY <1>1, <1>2
  <2>1. s[b].period <= s[a].period
    BY <1>1, <1>2, <1>3 DEF Gathers, ByPeriod
  <2>2. ts[i].period \in Nat /\ ts[j].period \in Nat
    <3>1. ts[i] \in Task /\ ts[j] \in Task
      BY ElementOfSeq
    <3> QED  BY <3>1 DEF Task
  <2> QED  BY <1>6, <1>7, <2>1, <2>2
<1>9. PrioMax[SSRM] \in Nat
  BY PluginFacts
<1> QED  BY <1>1, <1>2, <1>4, <1>5, <1>8, <1>9

LEMMA RecalcConsistent ==
    ASSUME NEW ts \in Seq(Task), OneEach(ts)
    PROVE  PriosConsistent(RecalcPrios(ts))
<1> DEFINE us == RecalcPrios(ts)
<1>1. /\ Len(us) = Len(ts)
      /\ \A i \in 1 .. Len(ts) : us[i] = [ts[i] EXCEPT !.schedprio = CalcPrio(ts, ts[i])]
  BY RecalcFacts
<1> HIDE DEF us
<1>2. ASSUME NEW i \in 1 .. Len(ts)
      PROVE  /\ us[i].cpu = ts[i].cpu /\ us[i].pluginid = ts[i].pluginid
             /\ us[i].period = ts[i].period /\ us[i].priority = ts[i].priority
             /\ us[i].schedprio = CalcPrio(ts, ts[i])
  <2>1. ts[i] \in Task
    BY ElementOfSeq
  <2> QED  BY <1>1, <2>1 DEF Task
<1> SUFFICES ASSUME NEW i \in 1 .. Len(ts), NEW j \in 1 .. Len(ts), i # j,
                    ts[i].pluginid = ts[j].pluginid
             PROVE  CASE ts[i].pluginid = SSRM /\ ts[i].cpu = ts[j].cpu ->
                            /\ us[i].schedprio # us[j].schedprio
                            /\ ts[i].period < ts[j].period => us[i].schedprio > us[j].schedprio
                      [] ts[i].pluginid \in {FP, RR} ->
                            ts[i].priority >= ts[j].priority => us[i].schedprio >= us[j].schedprio
                      [] OTHER -> TRUE
  BY <1>1, <1>2 DEF PriosConsistent, us
<1>3. ts[i].priority \in Nat /\ ts[j].priority \in Nat
  <2>1. ts[i] \in Task /\ ts[j] \in Task
    BY ElementOfSeq
  <2> QED  BY <2>1 DEF Task
<1>4. CASE ts[i].pluginid = SSRM /\ ts[i].cpu = ts[j].cpu
  <2>1. /\ us[i].schedprio # us[j].schedprio
        /\ ts[i].period < ts[j].period => us[i].schedprio > us[j].schedprio
    <3>1. ts[i].pluginid = SSRM /\ ts[j].pluginid = SSRM /\ ts[i].cpu = ts[j].cpu
      BY <1>4
    <3>2. /\ CalcPrio(ts, ts[i]) # CalcPrio(ts, ts[j])
          /\ ts[i].period < ts[j].period => CalcPrio(ts, ts[i]) > CalcPrio(ts, ts[j])
      BY <3>1, SsrmOrder
    <3> QED  BY <1>2, <3>2
  <2>2. ts[i].pluginid \notin {FP, RR}
    BY <1>4, PluginFacts
  <2> QED  BY <1>4, <2>1, <2>2
<1>5. CASE ts[i].pluginid \in {FP, RR}
  <2>1. ts[i].pluginid # EDF /\ ts[i].pluginid # SSRM
    BY <1>5, PluginFacts
  <2>2. /\ us[i].schedprio = PrioRemap(ts[i].pluginid, ts, ts[i].priority)
        /\ us[j].schedprio = PrioRemap(ts[i].pluginid, ts, ts[j].priority)
    BY <1>2, <2>1 DEF CalcPrio
  <2>3. us[i].schedprio \in Int /\ us[j].schedprio \in Int
    BY <1>2, CalcPrioInt
  <2>4. ts[i].priority >= ts[j].priority => us[i].schedprio >= us[j].schedprio
    <3> SUFFICES ASSUME ts[i].priority >= ts[j].priority
                 PROVE  us[j].schedprio <= us[i].schedprio
      BY <2>3
    <3>1. ts[j].priority <= ts[i].priority
      BY <1>3
    <3> QED  BY <2>2, <3>1, PrioRemapGrows
  <2> QED  BY <1>5, <2>1, <2>4
<1>6. CASE /\ ~(ts[i].pluginid = SSRM /\ ts[i].cpu = ts[j].cpu)
           /\ ts[i].pluginid \notin {FP, RR}
  BY <1>6
<1> QED  BY <1>4, <1>5, <1>6

(* Taking a task out of the list disturbs no two others.                    *)
LEMMA RemoveConsistent ==
    ASSUME NEW ts \in Seq(Task), NEW k \in 1 .. Len(ts), PriosConsistent(ts)
    PROVE  PriosConsistent(RemoveAt(ts, k))
<1> DEFINE us == RemoveAt(ts, k)
           at(i) == IF i < k THEN i ELSE i + 1
<1>1. /\ Len(us) = Len(ts) - 1 /\ Len(ts) \in Nat
      /\ \A i \in 1 .. Len(ts) - 1 : us[i] = IF i < k THEN ts[i] ELSE ts[i + 1]
  BY RemoveAtFacts, LenProperties
<1> HIDE DEF us
<1>2. \A i \in 1 .. Len(us) : at(i) \in 1 .. Len(ts) /\ us[i] = ts[at(i)]
  BY <1>1
<1>3. \A i, j \in 1 .. Len(us) : i # j => at(i) # at(j)
  BY <1>1
<1> HIDE DEF at
<1>4. PriosConsistent(us)
  BY <1>2, <1>3 DEF PriosConsistent
<1> QED  BY <1>4 DEF us

----------------------------------------------------------------------------
(* What a reply of a system refresh still says of the list: a purge leaves  *)
(* the reply as it is, and may have taken tasks out since.                  *)
Refreshed(r) == r.rep_type \in {"REFRESH_SYS_OK", "REFRESH_SYS_OVL"}
RefreshInv == Refreshed(reply) => PriosConsistent(tasks)

LEMMA ReplyKinds ==
    ASSUME TypeOK, [Next]_vars, Refreshed(reply')
    PROVE  RefreshSys \/ (reply' = reply /\ (tasks' = tasks \/ Removes))
<1>0. CASE UNCHANGED vars
  BY <1>0 DEF vars
<1>1. ASSUME NEW par \in Params, NEW ppid \in Pids, NEW est \in Estimates,
             NEW wa \in [CPUs -> BOOLEAN], RsvCreate(par, ppid, est, wa)
      PROVE  FALSE
  BY <1>1 DEF RsvCreate, ReplyWith, Refreshed
<1>2. ASSUME NEW par \in Params, NEW ppid \in Pids, NEW est \in Estimates,
             RsvCreateSpins(par, ppid, est)
      PROVE  reply' = reply /\ tasks' = tasks
  BY <1>2 DEF RsvCreateSpins
<1>3. CASE RsvCreateFails
  BY <1>3 DEF RsvCreateFails, ReplyWith, Refreshed
<1>4. CASE Spin
  BY <1>4 DEF Spin, vars
<1>5. ASSUME NEW rsvid \in 1 .. MaxRsv, NEW done \in 0 .. 2, NEW th \in Tids,
             RsvAttach(rsvid, th, done)
      PROVE  FALSE
  BY <1>5 DEF RsvAttach, Reply, Refreshed
<1>6. ASSUME NEW rsvid \in 1 .. MaxRsv, NEW done \in 0 .. 2, RsvDetach(rsvid, done)
      PROVE  FALSE
  BY <1>6 DEF RsvDetach, Reply, Refreshed
<1>7. ASSUME NEW rsvid \in 1 .. MaxRsv, NEW type \in {"RSV_ATTACH_ERR", "RSV_DETACH_ERR"},
             NoSuchRsv(rsvid, type)
      PROVE  FALSE
  BY <1>7 DEF NoSuchRsv, Reply, Refreshed
<1>8. ASSUME NEW rsvid \in 1 .. MaxRsv, RsvDestroy(rsvid)
      PROVE  FALSE
  BY <1>8 DEF RsvDestroy, Reply, Refreshed
<1>9. ASSUME NEW rsvid \in 1 .. MaxRsv, RsvDestroyFails(rsvid)
      PROVE  FALSE
  BY <1>9 DEF RsvDestroyFails, Reply, Refreshed
<1>10. ASSUME NEW rsvid \in 1 .. MaxRsv, NEW est \in Estimates, RefreshSingle(rsvid, est)
       PROVE  FALSE
  BY <1>10 DEF RefreshSingle, Reply, Refreshed
<1>11. ASSUME NEW rsvid \in 1 .. MaxRsv, RefreshSingleFails(rsvid)
       PROVE  FALSE
  BY <1>11 DEF RefreshSingleFails, Reply, Refreshed
<1>12. CASE CapQuery
  BY <1>12 DEF CapQuery, Reply, ReplyWith, Refreshed
<1>13. ASSUME NEW ppid \in Pids, Delete(ppid)
       PROVE  reply' = reply /\ tasks' = tasks
  BY <1>13 DEF Delete, book
<1>14. CASE DeleteTurn
  <2>1. Removes
    <3> DEFINE k == RemoveIndex(tasks, IndexesByPpid(tasks, victim))
    <3>1. k # 0 /\ tasks' = RemoveAt(tasks, k) /\ GiveBack(tasks[k]) /\ next_rsv_id' = next_rsv_id
      BY <1>14 DEF DeleteTurn
    <3>2. k \in 1 .. Len(tasks) /\ tasks[k] \in Task
      BY <3>1, RemoveFacts
    <3> HIDE DEF k
    <3> QED  BY <3>1, <3>2 DEF Removes
  <2> QED  BY <1>14, <2>1 DEF DeleteTurn
<1>15. CASE DeleteEnds
  BY <1>15 DEF DeleteEnds, book
<1> QED
  BY <1>0, <1>1, <1>2, <1>3, <1>4, <1>5, <1>6, <1>7, <1>8, <1>9, <1>10, <1>11, <1>12,
     <1>13, <1>14, <1>15 DEF Next

LEMMA RefreshStep ==
    ASSUME TypeOK, TypeOK', NewestFirst, RefreshInv, [Next]_vars
    PROVE  RefreshInv'
<1> SUFFICES ASSUME Refreshed(reply') PROVE PriosConsistent(tasks')
  BY DEF RefreshInv, Refreshed, PriosConsistent
<1>1. tasks \in Seq(Task)
  BY DEF TypeOK
<1>2. CASE RefreshSys
  <2>1. tasks' = RecalcPrios(tasks)
    BY <1>2 DEF RefreshSys
  <2>2. OneEach(tasks)
    <3>1. \A i \in 1 .. Len(tasks) : tasks[i].id \in Nat
      BY ListFacts
    <3>2. \A i, j \in 1 .. Len(tasks) : i # j => i < j \/ j < i
      OBVIOUS
    <3> QED  BY <3>1, <3>2 DEF NewestFirst, OneEach
  <2> QED  BY <1>1, <2>1, <2>2, RecalcConsistent
<1>3. CASE reply' = reply /\ tasks' = tasks
  BY <1>3 DEF RefreshInv, Refreshed
<1>4. CASE reply' = reply /\ Removes
  <2>1. PICK k \in 1 .. Len(tasks) : tasks' = RemoveAt(tasks, k)
    BY <1>4 DEF Removes
  <2>2. PriosConsistent(tasks)
    BY <1>4 DEF RefreshInv
  <2> QED  BY <1>1, <2>1, <2>2, RemoveConsistent
<1> QED  BY <1>2, <1>3, <1>4, ReplyKinds

(* A system refresh leaves priorities in the order the plugins ask for,     *)
(* whatever admissions, destroys and single refreshes left before it; and   *)
(* no purge disturbs that order before the next reply.                      *)
THEOREM Refreshes == Spec => RefreshRepairsPrios
<1>1. Init => RefreshInv
  BY DEF Init, RefreshInv, Refreshed, Reply
<1>2. TypeOK /\ TypeOK' /\ NewestFirst /\ RefreshInv /\ [Next]_vars => RefreshInv'
  BY RefreshStep
<1>3. RefreshInv' => [pc = "loop" /\ reply'.rep_type \in {"REFRESH_SYS_OK", "REFRESH_SYS_OVL"}
                         => PriosConsistent(tasks')]_vars
  BY DEF RefreshInv, Refreshed
<1> QED  BY <1>1, <1>2, <1>3, Types, Newest, PTL DEF Spec, RefreshRepairsPrios

----------------------------------------------------------------------------
(* WHAT A PURGE LEAVES *)

(* What the purge of a client leaves is settled when it begins: the loop of *)
(* rts_scheduler_delete ends with the closed form DeleteAll of the list it  *)
(* found, the first stranger's task and the victim's tasks behind it.       *)
THEOREM Purges == Spec => PurgeLeavesDeleteAll
<1>1. ASSUME TypeOK, DeleteTurn
      PROVE  DeleteAll(tasks', victim) = DeleteAll(tasks, victim)
  <2> DEFINE k == RemoveIndex(tasks, IndexesByPpid(tasks, victim))
  <2>1. k # 0 /\ tasks' = RemoveAt(tasks, k)
    BY <1>1 DEF DeleteTurn
  <2>2. tasks \in Seq(Task)
    BY <1>1 DEF TypeOK
  <2>3. DeleteAll(RemoveAt(tasks, k), victim) = DeleteAll(tasks, victim)
    <3>1. k = RemoveIndex(tasks, IndexesByPpid(tasks, victim))
      OBVIOUS
    <3> HIDE DEF k
    <3> QED  BY <2>1, <2>2, <3>1, DeleteAllKept
  <2> QED  BY <2>1, <2>3
<1>2. ASSUME TypeOK, DeleteEnds
      PROVE  tasks = DeleteAll(tasks, victim)
  <2>1. RemoveIndex(tasks, IndexesByPpid(tasks, victim)) = 0 /\ tasks \in Seq(Task)
    BY <1>2 DEF DeleteEnds, TypeOK
  <2> QED  BY <2>1, DeleteAllReached
<1>3. TypeOK => [/\ DeleteTurn => DeleteAll(tasks', victim) = DeleteAll(tasks, victim)
                 /\ DeleteEnds => tasks = DeleteAll(tasks, victim)]_vars
  BY <1>1, <1>2
<1> QED  BY <1>3, Types, PTL DEF PurgeLeavesDeleteAll

----------------------------------------------------------------------------
(* WHAT THE WORKLOAD ANALYSIS WOULD ANSWER *)

(* What SSRM is given declares an execution time and no deadline: any other *)
(* candidate has a better score, or as good a one from a more important     *)
(* plugin.                                                                  *)
SsrmLike(t) == t.pluginid = SSRM => t.deadline = 0 /\ t.wcet # 0
SsrmDeclares == \A i \in 1 .. Len(tasks) : SsrmLike(tasks[i])

(* A plugin that has room gives the score of the task, and every plugin has *)
(* room where SSRM has.                                                     *)
LEMMA SsrmChosen ==
    ASSUME TypeOK, NEW t \in Task, NEW wa, BestPlugins(tasks, t, free, wa) # {},
           Min(BestPlugins(tasks, t, free, wa)) = SSRM
    PROVE  t.deadline = 0 /\ t.wcet # 0
<1> DEFINE best == BestPlugins(tasks, t, free, wa)
           test(q) == TTest(q, tasks, t, free, wa)
<1>1. best \in SUBSET Nat
  BY PluginFacts DEF BestPlugins
<1>2. SSRM \in best /\ \A q \in best : SSRM <= q
  <2>1. best # {} /\ Min(best) = SSRM
    OBVIOUS
  <2> HIDE DEF best
  <2> QED  BY <1>1, <2>1, MinOfNats
<1>3. EDF \notin best
  BY <1>2, PluginFacts
<1>4. test(SSRM) > 0 /\ \A q \in Plugins : test(q) <= test(SSRM)
  BY <1>2 DEF BestPlugins
<1>5. TestCpus(SSRM, tasks, t, free, wa) # {}
  BY <1>4 DEF TTest
<1>6. TestCpus(EDF, tasks, t, free, wa) # {} /\ TestCpus(RR, tasks, t, free, wa) # {}
  BY <1>5, PluginFacts DEF TestCpus, SsrmReaches
<1>7. test(SSRM) = Score(SSRM, t) /\ test(EDF) = Score(EDF, t) /\ test(RR) = Score(RR, t)
  BY <1>5, <1>6 DEF TTest
<1>8. t.wcet \in Nat /\ t.period \in Nat /\ t.deadline \in Nat
  BY DEF Task
<1>9. Score(RR, t) = 6
  BY PluginFacts DEF Score
<1>10. Score(SSRM, t) = 3 * ((IF t.wcet # 0 THEN 1 ELSE 0) + (IF t.period # 0 THEN 1 ELSE 0))
  BY PluginFacts DEF Score
<1>11. Score(EDF, t) = 2 * ((IF t.wcet # 0 THEN 1 ELSE 0) + (IF t.period # 0 THEN 1 ELSE 0)
                            + (IF t.deadline # 0 THEN 1 ELSE 0))
  BY PluginFacts DEF Score
<1>12. Score(SSRM, t) >= 6
  BY <1>4, <1>7, <1>9, <1>10, PluginFacts
<1>13. t.wcet # 0 /\ t.period # 0 /\ Score(SSRM, t) = 6
  BY <1>10, <1>12
<1>14. ASSUME t.deadline # 0 PROVE FALSE
  <2>1. test(EDF) = 6 /\ test(SSRM) = 6
    BY <1>7, <1>11, <1>13, <1>14
  <2>2. EDF \in best
    BY <1>4, <2>1, PluginFacts DEF BestPlugins
  <2> QED  BY <1>3, <2>2
<1> QED  BY <1>13, <1>14

LEMMA DeclaresCreate ==
    ASSUME TypeOK, NEW par \in Params, NEW ppid \in Pids, NEW est \in Estimates,
           NEW wa, RsvCreate(par, ppid, est, wa)
    PROVE  \E u \in Task : tasks' = AddTop(tasks, u) /\ SsrmLike(u)
<1> DEFINE t == NewTask(par, ppid, est)
           best == BestPlugins(tasks, t, free, wa)
           p == Min(best)
           c == Min(TestCpus(p, tasks, t, free, wa))
<1>1. best # {} /\ Assign(t, p, c)
  BY DEF RsvCreate
<1>2. t \in Task
  BY NewTaskFacts
<1> HIDE DEF t
<1>3. p \in Plugins /\ c \in CPUs
  BY <1>1, BestFacts
<1>4. p = SSRM => t.deadline = 0 /\ t.wcet # 0
  BY <1>1, <1>2, SsrmChosen
<1> HIDE DEF p, c
<1>5. PICK u \in Task :
         /\ u.pluginid = p /\ u.wcet = t.wcet /\ u.deadline = t.deadline
         /\ tasks' = AddTop(tasks, u)
  BY <1>1, <1>2, <1>3, AssignFacts
<1> QED  BY <1>4, <1>5 DEF SsrmLike

LEMMA DeclaresStep ==
    ASSUME TypeOK, TypeOK', SsrmDeclares, [Next]_vars
    PROVE  SsrmDeclares'
<1> SUFFICES ASSUME NEW i \in 1 .. Len(tasks') PROVE SsrmLike(tasks'[i])
  BY DEF SsrmDeclares, SsrmLike
<1>1. tasks \in Seq(Task) /\ Len(tasks) \in Nat /\ \A j \in 1 .. Len(tasks) : tasks[j] \in Task
  BY LenProperties, ElementOfSeq DEF TypeOK
<1>2. \A j \in 1 .. Len(tasks) : SsrmLike(tasks[j])
  BY DEF SsrmDeclares
<1>3. CASE Creates
  <2>1. PICK u \in Task : tasks' = AddTop(tasks, u) /\ SsrmLike(u)
    BY <1>3, DeclaresCreate DEF Creates
  <2>2. /\ Len(tasks') = Len(tasks) + 1 /\ tasks'[1] = u
        /\ \A j \in 1 .. Len(tasks) : tasks'[j + 1] = tasks[j]
    <3>1. /\ Len(AddTop(tasks, u)) = Len(tasks) + 1 /\ AddTop(tasks, u)[1] = u
          /\ \A j \in 1 .. Len(tasks) : AddTop(tasks, u)[j + 1] = tasks[j]
      BY <1>1, AddTopFacts
    <3> QED  BY <2>1, <3>1
  <2>3. CASE i = 1
    BY <2>1, <2>2, <2>3
  <2>4. CASE i # 1
    <3>1. i - 1 \in 1 .. Len(tasks) /\ (i - 1) + 1 = i
      BY <1>1, <2>2, <2>4
    <3> QED  BY <1>2, <2>2, <3>1
  <2> QED  BY <2>3, <2>4
<1>4. CASE Removes
  <2>1. PICK k \in 1 .. Len(tasks) : tasks' = RemoveAt(tasks, k)
    BY <1>4 DEF Removes
  <2>2. /\ Len(tasks') = Len(tasks) - 1
        /\ \A j \in 1 .. Len(tasks) - 1 : tasks'[j] = IF j < k THEN tasks[j] ELSE tasks[j + 1]
    BY <1>1, <2>1, RemoveAtFacts
  <2>3. i \in 1 .. Len(tasks) /\ i + 1 \in 1 .. Len(tasks)
    BY <1>1, <2>2
  <2> QED  BY <1>2, <2>2, <2>3
<1>5. CASE RefreshesOne
  <2>1. PICK k \in 1 .. Len(tasks), u \in Task :
           /\ u.pluginid = tasks[k].pluginid /\ u.wcet = tasks[k].wcet
           /\ u.deadline = tasks[k].deadline
           /\ Len(tasks') = Len(tasks)
           /\ \A j \in 1 .. Len(tasks) : tasks'[j] = IF j = k THEN u ELSE tasks[j]
    BY <1>5, RefreshFacts DEF RefreshesOne
  <2>2. SsrmLike(u)
    BY <1>2, <2>1 DEF SsrmLike
  <2> QED  BY <1>2, <2>1, <2>2
<1>6. CASE RefreshSys
  <2>1. /\ Len(tasks') = Len(tasks)
        /\ \A j \in 1 .. Len(tasks) :
              tasks'[j] = [tasks[j] EXCEPT !.schedprio = CalcPrio(tasks, tasks[j])]
    BY <1>1, <1>6, RecalcFacts DEF RefreshSys
  <2>2. i \in 1 .. Len(tasks) /\ tasks[i] \in Task /\ SsrmLike(tasks[i])
    BY <1>1, <1>2, <2>1
  <2>3. tasks'[i] = [tasks[i] EXCEPT !.schedprio = CalcPrio(tasks, tasks[i])]
    BY <2>1, <2>2
  <2> QED  BY <2>2, <2>3 DEF Task, SsrmLike
<1>7. CASE Attaches
  <2>1. PICK k \in 1 .. Len(tasks), th \in Tids :
           /\ Len(tasks') = Len(tasks)
           /\ \A j \in 1 .. Len(tasks) :
                 tasks'[j] = IF j = k THEN [tasks[k] EXCEPT !.tid = th] ELSE tasks[j]
    BY <1>7 DEF Attaches
  <2> QED  BY <1>1, <1>2, <2>1 DEF Task, SsrmLike
<1>8. CASE Keeps
  BY <1>2, <1>8 DEF Keeps
<1> QED  BY <1>3, <1>4, <1>5, <1>6, <1>7, <1>8, StepActions

(* The first task of a list is tested at its deadline and nowhere else.     *)
LEMMA FirstPoint ==
    ASSUME NEW ts
    PROVE  TestingSet(ts, <<>>, 1) = IntAddTop(<<>>, ts[1].deadline)
<1> DEFINE x == IntAddTop(<<>>, ts[1].deadline)
           add(l, e) == IF IntSearch(l, e) THEN l ELSE IntAddSorted(l, e)
           multiples(j) == LET p == ts[j].period
                           IN  [k \in 1 .. (ts[1].deadline - 1) \div p |-> k * p]
           rest(f, j) == FoldLeft(add, f[j - 1], multiples(j))
           Solves(f) == f = [j \in 0 .. 1 - 1 |-> IF j = 0 THEN x ELSE rest(f, j)]
           joined == CHOOSE f : Solves(f)
<1>1. TestingSet(ts, <<>>, 1) = joined[1 - 1]
  BY Zenon DEF TestingSet
<1> HIDE DEF x, rest
<1>2. Solves([j \in 0 .. 0 |-> x])
  BY DEF Solves
<1>3. Solves(joined)
  BY <1>2
<1>4. joined[0] = x
  <2> HIDE DEF joined
  <2> QED  BY <1>3
<1> QED  BY <1>1, <1>4 DEF x

(* With no deadline that point is 0, where a task asks for more than there  *)
(* is.                                                                      *)
LEMMA FirstUnfit ==
    ASSUME NEW ts \in Seq(Task), NEW x, x = ts[1], ts # <<>>, x.wcet # 0
    PROVE  WorkloadFunction(ts, 1, 0) \in Nat /\ WorkloadFunction(ts, 1, 0) > 0
<1>1. x \in Task
  BY ElementOfSeq, LenProperties, EmptySeq
<1>2. x.wcet \in Nat /\ x.wcet > 0
  BY <1>1 DEF Task
<1> DEFINE ceil(a, b) == (a + b - 1) \div b
           asks == [j \in Nat |->
                       CASE j = 1 -> ts[j].wcet
                         [] j \in 1 .. 1 - 1 -> ceil(0, ts[j].period) * ts[j].wcet
                         [] OTHER -> 0]
<1>3. WorkloadFunction(ts, 1, 0) = PrefixSum(asks)[1]
  BY DEF WorkloadFunction
<1>4. \A j \in Nat : asks[j] = IF j = 1 THEN x.wcet ELSE 0
  OBVIOUS
<1> HIDE DEF asks
<1>5. asks \in [Nat -> Int]
  BY <1>2, <1>4 DEF asks
<1>6. PrefixSum(asks)[0] = 0 /\ PrefixSum(asks)[0 + 1] = PrefixSum(asks)[0] + asks[0 + 1]
  BY <1>5, PrefixSumEquations
<1> QED  BY <1>2, <1>3, <1>4, <1>6

(* So the analysis stops at the first task, and says no.                    *)
LEMMA AnalysisRefuses ==
    ASSUME NEW ts \in Seq(Task), ts # <<>> => ts[1].deadline = 0 /\ ts[1].wcet # 0
    PROVE  ~WorkloadAnalysis(ts)
<1> SUFFICES ASSUME ts # <<>> PROVE ~WorkloadAnalysis(ts)
  BY DEF WorkloadAnalysis
<1> DEFINE n == Len(ts)
           base == [points |-> <<>>, fits |-> TRUE]
           test(r, i) ==
               LET points == TestingSet(ts, r.points, i)
               IN  [points |-> points,
                    fits |-> \E j \in 1 .. Len(points) :
                                WorkloadFunction(ts, i, points[j]) <= points[j]]
           turn(r, i) == IF ~r.fits THEN r ELSE test(r, i)
           Solves(f) == f = [i \in 0 .. n |-> IF i = 0 THEN base
                                              ELSE IF ~f[i - 1].fits THEN f[i - 1]
                                              ELSE test(f[i - 1], i)]
           run == CHOOSE f : Solves(f)
           first == test(base, 1)
<1>1. n \in Nat /\ n >= 1
  BY LenProperties, EmptySeq
<1>2. WorkloadAnalysis(ts) = (ts # <<>> /\ run[n].fits)
  BY Zenon DEF WorkloadAnalysis
<1>3. ~first.fits
  <2> DEFINE points == TestingSet(ts, <<>>, 1)
  <2>1. points = <<0>>
    <3>1. points = IntAddTop(<<>>, 0)
      BY FirstPoint
    <3>2. <<0>> \o <<>> = <<0>>
      OBVIOUS
    <3> QED  BY <3>1, <3>2, Zenon DEF IntAddTop
  <2>2. Len(points) = 1 /\ points[1] = 0
    BY <2>1
  <2>3. WorkloadFunction(ts, 1, 0) \in Nat /\ WorkloadFunction(ts, 1, 0) > 0
    BY FirstUnfit
  <2>4. first.fits = \E j \in 1 .. Len(points) : WorkloadFunction(ts, 1, points[j]) <= points[j]
    OBVIOUS
  <2> HIDE DEF points, first
  <2>5. ASSUME NEW j \in 1 .. Len(points), WorkloadFunction(ts, 1, points[j]) <= points[j]
        PROVE  FALSE
    <3>1. j = 1
      BY <2>2
    <3> QED  BY <2>2, <2>3, <2>5, <3>1
  <2> QED  BY <2>4, <2>5
<1>4. base.fits
  OBVIOUS
<1> HIDE DEF base, test, n
<1> DEFINE w == [i \in 0 .. n |-> IF i = 0 THEN base ELSE first]
<1>5. Solves(w)
  <2>1. ASSUME NEW i \in 0 .. n
        PROVE  w[i] = IF i = 0 THEN base
                      ELSE IF ~w[i - 1].fits THEN w[i - 1] ELSE test(w[i - 1], i)
    <3>1. CASE i = 0
      BY <3>1
    <3>2. CASE i = 1
      <4>1. w[i] = first /\ w[i - 1] = base
        BY <1>1, <3>2
      <4> QED  BY <1>4, <3>2, <4>1
    <3>3. CASE i > 1
      <4>1. w[i] = first /\ w[i - 1] = first
        BY <1>1, <3>3
      <4> HIDE DEF w, first
      <4> QED  BY <1>3, <3>3, <4>1
    <3> QED  BY <1>1, <3>1, <3>2, <3>3
  <2>2. w = [i \in 0 .. n |-> w[i]]
    OBVIOUS
  <2> HIDE DEF w
  <2> QED  BY <2>1, <2>2
<1>6. Solves(run)
  <2> HIDE DEF Solves, w
  <2> QED  BY <1>5
<1> HIDE DEF run, w
<1>7. /\ run[0] = base
      /\ \A i \in 1 .. n : run[i] = IF ~run[i - 1].fits THEN run[i - 1] ELSE test(run[i - 1], i)
  BY <1>1, <1>6
<1>8. run[1] = first
  BY <1>1, <1>4, <1>7
<1> DEFINE U == {m \in Nat : m + 1 <= n => ~run[m + 1].fits}
<1> HIDE DEF first
<1>9. 0 \in U
  BY <1>3, <1>8
<1>10. ASSUME NEW m \in Nat, m \in U PROVE m + 1 \in U
  <2> SUFFICES ASSUME (m + 1) + 1 <= n PROVE ~run[(m + 1) + 1].fits
    OBVIOUS
  <2>1. ~run[m + 1].fits /\ (m + 1) + 1 \in 1 .. n /\ ((m + 1) + 1) - 1 = m + 1
    BY <1>1, <1>10
  <2> QED  BY <1>7, <2>1
<1> HIDE DEF U
<1>11. n - 1 \in U
  BY <1>1, <1>9, <1>10, SetInduction
<1>12. ~run[n].fits
  BY <1>1, <1>11 DEF U
<1> QED  BY <1>2, <1>12

(* Whatever SSRM has admitted, workload_analysis would refuse, read as the  *)
(* tasks it means: no task of SSRM has a deadline.                          *)
THEOREM Misread == Spec => []SsrmAdmitsByMisreading
<1>1. Init => SsrmDeclares
  <2> SUFFICES ASSUME Init PROVE SsrmDeclares
    OBVIOUS
  <2>1. Len(tasks) = 0
    BY EmptySeq DEF Init
  <2> QED  BY <2>1 DEF SsrmDeclares
<1>2. TypeOK /\ TypeOK' /\ SsrmDeclares /\ [Next]_vars => SsrmDeclares'
  BY DeclaresStep
<1>3. TypeOK /\ SsrmDeclares => SsrmAdmitsByMisreading
  <2> SUFFICES ASSUME TypeOK, SsrmDeclares, NEW c \in CPUs
               PROVE  ~WorkloadAnalysis(SsrmTasks(tasks, c))
    BY DEF SsrmAdmitsByMisreading, SsrmDeclares, SsrmLike
  <2> DEFINE s == SsrmTasks(tasks, c)
  <2>1. /\ s \in Seq(Task)
        /\ \A j \in 1 .. Len(s) : \E i \in 1 .. Len(tasks) : SsrmOn(tasks[i], c) /\ s[j] = tasks[i]
    BY SsrmTasksFacts DEF TypeOK, Gathers
  <2> HIDE DEF s
  <2>2. ASSUME s # <<>> PROVE s[1].deadline = 0 /\ s[1].wcet # 0
    <3>1. 1 \in 1 .. Len(s)
      BY <2>1, <2>2, LenProperties, EmptySeq
    <3>2. PICK i \in 1 .. Len(tasks) : SsrmOn(tasks[i], c) /\ s[1] = tasks[i]
      BY <2>1, <3>1
    <3> QED  BY <3>2 DEF SsrmDeclares, SsrmLike, SsrmOn
  <2>3. ~WorkloadAnalysis(s)
    BY <2>1, <2>2, AnalysisRefuses
  <2> QED  BY <2>3 DEF s
<1> QED  BY <1>1, <1>2, <1>3, Types, PTL DEF Spec

----------------------------------------------------------------------------
(* WHAT ONE REMOVAL TAKES *)

(* Every turn of the loop of rts_scheduler_delete but the last takes one    *)
(* task off the list, and nothing else happens while it runs: a purge is    *)
(* over after at most as many turns as there are tasks, and one.            *)
PurgeShrinks ==
    [][pc = "delete" => \/ pc' = "delete" /\ Len(tasks') = Len(tasks) - 1
                        \/ pc' = "loop" /\ UNCHANGED tasks]_vars

(* The loop of a purge shortens the list at every turn but the last.        *)
THEOREM PurgeLoop == Spec => PurgeShrinks
<1>1. ASSUME TypeOK, Next, pc = "delete"
      PROVE  \/ pc' = "delete" /\ Len(tasks') = Len(tasks) - 1
             \/ pc' = "loop" /\ UNCHANGED tasks
  <2>1. DeleteTurn \/ DeleteEnds
    BY <1>1 DEF Next, RsvCreate, RsvCreateSpins, RsvCreateFails, Spin, RsvAttach, RsvDetach,
                NoSuchRsv, RsvDestroy, RsvDestroyFails, RefreshSingle, RefreshSingleFails,
                RefreshSys, CapQuery, Delete
  <2>2. CASE DeleteTurn
    <3> DEFINE k == RemoveIndex(tasks, IndexesByPpid(tasks, victim))
    <3>1. k # 0 /\ tasks' = RemoveAt(tasks, k) /\ pc' = pc
      BY <2>2 DEF DeleteTurn
    <3>2. k \in 1 .. Len(tasks) /\ tasks \in Seq(Task)
      BY <1>1, <3>1, RemoveFacts DEF TypeOK
    <3> HIDE DEF k
    <3>3. Len(RemoveAt(tasks, k)) = Len(tasks) - 1
      BY <3>2, RemoveAtFacts
    <3> QED  BY <1>1, <3>1, <3>3
  <2>3. CASE DeleteEnds
    BY <2>3 DEF DeleteEnds, book
  <2> QED  BY <2>1, <2>2, <2>3
<1>2. TypeOK /\ [Next]_vars =>
         [pc = "delete" => \/ pc' = "delete" /\ Len(tasks') = Len(tasks) - 1
                           \/ pc' = "loop" /\ UNCHANGED tasks]_vars
  BY <1>1
<1> QED  BY <1>2, Types, PTL DEF Spec, PurgeShrinks

(* The place the iterator loops find is that of the reservation, if there   *)
(* is one.                                                                  *)
LEMMA IterIndexIs ==
    ASSUME NEW T, NEW ts \in Seq(T), NEW rsvid
    PROVE  /\ IterIndex(ts, rsvid) = 0 <=> \A i \in 1 .. Len(ts) : ts[i].id # rsvid
           /\ IterIndex(ts, rsvid) # 0 => /\ IterIndex(ts, rsvid) \in 1 .. Len(ts)
                                          /\ ts[IterIndex(ts, rsvid)].id = rsvid
<1> DEFINE hits == IndexesByRsvid(ts, rsvid)
           m == Min(hits)
<1>1. hits \in SUBSET (1 .. Len(ts)) /\ \A i \in 1 .. Len(ts) : i \in hits <=> ts[i].id = rsvid
  BY DEF IndexesByRsvid
<1>2. hits \in SUBSET Nat
  BY <1>1
<1>3. IterIndex(ts, rsvid) = IF hits = {} THEN 0 ELSE m
  BY DEF IterIndex
<1>4. hits # {} => m \in hits
  <2> HIDE DEF hits
  <2> QED  BY <1>2, MinOfNats
<1> DEFINE at == IterIndex(ts, rsvid)
<1>5. at = IF hits = {} THEN 0 ELSE m
  BY <1>3
<1> HIDE DEF m, hits, at
<1>6. Len(ts) \in Nat
  BY LenProperties
<1>7. ASSUME hits # {} PROVE at \in 1 .. Len(ts) /\ at # 0 /\ ts[at].id = rsvid
  <2>1. at \in hits /\ at \in 1 .. Len(ts)
    BY <1>1, <1>4, <1>5, <1>7
  <2> QED  BY <1>1, <1>6, <2>1
<1>8. hits = {} => at = 0 /\ \A i \in 1 .. Len(ts) : ts[i].id # rsvid
  BY <1>1, <1>5
<1>9. (at = 0 <=> \A i \in 1 .. Len(ts) : ts[i].id # rsvid)
      /\ (at # 0 => at \in 1 .. Len(ts) /\ ts[at].id = rsvid)
  BY <1>7, <1>8
<1> QED  BY <1>9 DEF at

(* Whether a destroy ends what it names depends on whether that is the      *)
(* root of the list.                                                        *)
THEOREM DestroyEndsTheNewest == Spec => DestroyHits
<1>1. ASSUME TypeOK, NewestFirst, NEW rsvid \in 1 .. MaxRsv, RsvDestroy(rsvid)
      PROVE  IterIndex(tasks', rsvid) = 0 <=> IterIndex(tasks, rsvid) \in {0, 1}
  <2> DEFINE hits == IndexesByRsvid(tasks, rsvid)
             k == RemoveIndex(tasks, hits)
             n == Len(tasks)
             us == RemoveAt(tasks, k)
             rest == (2 .. n) \ hits
             r == Min(rest)
             at == IterIndex(tasks, rsvid)
  <2>1. k # 0 /\ tasks' = us
    BY <1>1 DEF RsvDestroy
  <2>2. tasks \in Seq(Task) /\ n \in Nat /\ k \in 1 .. n
    BY <1>1, <2>1, RemoveFacts, LenProperties DEF TypeOK
  <2>3. k = IF tasks = <<>> THEN 0 ELSE IF 1 \in hits THEN 1 ELSE IF rest = {} THEN 0 ELSE r
    BY DEF RemoveIndex
  <2>4. rest \in SUBSET Nat
    BY <2>2
  <2>5. rest # {} => r \in rest
    <3> HIDE DEF rest
    <3> QED  BY <2>4, MinOfNats
  <2>6. \A i \in 1 .. n : i \in hits <=> tasks[i].id = rsvid
    BY DEF IndexesByRsvid
  <2> HIDE DEF hits, r, k
  <2>7. /\ us \in Seq(Task) /\ Len(us) = n - 1
        /\ \A i \in 1 .. n - 1 : us[i] = IF i < k THEN tasks[i] ELSE tasks[i + 1]
    BY <2>2, RemoveAtFacts
  <2>8. /\ at = 0 <=> \A i \in 1 .. n : tasks[i].id # rsvid
        /\ at # 0 => at \in 1 .. n /\ tasks[at].id = rsvid
    BY <2>2, IterIndexIs
  <2>9. IterIndex(us, rsvid) = 0 <=> \A i \in 1 .. n - 1 : us[i].id # rsvid
    BY <2>7, IterIndexIs
  <2>10. \A i, j \in 1 .. n : tasks[i].id = rsvid /\ tasks[j].id = rsvid => i = j
    <3>1. \A i \in 1 .. n : tasks[i].id \in Nat
      <4>1. \A i \in 1 .. n : tasks[i] \in Task
        BY <2>2, ElementOfSeq
      <4> QED  BY <4>1 DEF Task
    <3>2. \A i, j \in 1 .. n : i < j => tasks[i].id > tasks[j].id
      BY <1>1 DEF NewestFirst
    <3> QED  BY <2>2, <3>1, <3>2
  <2> HIDE DEF us, at, n
  <2>11. CASE at = 0
    <3>1. \A i \in 1 .. n - 1 : us[i].id # rsvid
      <4> SUFFICES ASSUME NEW i \in 1 .. n - 1 PROVE us[i].id # rsvid
        OBVIOUS
      <4>1. i \in 1 .. n /\ i + 1 \in 1 .. n
        BY <2>2
      <4> QED  BY <2>7, <2>8, <2>11, <4>1
    <3> QED  BY <2>1, <2>9, <2>11, <3>1 DEF at
  <2>12. CASE at = 1
    <3>1. k = 1
      BY <2>2, <2>3, <2>6, <2>8, <2>12
    <3>2. \A i \in 1 .. n - 1 : us[i].id # rsvid
      <4> SUFFICES ASSUME NEW i \in 1 .. n - 1 PROVE us[i].id # rsvid
        OBVIOUS
      <4>1. i + 1 \in 1 .. n /\ i + 1 # 1 /\ ~(i < 1) /\ 1 \in 1 .. n
        BY <2>2
      <4>2. us[i] = tasks[i + 1]
        BY <2>7, <3>1, <4>1
      <4> QED  BY <2>8, <2>10, <2>12, <4>1, <4>2
    <3> QED  BY <2>1, <2>9, <2>12, <3>2 DEF at
  <2>13. CASE at \notin {0, 1}
    <3>1. at \in 2 .. n /\ tasks[at].id = rsvid
      BY <2>2, <2>8, <2>13
    <3>2. at \in hits /\ 1 \notin hits
      <4>1. 1 \in 1 .. n /\ at \in 1 .. n /\ at # 1
        BY <2>2, <3>1
      <4> QED  BY <2>6, <2>10, <3>1, <4>1
    <3>3. k # at
      BY <2>1, <2>3, <2>5, <3>2
    <3>4. \E i \in 1 .. n - 1 : us[i].id = rsvid
      <4>1. CASE at < k
        <5>1. at \in 1 .. n - 1
          BY <2>2, <3>1, <4>1
        <5> QED  BY <2>7, <3>1, <4>1, <5>1
      <4>2. CASE at > k
        <5>1. at - 1 \in 1 .. n - 1 /\ ~(at - 1 < k) /\ (at - 1) + 1 = at
          BY <2>2, <3>1, <4>2
        <5> QED  BY <2>7, <3>1, <5>1
      <4> QED  BY <2>2, <3>1, <3>3, <4>1, <4>2
    <3> QED  BY <2>1, <2>9, <2>13, <3>4 DEF at
  <2> QED  BY <2>11, <2>12, <2>13
<1>2. TypeOK /\ NewestFirst =>
         [\A rsvid \in 1 .. MaxRsv : RsvDestroy(rsvid) =>
             (IterIndex(tasks', rsvid) = 0 <=> IterIndex(tasks, rsvid) \in {0, 1})]_vars
  BY <1>1
<1> QED  BY <1>2, Types, Newest, PTL DEF DestroyHits

----------------------------------------------------------------------------
(* WHO LOSES ITS RESERVATION *)
(* A thread with a real-time policy and no reservation had one before, and  *)
(* lost it to a removal or to another attach.                               *)

(* Only an attach gives a thread a policy that is not the default.          *)
LEMMA PolicyRises ==
    ASSUME TypeOK, [Next]_vars, ~AttachesOne, NEW th \in Threads, kernel'[th].policy # "OTHER"
    PROVE  kernel[th].policy # "OTHER"
<1>1. CASE Detach
  <2>1. PICK t \in Task, done \in 0 .. 2 : SetThread(t.tid, AllCpus, "OTHER", 0, done)
    BY <1>1 DEF Detach, Deschedule
  <2>2. kernel \in KernelType /\ t.tid \in Threads
    BY KernelTyped
  <2>3. kernel'[th].policy \in {"OTHER", kernel[th].policy}
    BY <2>1, <2>2 DEF SetThread, KernelType
  <2> QED  BY <2>3
<1>2. CASE kernel' = kernel
  BY <1>2
<1> QED  BY <1>1, <1>2, KernelActions

(* A step that is not an attach keeps the thread of every reservation that  *)
(* it keeps.                                                                *)
LEMMA TidsKept ==
    ASSUME TypeOK, NewestFirst, [Next]_vars, ~AttachesOne, NEW i \in 1 .. Len(tasks)
    PROVE  \/ \E j \in 1 .. Len(tasks') : tasks'[j].tid = tasks[i].tid
           \/ \A j \in 1 .. Len(tasks') : tasks'[j].id # tasks[i].id
<1>1. tasks \in Seq(Task) /\ Len(tasks) \in Nat /\ \A j \in 1 .. Len(tasks) : tasks[j] \in Task
  BY LenProperties, ElementOfSeq DEF TypeOK
<1>2. ASSUME NEW par \in Params, NEW ppid \in Pids, NEW est \in Estimates,
             NEW wa \in [CPUs -> BOOLEAN], RsvCreate(par, ppid, est, wa)
      PROVE  \E j \in 1 .. Len(tasks') : tasks'[j].tid = tasks[i].tid
  <2>1. PICK u \in Task : tasks' = AddTop(tasks, u)
    BY <1>2, CreateFacts
  <2>2. /\ Len(AddTop(tasks, u)) = Len(tasks) + 1
        /\ \A j \in 1 .. Len(tasks) : AddTop(tasks, u)[j + 1] = tasks[j]
    BY <1>1, AddTopFacts
  <2>3. i + 1 \in 1 .. Len(tasks')  /\ tasks'[i + 1] = tasks[i]
    BY <1>1, <2>1, <2>2
  <2> QED  BY <2>3
<1>3. CASE Removes
  <2>1. PICK k \in 1 .. Len(tasks) : tasks' = RemoveAt(tasks, k)
    BY <1>3 DEF Removes
  <2>2. /\ Len(tasks') = Len(tasks) - 1
        /\ \A j \in 1 .. Len(tasks) - 1 : tasks'[j] = IF j < k THEN tasks[j] ELSE tasks[j + 1]
    BY <1>1, <2>1, RemoveAtFacts
  <2>3. CASE i < k
    <3>1. i \in 1 .. Len(tasks')
      BY <1>1, <2>2, <2>3
    <3> QED  BY <2>2, <2>3, <3>1
  <2>4. CASE i > k
    <3>1. i - 1 \in 1 .. Len(tasks') /\ ~(i - 1 < k) /\ (i - 1) + 1 = i
      BY <1>1, <2>2, <2>4
    <3> QED  BY <2>2, <3>1
  <2>5. CASE i = k
    <3> SUFFICES ASSUME NEW j \in 1 .. Len(tasks') PROVE tasks'[j].id # tasks[k].id
      BY <2>5
    <3>1. /\ j \in 1 .. Len(tasks) /\ j + 1 \in 1 .. Len(tasks)
          /\ tasks'[j] = IF j < k THEN tasks[j] ELSE tasks[j + 1]
      BY <1>1, <2>2
    <3>2. PICK m \in 1 .. Len(tasks) : m # k /\ tasks'[j] = tasks[m]
      <4>1. CASE j < k
        BY <3>1, <4>1
      <4>2. CASE ~(j < k)
        BY <3>1, <4>2
      <4> QED  BY <4>1, <4>2
    <3>3. tasks[m].id \in Nat /\ tasks[k].id \in Nat
      BY <1>1 DEF Task
    <3>4. m < k \/ k < m
      BY <1>1, <3>2
    <3> QED  BY <3>2, <3>3, <3>4 DEF NewestFirst
  <2> QED  BY <1>1, <2>3, <2>4, <2>5
<1>4. ASSUME NEW rsvid \in 1 .. MaxRsv, NEW est \in Estimates, RefreshSingle(rsvid, est)
      PROVE  \E j \in 1 .. Len(tasks') : tasks'[j].tid = tasks[i].tid
  <2>1. PICK k \in 1 .. Len(tasks), u \in Task :
           /\ u.tid = tasks[k].tid /\ Len(tasks') = Len(tasks)
           /\ \A j \in 1 .. Len(tasks) : tasks'[j] = IF j = k THEN u ELSE tasks[j]
    BY <1>4, RefreshFacts
  <2> QED  BY <2>1
<1>5. CASE RefreshSys
  <2>1. /\ Len(tasks') = Len(tasks)
        /\ tasks'[i] = [tasks[i] EXCEPT !.schedprio = CalcPrio(tasks, tasks[i])]
    BY <1>1, <1>5, RecalcFacts DEF RefreshSys
  <2>2. tasks'[i].tid = tasks[i].tid
    BY <1>1, <2>1 DEF Task
  <2> QED  BY <2>1, <2>2
<1>6. CASE Keeps
  BY <1>6 DEF Keeps
<1> QED  BY <1>2, <1>3, <1>4, <1>5, <1>6, StepCases DEF Creates, RefreshesOne

(* A thread keeps a real-time policy no reservation answers for only when   *)
(* its reservation was dropped or given to another thread.                  *)
THEOREM OrphansAreDropped == Spec => OrphanLostItsReservation
<1>1. ASSUME TypeOK, NewestFirst, [Next]_vars, NEW th \in Threads, Orphan(th)', ~Orphan(th)
      PROVE  \E i \in 1 .. Len(tasks) :
                /\ tasks[i].tid = th
                /\ \/ \A j \in 1 .. Len(tasks') : tasks'[j].id # tasks[i].id
                   \/ reply'.rep_type \in {"RSV_ATTACH_OK", "RSV_ATTACH_ERR"}
  <2>1. kernel'[th].policy # "OTHER" /\ \A j \in 1 .. Len(tasks') : tasks'[j].tid # th
    BY <1>1 DEF Orphan
  <2>2. kernel[th].policy # "OTHER" => \E i \in 1 .. Len(tasks) : tasks[i].tid = th
    BY <1>1 DEF Orphan
  <2>3. ASSUME NEW rsvid \in 1 .. MaxRsv, NEW done \in 0 .. 2, NEW tid \in Tids,
               RsvAttach(rsvid, tid, done)
        PROVE  /\ \E i \in 1 .. Len(tasks) : tasks[i].tid = th
               /\ reply'.rep_type \in {"RSV_ATTACH_OK", "RSV_ATTACH_ERR"}
    <3>1. PICK k \in 1 .. Len(tasks) :
             /\ tasks' = [tasks EXCEPT ![k] = [tasks[k] EXCEPT !.tid = tid]]
             /\ [tasks[k] EXCEPT !.tid = tid] \in Task
             /\ tasks' \in Seq(Task) /\ Len(tasks') = Len(tasks)
             /\ \A j \in 1 .. Len(tasks) :
                   tasks'[j] = IF j = k THEN [tasks[k] EXCEPT !.tid = tid] ELSE tasks[j]
             /\ Schedule(tasks'[k], done)
      BY <1>1, <2>3, AttachFacts
    <3>2. tasks[k] \in Task
      BY <1>1, ElementOfSeq DEF TypeOK
    <3>3. tasks'[k].tid = tid /\ tid # th
      <4>1. tasks'[k].tid = tid
        BY <3>1, <3>2 DEF Task
      <4> QED  BY <2>1, <3>1, <4>1
    <3>4. kernel'[th] = kernel[th]
      <4>1. kernel \in KernelType
        BY <1>1, <3>2, KernelTyped
      <4> QED  BY <3>1, <3>3, <4>1 DEF Schedule, SetThread, KernelType
    <3>5. reply'.rep_type \in {"RSV_ATTACH_OK", "RSV_ATTACH_ERR"}
      BY <2>3 DEF RsvAttach, Reply
    <3> QED  BY <2>1, <2>2, <3>4, <3>5
  <2>4. CASE AttachesOne
    BY <2>3, <2>4 DEF AttachesOne
  <2>5. CASE ~AttachesOne
    <3>1. PICK i \in 1 .. Len(tasks) : tasks[i].tid = th
      BY <1>1, <2>1, <2>2, <2>5, PolicyRises
    <3>2. \A j \in 1 .. Len(tasks') : tasks'[j].id # tasks[i].id
      BY <1>1, <2>1, <2>5, <3>1, TidsKept
    <3> QED  BY <3>1, <3>2
  <2> QED  BY <2>4, <2>5
<1>2. TypeOK /\ NewestFirst /\ [Next]_vars =>
         [\A th \in Threads : Orphan(th)' /\ ~Orphan(th) =>
             \E i \in 1 .. Len(tasks) :
                /\ tasks[i].tid = th
                /\ \/ \A j \in 1 .. Len(tasks') : tasks'[j].id # tasks[i].id
                   \/ reply'.rep_type \in {"RSV_ATTACH_OK", "RSV_ATTACH_ERR"}]_vars
  BY <1>1
<1> QED  BY <1>2, Types, Newest, PTL DEF Spec, OrphanLostItsReservation
=============================================================================
