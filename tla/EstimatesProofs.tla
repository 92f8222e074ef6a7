-------------------------- MODULE EstimatesProofs --------------------------
(***************************************************************************)
(* The theorems about the estimates, for any length of a second, any width *)
(* of a word, and any number of activations and requests.                  *)
(***************************************************************************)
EXTENDS Estimates, WellFoundedInduction, TLAPS

----------------------------------------------------------------------------
(* ARITHMETIC *)

(* Quotient and remainder are what they are known by.                       *)
LEMMA Division ==
    ASSUME NEW n \in Int, NEW d \in Nat \ {0}
    PROVE  /\ n \div d \in Int /\ n % d \in 0 .. d - 1
           /\ n = d * (n \div d) + (n % d)
<1>1. d \in Int /\ d > 0
  OBVIOUS
<1>2. n \div d \in Int /\ n % d \in 0 .. d - 1
  OBVIOUS
<1>3. n = d * (n \div d) + (n % d)
  BY <1>1
<1> QED  BY <1>2, <1>3

LEMMA DivisionUnique ==
    ASSUME NEW n \in Int, NEW d \in Nat \ {0}, NEW q \in Int, NEW r \in 0 .. d - 1,
           n = d * q + r
    PROVE  n \div d = q /\ n % d = r
<1> DEFINE p == n \div d
           s == n % d
<1>1. p \in Int /\ s \in 0 .. d - 1 /\ n = d * p + s
  BY Division
<1> HIDE DEF p, s
<1>2. d * (p - q) = r - s
  BY <1>1
<1>3. ASSUME p - q >= 1 PROVE FALSE
  <2>1. d * (p - q) >= d
    BY <1>1, <1>3
  <2> QED  BY <1>1, <1>2, <2>1
<1>4. ASSUME q - p >= 1 PROVE FALSE
  <2>1. d * (q - p) >= d
    BY <1>1, <1>4
  <2>2. d * (q - p) = s - r
    BY <1>1
  <2> QED  BY <1>1, <2>1, <2>2
<1>5. p = q
  BY <1>1, <1>3, <1>4
<1>6. s = r
  BY <1>1, <1>5
<1> QED  BY <1>5, <1>6 DEF p, s

(* A difference of remainders, reduced, is the difference if that is small. *)
LEMMA DifferenceWraps ==
    ASSUME NEW a \in Nat, NEW b \in Nat, NEW w \in Nat \ {0}, a - b \in 0 .. w - 1
    PROVE  ((a % w) - (b % w)) % w = a - b
<1> DEFINE r == a % w
           s == b % w
           q == b \div w - a \div w
<1>1. r \in Int /\ s \in Int /\ q \in Int /\ r - s = w * q + (a - b)
  <2> DEFINE x == a \div w
             y == b \div w
  <2>1. x \in Int /\ y \in Int /\ r \in Int /\ s \in Int /\ a = w * x + r /\ b = w * y + s
    BY Division
  <2> HIDE DEF x, y, r, s
  <2>2. w * (y - x) = w * y - w * x
    BY <2>1
  <2> QED  BY <2>1, <2>2 DEF x, y
<1> HIDE DEF r, s, q
<1>2. r - s \in Int
  BY <1>1
<1>3. (r - s) % w = a - b
  BY <1>1, <1>2, DivisionUnique
<1> QED  BY <1>3 DEF r, s

LEMMA UnitFacts ==
    /\ MsPerSec \in Nat \ {0} /\ NsPerMs \in Nat \ {0} /\ Word \in Nat \ {0}
    /\ NsPerSec \in Nat \ {0} /\ NsPerSec = MsPerSec * NsPerMs
<1>1. MsPerSec \in Nat \ {0} /\ NsPerMs \in Nat \ {0} /\ Word \in Nat \ {0}
  BY UnitsAssumption
<1>2. MsPerSec * NsPerMs \in Nat /\ MsPerSec * NsPerMs >= MsPerSec
  BY <1>1
<1> QED  BY <1>1, <1>2 DEF NsPerSec

LEMMA MsMonotone ==
    ASSUME NEW a \in Nat, NEW b \in Nat, a <= b
    PROVE  Ms(a) \in Nat /\ Ms(a) <= Ms(b)
<1> DEFINE n == NsPerMs
           x == a \div n
           y == b \div n
           r == a % n
           s == b % n
<1>1. n \in Nat /\ n > 0
  BY UnitFacts
<1>2. /\ x \in Int /\ y \in Int /\ r \in 0 .. n - 1 /\ s \in 0 .. n - 1
      /\ a = n * x + r /\ b = n * y + s
  BY <1>1, Division
<1> HIDE DEF n, x, y, r, s
<1>3. x >= 0
  <2> SUFFICES ASSUME x <= -1 PROVE FALSE
    BY <1>2
  <2>1. n * x <= n * (-1)
    BY <1>1, <1>2
  <2> QED  BY <1>1, <1>2, <2>1
<1>4. x <= y
  <2> SUFFICES ASSUME x >= y + 1 PROVE FALSE
    BY <1>2
  <2>1. n * x >= n * (y + 1) /\ n * (y + 1) = n * y + n
    BY <1>1, <1>2
  <2> QED  BY <1>1, <1>2, <2>1
<1> QED  BY <1>2, <1>3, <1>4 DEF Ms, n, x, y

(* The milliseconds of an instant and their 32 bits.                        *)
LEMMA MsIsTaken ==
    ASSUME NEW a \in Nat
    PROVE  /\ Instant(Timespec(a)) = a
           /\ TimespecToMs(Timespec(a)) = Ms(a) % Word
           /\ TimespecToMs(Timespec(a)) \in 0 .. Word - 1
<1> DEFINE S == NsPerSec
           q == a \div S
           r == a % S
           x == r \div NsPerMs
           y == r % NsPerMs
<1>1. S \in Nat \ {0} /\ S = MsPerSec * NsPerMs /\ NsPerMs \in Nat \ {0} /\ MsPerSec \in Nat
  BY UnitFacts
<1>2. q \in Int /\ r \in 0 .. S - 1 /\ a = S * q + r
  <2>1. S \in Nat \ {0}
    BY UnitFacts
  <2> QED  BY <2>1, Division
<1> HIDE DEF S, q, r
<1>3. x \in Int /\ y \in 0 .. NsPerMs - 1 /\ r = NsPerMs * x + y
  BY <1>1, <1>2, Division
<1> HIDE DEF x, y
<1>4. a = NsPerMs * (q * MsPerSec + x) + y
  <2>1. S * q = NsPerMs * (q * MsPerSec)
    BY <1>1, <1>2
  <2>2. NsPerMs * (q * MsPerSec + x) = NsPerMs * (q * MsPerSec) + NsPerMs * x
    BY <1>1, <1>2, <1>3
  <2> DEFINE u == NsPerMs * (q * MsPerSec)
             v == NsPerMs * x
             z == NsPerMs * (q * MsPerSec + x)
  <2>3. u \in Int /\ v \in Int /\ z = u + v /\ a = u + r /\ r = v + y /\ y \in Int
    BY <1>1, <1>2, <1>3, <2>1, <2>2
  <2> HIDE DEF u, v, z
  <2>4. a = z + y
    BY <2>3
  <2> QED  BY <2>4 DEF z
<1>5. a \div NsPerMs = q * MsPerSec + x
  <2>1. q * MsPerSec + x \in Int
    BY <1>1, <1>2, <1>3
  <2> QED  BY <1>1, <1>3, <1>4, <2>1, DivisionUnique
<1>6. TimespecToMs(Timespec(a)) = Ms(a) % Word
  BY <1>5 DEF TimespecToMs, Timespec, Ms, S, q, r, x
<1>7. Instant(Timespec(a)) = a
  <2>1. q * S + r = a
    BY <1>1, <1>2
  <2> QED  BY <2>1 DEF Instant, Timespec, S, q, r
<1>8. Ms(a) \in Int
  BY MsMonotone
<1> QED  BY <1>6, <1>7, <1>8, UnitFacts, Division

(* time_add_ms moves an instant by what it is told.                         *)
LEMMA AddMsMoves ==
    ASSUME NEW t, t.sec \in Int, t.nsec \in Int, NEW ms \in Nat
    PROVE  /\ Instant(TimeAddMs(t, ms)) = Instant(t) + ms * NsPerMs
           /\ TimeAddMs(t, ms).sec \in Int /\ TimeAddMs(t, ms).nsec \in Int
<1> DEFINE q == ms \div MsPerSec
           r == ms % MsPerSec
           S == NsPerSec
           c == r * NsPerMs
<1>1. /\ MsPerSec \in Nat \ {0} /\ NsPerMs \in Nat \ {0} /\ S \in Nat /\ S = MsPerSec * NsPerMs
  BY UnitFacts
<1>2. q \in Int /\ r \in 0 .. MsPerSec - 1 /\ ms = MsPerSec * q + r
  BY <1>1, Division
<1> HIDE DEF q, r, S
<1>3. c \in Int /\ ms * NsPerMs = q * S + c
  <2>1. ms * NsPerMs = (MsPerSec * q) * NsPerMs + r * NsPerMs
    BY <1>1, <1>2
  <2>2. (MsPerSec * q) * NsPerMs = q * S
    BY <1>1, <1>2
  <2> QED  BY <1>1, <1>2, <2>1, <2>2
<1> HIDE DEF c
<1>4. TimeAddMs(t, ms) = IF t.nsec + c > S
                           THEN [sec |-> t.sec + q + 1, nsec |-> (t.nsec + c) - S]
                           ELSE [sec |-> t.sec + q, nsec |-> t.nsec + c]
  BY DEF TimeAddMs, q, r, S, c
<1>5. /\ (t.sec + q + 1) * S = t.sec * S + q * S + S
      /\ (t.sec + q) * S = t.sec * S + q * S
      /\ t.sec * S \in Int /\ q * S \in Int
  BY <1>1, <1>2
<1>6. \A u : Instant(u) = u.sec * S + u.nsec
  BY DEF Instant, S
<1> DEFINE v == TimeAddMs(t, ms)
           g == t.sec * S
           h == q * S
<1> HIDE DEF v
<1>7. CASE t.nsec + c > S
  <2>1. v.sec = t.sec + q + 1 /\ v.nsec = (t.nsec + c) - S
    BY <1>4, <1>7 DEF v
  <2>2. v.sec * S = g + h + S
    BY <1>5, <2>1
  <2>3. v.sec \in Int /\ v.nsec \in Int
    BY <1>1, <1>2, <1>3, <2>1
  <2> HIDE DEF g, h
  <2>4. Instant(v) = g + h + S + ((t.nsec + c) - S) /\ Instant(t) = g + t.nsec
    BY <1>6, <2>1, <2>2 DEF g
  <2>5. g \in Int /\ h \in Int /\ S \in Int /\ ms * NsPerMs = h + c
    BY <1>1, <1>3, <1>5 DEF g, h
  <2> QED  BY <1>3, <2>3, <2>4, <2>5 DEF v
<1>8. CASE ~(t.nsec + c > S)
  <2>1. v.sec = t.sec + q /\ v.nsec = t.nsec + c
    BY <1>4, <1>8 DEF v
  <2>2. v.sec * S = g + h
    BY <1>5, <2>1
  <2>3. v.sec \in Int /\ v.nsec \in Int
    BY <1>2, <1>3, <2>1
  <2> HIDE DEF g, h
  <2>4. Instant(v) = g + h + (t.nsec + c) /\ Instant(t) = g + t.nsec
    BY <1>6, <2>1, <2>2 DEF g
  <2>5. g \in Int /\ h \in Int /\ ms * NsPerMs = h + c
    BY <1>1, <1>3, <1>5 DEF g, h
  <2> QED  BY <1>3, <2>3, <2>4, <2>5 DEF v
<1> QED  BY <1>7, <1>8

----------------------------------------------------------------------------
(* TYPES AND CLOCKS *)

Places == {"check", "put period", "put clk", "put num", "put abs", "compute", "end",
           "wait", "done", "dead"}

(* The variables have the types of struct rts_params, struct rts_thread,    *)
(* the words of the segment and the daemon's copy.                          *)
ThreadTyped ==
    /\ cfg \in [budget : Nat, period : Nat, deadline : Nat]
    /\ twcet \in Nat /\ tperiod \in Nat /\ skew \in Int /\ act \in [sec : Int, nsec : Int]
    /\ pc \in Places /\ left \in Nat /\ curr \in 0 .. Word - 1
ClocksTyped ==
    /\ now \in Nat /\ cpu \in Nat
    /\ start \in Nat /\ last \in Nat /\ began \in Nat /\ peak \in Nat /\ gaps \in Seq(Nat)
SegmentTyped ==
    mem \in [num : Nat, abs : 0 .. Word - 1, period : Nat, wcet : Nat, clk : 0 .. Word - 1]
DaemonTyped ==
    dpc \in {"idle", "read period"} /\ dw \in Nat /\ rsv \in BOOLEAN /\ ops \in Nat
TypeOK == ThreadTyped /\ ClocksTyped /\ SegmentTyped /\ DaemonTyped

(* What the words of the segment are the low bits of, and when.             *)
Low(ms) == ms % Word
Passed == began <= cpu /\ last <= Ms(now)
Stamped ==
    /\ pc \in {"put period", "put clk", "put num", "put abs"} => curr = Low(Ms(now))
    /\ pc # "put abs" /\ mem.num > 0 => mem.abs = Low(last)
    /\ pc \in {"put num", "put abs", "compute", "end"} => mem.clk = Low(Ms(began))
    /\ pc \in {"put period", "put abs", "compute", "end", "wait"} => mem.num > 0
Clocked == Passed /\ Stamped

ClockInv == TypeOK /\ Clocked

LEMMA EstFacts ==
    /\ EstPeriod \in Nat \ {0} /\ EstWcet \in Nat \ {0} /\ Scale \in Nat \ {0}
    /\ Configs \subseteq [budget : Nat, period : Nat, deadline : Nat]
    /\ Garbage \subseteq 0 .. Word - 1 /\ Skews \subseteq Int
    /\ Starts \subseteq Nat /\ Overheads \subseteq Nat /\ Delays \subseteq Nat
    /\ MaxAct \in Nat /\ MaxOps \in Nat
BY EstimatesAssumption

LEMMA ClockInit == Init => ClockInv
<1> SUFFICES ASSUME Init PROVE ClockInv
  OBVIOUS
<1>1. cfg \in [budget : Nat, period : Nat, deadline : Nat] /\ now \in Nat /\ cpu = 0
  BY EstFacts DEF Init
<1>2. twcet \in Nat /\ tperiod \in Nat
  <2>1. cfg.budget \in Nat /\ cfg.period \in Nat /\ cfg.deadline \in Nat
    BY <1>1
  <2>2. twcet \in CalcExec(cfg) /\ tperiod \in CalcPeriod(cfg)
    BY DEF Init
  <2> QED  BY <2>1, <2>2, EstFacts DEF CalcExec, CalcPeriod
<1>3. act \in [sec : Int, nsec : Int]
  <2>1. now \div NsPerSec \in Int /\ now % NsPerSec \in Int
    BY <1>1, UnitFacts, Division
  <2> QED  BY <2>1 DEF Init, Timespec
<1>4. PICK g \in Garbage :
        mem = [num |-> 0, abs |-> g, period |-> EstPeriod, wcet |-> EstWcet, clk |-> g]
  BY DEF Init
<1>5. 0 \in 0 .. Word - 1 /\ <<>> \in Seq(Nat) /\ g \in 0 .. Word - 1
  BY <1>4, EstFacts, UnitFacts
<1>6. ThreadTyped
  <2>1. left \in Nat
    BY EstFacts DEF Init
  <2> QED  BY <1>1, <1>2, <1>3, <1>5, <2>1, EstFacts DEF Init, ThreadTyped, Places
<1>7. ClocksTyped
  BY <1>1, <1>5 DEF Init, ClocksTyped
<1>8. SegmentTyped
  BY <1>4, <1>5, EstFacts DEF SegmentTyped
<1>9. DaemonTyped
  BY DEF Init, DaemonTyped
<1>10. Ms(now) \in Nat
  BY <1>1, MsMonotone
<1> QED  BY <1>1, <1>4, <1>6, <1>7, <1>8, <1>9, <1>10 DEF ClockInv, TypeOK, Clocked, Passed, Stamped, Init

(* The three steps in which time passes or is read.                         *)
LEMMA ComputeClock ==
    ASSUME ClockInv, Compute
    PROVE  ClockInv' /\ now' >= now /\ cpu' >= cpu
<1>1. PICK ms \in 0 .. twcet - 1, over \in Overheads, delay \in Delays :
        /\ cpu' = cpu + ms * NsPerMs + over
        /\ TimeAfter(Timespec(cpu'), TimeAddMs(Timespec(cpu), ms))
        /\ now' = now + ms * NsPerMs + over + delay
  BY DEF Compute
<1>2. ms \in Nat /\ over \in Nat /\ delay \in Nat /\ now \in Nat /\ cpu \in Nat
  BY <1>1, EstFacts DEF ClockInv, TypeOK, ThreadTyped, ClocksTyped
<1>3. ms * NsPerMs \in Nat
  BY <1>2, UnitFacts
<1>4. now' \in Nat /\ cpu' \in Nat /\ now <= now' /\ cpu <= cpu'
  BY <1>1, <1>2, <1>3
<1>5. Goes("compute", "end") /\ UNCHANGED <<thread, act, mem, left, curr, history, daemon>>
  BY DEF Compute
<1>6. TypeOK'
  <2>1. ThreadTyped' /\ ClocksTyped'
    BY <1>4, <1>5 DEF Goes, Places, ClockInv, TypeOK, ThreadTyped, ClocksTyped, thread, history
  <2>2. SegmentTyped' /\ DaemonTyped'
    BY <1>5 DEF ClockInv, TypeOK, SegmentTyped, DaemonTyped, daemon, ledger
  <2> QED  BY <2>1, <2>2 DEF TypeOK
<1>7. Ms(now) \in Nat /\ Ms(now) <= Ms(now') /\ Ms(now') \in Nat
  BY <1>2, <1>4, MsMonotone
<1>8. Clocked'
  <2>1. began' <= cpu'
    BY <1>2, <1>4, <1>5 DEF ClockInv, TypeOK, ClocksTyped, Clocked, Passed, history
  <2>2. last' <= Ms(now')
    BY <1>5, <1>7 DEF ClockInv, TypeOK, ClocksTyped, Clocked, Passed, history
  <2>3. pc = "compute" /\ pc' = "end" /\ mem' = mem /\ last' = last /\ began' = began /\ Clocked
    BY <1>5 DEF Goes, ClockInv, history
  <2> QED  BY <2>1, <2>2, <2>3 DEF Clocked, Passed, Stamped
<1> QED  BY <1>2, <1>4, <1>6, <1>8 DEF ClockInv

LEMMA WaitClock ==
    ASSUME ClockInv, Wait
    PROVE  ClockInv' /\ now' >= now
<1> DEFINE next == TimeAddMs(act, tperiod)
           sleep == Positive(Instant(next) - (now + skew))
<1>1. /\ act.sec \in Int /\ act.nsec \in Int /\ tperiod \in Nat /\ now \in Nat /\ skew \in Int
  BY DEF ClockInv, TypeOK, ThreadTyped, ClocksTyped
<1>2. next.sec \in Int /\ next.nsec \in Int
  BY <1>1, AddMsMoves
<1> HIDE DEF next
<1>3. Instant(next) \in Int
  BY <1>2, UnitFacts DEF Instant
<1>4. sleep \in Nat
  BY <1>1, <1>3 DEF Positive, Larger
<1> HIDE DEF sleep
<1>5. PICK delay \in Delays : now' = now + delay + (IF ValidTimespec(next) THEN sleep ELSE 0)
  BY DEF Wait, next, sleep
<1>6. now' \in Nat /\ now <= now'
  <2>1. delay \in Nat
    BY <1>5, EstFacts
  <2> QED  BY <1>1, <1>4, <1>5, <2>1
<1>7. act' \in [sec : Int, nsec : Int]
  <2>1. act' = next /\ next = [sec |-> next.sec, nsec |-> next.nsec]
    BY DEF Wait, next, TimeAddMs
  <2> QED  BY <1>2, <2>1
<1>8. Goes("wait", "check") /\ UNCHANGED <<thread, cpu, mem, left, curr, history, daemon>>
  BY DEF Wait
<1>9. TypeOK'
  <2>1. ThreadTyped' /\ ClocksTyped'
    BY <1>6, <1>7, <1>8 DEF Goes, Places, ClockInv, TypeOK, ThreadTyped, ClocksTyped, thread, history
  <2>2. SegmentTyped' /\ DaemonTyped'
    BY <1>8 DEF ClockInv, TypeOK, SegmentTyped, DaemonTyped, daemon, ledger
  <2> QED  BY <2>1, <2>2 DEF TypeOK
<1>10. Ms(now) \in Nat /\ Ms(now) <= Ms(now') /\ Ms(now') \in Nat
  BY <1>1, <1>6, MsMonotone
<1>11. Clocked'
  <2>1. last' <= Ms(now')
    BY <1>8, <1>10 DEF ClockInv, TypeOK, ClocksTyped, Clocked, Passed, history
  <2>2. pc = "wait" /\ pc' = "check" /\ mem' = mem /\ last' = last /\ began' = began /\ cpu' = cpu /\ Clocked
    BY <1>8 DEF Goes, ClockInv, history
  <2> QED  BY <2>1, <2>2 DEF Clocked, Passed, Stamped
<1> QED  BY <1>1, <1>6, <1>9, <1>11 DEF ClockInv

LEMMA ReadClock ==
    ASSUME ClockInv, BeginRead \/ PutPerthreadClk
    PROVE  ClockInv'
<1>1. TypeOK /\ Clocked /\ now \in Nat /\ cpu \in Nat
  BY DEF ClockInv, TypeOK, ClocksTyped
<1>2. /\ TimespecToMs(Timespec(now)) = Low(Ms(now)) /\ TimespecToMs(Timespec(now)) \in 0 .. Word - 1
      /\ TimespecToMs(Timespec(cpu)) = Low(Ms(cpu)) /\ TimespecToMs(Timespec(cpu)) \in 0 .. Word - 1
  BY <1>1, MsIsTaken DEF Low
<1>3. CASE BeginRead
  <2>1. /\ pc = "check" /\ pc' = (IF mem.num > 0 THEN "put period" ELSE "put clk")
        /\ left > 0 /\ left' = left - 1 /\ curr' = Low(Ms(now)) /\ curr' \in 0 .. Word - 1
        /\ UNCHANGED <<thread, act, clocks, mem, history, daemon>>
    BY <1>2, <1>3 DEF BeginRead, Goes
  <2>2. ThreadTyped'
    <3>1. pc' \in Places
      BY <2>1 DEF Places
    <3>2. left' \in Nat
      <4>1. left \in Nat
        BY <1>1 DEF TypeOK, ThreadTyped
      <4>2. left > 0 /\ left' = left - 1
        BY <2>1
      <4> QED  BY <4>1, <4>2
    <3> QED  BY <1>1, <2>1, <3>1, <3>2 DEF TypeOK, ThreadTyped, thread
  <2>3. ClocksTyped' /\ SegmentTyped' /\ DaemonTyped'
    BY <1>1, <2>1 DEF TypeOK, ClocksTyped, SegmentTyped, DaemonTyped, clocks, history, daemon, ledger
  <2>4. Clocked'
    BY <1>1, <2>1 DEF Clocked, Passed, Stamped, clocks, history
  <2> QED  BY <2>2, <2>3, <2>4 DEF ClockInv, TypeOK
<1>4. CASE PutPerthreadClk
  <2>1. /\ Goes("put clk", "put num") /\ mem' = [mem EXCEPT !.clk = Low(Ms(cpu))] /\ began' = cpu
        /\ Low(Ms(cpu)) \in 0 .. Word - 1
        /\ UNCHANGED <<thread, act, clocks, left, curr, start, last, gaps, peak, daemon>>
    BY <1>2, <1>4 DEF PutPerthreadClk
  <2>2. ThreadTyped' /\ ClocksTyped'
    BY <1>1, <2>1 DEF TypeOK, ThreadTyped, ClocksTyped, Goes, Places, thread, clocks
  <2>3. SegmentTyped' /\ mem'.clk = Low(Ms(cpu)) /\ mem'.num = mem.num /\ mem'.abs = mem.abs
    BY <1>1, <2>1 DEF TypeOK, SegmentTyped
  <2>4. DaemonTyped'
    BY <1>1, <2>1 DEF TypeOK, DaemonTyped, daemon, ledger
  <2>5. Passed'
    <3>1. began' = cpu /\ cpu' = cpu /\ now' = now /\ last' = last
      BY <2>1 DEF clocks
    <3>2. cpu <= cpu
      BY <1>1
    <3> QED  BY <1>1, <3>1, <3>2 DEF Clocked, Passed
  <2>6. Stamped'
    BY <1>1, <2>1, <2>3 DEF Clocked, Stamped, Goes, clocks
  <2> QED  BY <2>2, <2>3, <2>4, <2>5, <2>6 DEF ClockInv, TypeOK, Clocked
<1> QED  BY <1>3, <1>4

(* The gap a period estimate is made of is the gap of the history, reduced. *)
LEMMA GapTaken ==
    ASSUME ClockInv, PutPeriod
    PROVE  /\ Ms(now) - last \in Nat
           /\ (curr - mem.abs) % Word \in 0 .. Word - 1
           /\ Ms(now) - last < Word => (curr - mem.abs) % Word = Ms(now) - last
           /\ mem'.period = (((curr - mem.abs) % Word) + mem.period) \div 2 /\ mem'.period \in Nat
<1>1. /\ now \in Nat /\ last \in Nat /\ curr \in Int /\ mem.abs \in Int /\ mem.period \in Nat
      /\ Word \in Nat \ {0}
  BY UnitFacts DEF ClockInv, TypeOK, ThreadTyped, ClocksTyped, SegmentTyped
<1>2. curr = Low(Ms(now)) /\ mem.abs = Low(last) /\ last <= Ms(now) /\ Ms(now) \in Nat
  <2>1. pc = "put period" /\ Clocked
    BY DEF PutPeriod, Goes, ClockInv
  <2>2. curr = Low(Ms(now)) /\ mem.abs = Low(last)
    BY <2>1 DEF Clocked, Stamped
  <2>3. last <= Ms(now)
    BY <2>1 DEF Clocked, Passed
  <2>4. Ms(now) \in Nat
    BY <1>1, MsMonotone
  <2> QED  BY <2>2, <2>3, <2>4
<1>3. (curr - mem.abs) % Word \in 0 .. Word - 1
  <2>1. curr - mem.abs \in Int
    BY <1>1
  <2> QED  BY <1>1, <2>1, Division
<1>4. Ms(now) - last < Word => (curr - mem.abs) % Word = Ms(now) - last
  BY <1>1, <1>2, DifferenceWraps DEF Low
<1>5. mem'.period = (((curr - mem.abs) % Word) + mem.period) \div 2
  BY DEF PutPeriod, ClockInv, TypeOK, SegmentTyped
<1>6. mem'.period \in Nat
  <2> DEFINE g == (curr - mem.abs) % Word
  <2>1. g \in Nat
    BY <1>1, <1>3
  <2> HIDE DEF g
  <2> QED  BY <1>1, <1>5, <2>1 DEF g
<1> QED  BY <1>1, <1>2, <1>3, <1>4, <1>5, <1>6

LEMMA StoreClock ==
    ASSUME ClockInv, PutPeriod \/ PutNumActivation \/ PutAbsActivation
    PROVE  ClockInv'
<1>1. TypeOK /\ Clocked /\ now \in Nat /\ cpu \in Nat /\ Ms(now) \in Nat
  BY MsMonotone DEF ClockInv, TypeOK, ClocksTyped
<1>2. CASE PutPeriod
  <2>1. /\ Goes("put period", "put clk") /\ gaps' = Append(gaps, Ms(now) - last)
        /\ UNCHANGED <<thread, act, clocks, left, curr, start, last, began, peak, daemon>>
    BY <1>2 DEF PutPeriod
  <2>2. Ms(now) - last \in Nat /\ mem'.period \in Nat
    BY <1>2, GapTaken
  <2>3. SegmentTyped' /\ mem'.clk = mem.clk /\ mem'.num = mem.num /\ mem'.abs = mem.abs
    <3>1. mem' = [mem EXCEPT !.period = mem'.period]
      BY <1>1, <1>2 DEF PutPeriod, TypeOK, SegmentTyped
    <3> QED  BY <1>1, <2>2, <3>1 DEF TypeOK, SegmentTyped
  <2>4. ThreadTyped' /\ ClocksTyped'
    <3>1. gaps' \in Seq(Nat)
      <4>1. gaps \in Seq(Nat) /\ gaps' = Append(gaps, Ms(now) - last)
        BY <1>1, <2>1 DEF TypeOK, ClocksTyped
      <4> QED  BY <2>2, <4>1
    <3> QED  BY <1>1, <2>1, <3>1 DEF TypeOK, ThreadTyped, ClocksTyped, Goes, Places, thread, clocks
  <2>5. DaemonTyped'
    BY <1>1, <2>1 DEF TypeOK, DaemonTyped, daemon, ledger
  <2>6. Clocked'
    BY <1>1, <2>1, <2>3 DEF Clocked, Passed, Stamped, Goes, clocks
  <2> QED  BY <2>3, <2>4, <2>5, <2>6 DEF ClockInv, TypeOK
<1>3. CASE PutNumActivation
  <2>1. /\ Goes("put num", "put abs") /\ mem' = [mem EXCEPT !.num = @ + 1]
        /\ UNCHANGED <<thread, act, clocks, left, curr, history, daemon>>
    BY <1>3 DEF PutNumActivation
  <2>2. SegmentTyped' /\ mem'.clk = mem.clk /\ mem'.num = mem.num + 1 /\ mem'.abs = mem.abs /\ mem.num \in Nat
    <3>1. mem.num \in Nat /\ mem.num + 1 \in Nat
      BY <1>1 DEF TypeOK, SegmentTyped
    <3> QED  BY <1>1, <2>1, <3>1 DEF TypeOK, SegmentTyped
  <2>3. ThreadTyped' /\ ClocksTyped'
    BY <1>1, <2>1 DEF TypeOK, ThreadTyped, ClocksTyped, Goes, Places, thread, clocks, history
  <2>4. DaemonTyped'
    BY <1>1, <2>1 DEF TypeOK, DaemonTyped, daemon, ledger
  <2>5. Passed'
    BY <1>1, <2>1 DEF Clocked, Passed, clocks, history
  <2>6. Stamped'
    <3>1. mem.num + 1 > 0
      BY <2>2
    <3> QED  BY <1>1, <2>1, <2>2, <3>1 DEF Clocked, Stamped, Goes, clocks, history
  <2> QED  BY <2>2, <2>3, <2>4, <2>5, <2>6 DEF ClockInv, TypeOK, Clocked
<1>4. CASE PutAbsActivation
  <2>1. /\ Goes("put abs", "compute") /\ mem' = [mem EXCEPT !.abs = curr] /\ last' = Ms(now)
        /\ UNCHANGED <<thread, act, clocks, left, curr, start, began, gaps, peak, daemon>>
    BY <1>4 DEF PutAbsActivation
  <2>2. SegmentTyped' /\ mem'.clk = mem.clk /\ mem'.num = mem.num /\ mem'.abs = curr
    BY <1>1, <2>1 DEF TypeOK, SegmentTyped, ThreadTyped
  <2>3. ThreadTyped' /\ ClocksTyped'
    BY <1>1, <2>1 DEF TypeOK, ThreadTyped, ClocksTyped, Goes, Places, thread, clocks
  <2>4. DaemonTyped'
    BY <1>1, <2>1 DEF TypeOK, DaemonTyped, daemon, ledger
  <2>5. Passed'
    <3>1. last' = Ms(now) /\ Ms(now') = Ms(now) /\ cpu' = cpu /\ began' = began
      BY <2>1 DEF clocks
    <3> QED  BY <1>1, <3>1 DEF Clocked, Passed
  <2>6. Stamped'
    <3>1. curr = Low(Ms(now)) /\ mem.num > 0 /\ mem.clk = Low(Ms(began))
      BY <1>1, <2>1 DEF Clocked, Stamped, Goes
    <3> QED  BY <2>1, <2>2, <3>1 DEF Stamped, Goes
  <2> QED  BY <2>2, <2>3, <2>4, <2>5, <2>6 DEF ClockInv, TypeOK, Clocked
<1> QED  BY <1>2, <1>3, <1>4

(* What an activation cost, and what becomes of the estimate.               *)
LEMMA CostTaken ==
    ASSUME ClockInv, End
    PROVE  \E cost \in Nat :
             /\ cost = (TimespecToMs(Timespec(cpu)) - mem.clk) % Word
             /\ mem' = [mem EXCEPT !.wcet = IF mem.num > 1 THEN Larger(mem.wcet, cost) ELSE cost]
             /\ mem'.wcet = (IF mem.num > 1 THEN Larger(mem.wcet, cost) ELSE cost)
             /\ mem'.num = mem.num /\ mem'.clk = mem.clk /\ mem'.abs = mem.abs
             /\ mem'.period = mem.period /\ SegmentTyped'
<1> DEFINE cost == (TimespecToMs(Timespec(cpu)) - mem.clk) % Word
<1>1. SegmentTyped /\ cpu \in Nat
  BY DEF ClockInv, TypeOK, ClocksTyped
<1>2. cost \in Nat
  <2>1. TimespecToMs(Timespec(cpu)) - mem.clk \in Int
    BY <1>1, MsIsTaken DEF SegmentTyped
  <2> QED  BY <2>1, UnitFacts, Division
<1>3. mem' = [mem EXCEPT !.wcet = IF mem.num > 1 THEN Larger(mem.wcet, cost) ELSE cost]
  BY DEF End
<1> HIDE DEF cost
<1>4. (IF mem.num > 1 THEN Larger(mem.wcet, cost) ELSE cost) \in Nat
  BY <1>1, <1>2 DEF Larger, SegmentTyped
<1>5. /\ mem'.wcet = (IF mem.num > 1 THEN Larger(mem.wcet, cost) ELSE cost)
      /\ mem'.num = mem.num /\ mem'.clk = mem.clk /\ mem'.abs = mem.abs
      /\ mem'.period = mem.period /\ SegmentTyped'
  BY <1>1, <1>3, <1>4 DEF SegmentTyped
<1> QED  BY <1>2, <1>3, <1>5 DEF cost

LEMMA EndClock ==
    ASSUME ClockInv, End
    PROVE  ClockInv'
<1>1. TypeOK /\ Clocked
  BY DEF ClockInv
<1>2. /\ Goes("end", "wait") /\ peak' = Larger(peak, cpu - began)
      /\ UNCHANGED <<thread, act, clocks, left, curr, start, last, began, gaps, daemon>>
  BY DEF End
<1>3. SegmentTyped' /\ mem'.clk = mem.clk /\ mem'.num = mem.num /\ mem'.abs = mem.abs
  BY CostTaken
<1>4. peak' \in Nat
  BY <1>1, <1>2 DEF Larger, TypeOK, ClocksTyped, Clocked, Passed
<1>5. ThreadTyped' /\ ClocksTyped'
  BY <1>1, <1>2, <1>4 DEF TypeOK, ThreadTyped, ClocksTyped, Goes, Places, thread, clocks
<1>6. DaemonTyped'
  BY <1>1, <1>2 DEF TypeOK, DaemonTyped, daemon, ledger
<1>7. Clocked'
  BY <1>1, <1>2, <1>3 DEF Clocked, Passed, Stamped, Goes, clocks
<1> QED  BY <1>3, <1>5, <1>6, <1>7 DEF ClockInv, TypeOK

(* What the daemon does, and the thread when it stops.                      *)
LEMMA DaemonClock ==
    ASSUME ClockInv,
           \/ Ended \/ ComputeFails \/ ReadWcet \/ Admit \/ Refuse \/ RefreshSingle
           \/ RefreshSys \/ RsvDestroy
    PROVE  ClockInv'
<1>1. TypeOK /\ Clocked
  BY DEF ClockInv
<1>2. CASE Ended \/ ComputeFails
  <2>1. /\ pc \in {"check", "compute"} /\ pc' \in {"done", "dead"}
        /\ UNCHANGED <<thread, act, clocks, mem, left, curr, history, daemon>>
    BY <1>2 DEF Ended, ComputeFails, Goes
  <2>2. TypeOK'
    BY <1>1, <2>1 DEF Places, TypeOK, ThreadTyped, ClocksTyped, SegmentTyped, DaemonTyped,
         thread, clocks, history, daemon, ledger
  <2>3. Clocked'
    BY <1>1, <2>1 DEF Clocked, Passed, Stamped, clocks, history
  <2> QED  BY <2>2, <2>3 DEF ClockInv
<1>3. CASE ReadWcet \/ Admit \/ Refuse \/ RefreshSingle \/ RefreshSys \/ RsvDestroy
  <2>1. client' = client
    BY <1>3 DEF ReadWcet, Admit, Refuse, RefreshSingle, Evaluated, RefreshSys, RsvDestroy
  <2>2. DaemonTyped'
    <3>1. DaemonTyped /\ cfg.budget \in Nat /\ mem.wcet \in Nat
      BY <1>1 DEF TypeOK, ThreadTyped, SegmentTyped
    <3>2. ops + 1 \in Nat
      <4>1. ops \in Nat
        BY <3>1 DEF DaemonTyped
      <4> QED  BY <4>1
    <3>3. CASE ReadWcet
      BY <3>1, <3>2, <3>3 DEF DaemonTyped, ReadWcet, ledger
    <3>4. CASE Admit \/ Refuse \/ RefreshSingle
      BY <3>1, <3>4 DEF DaemonTyped, Admit, Refuse, RefreshSingle, Evaluated, ledger
    <3>5. CASE RefreshSys \/ RsvDestroy
      BY <3>1, <3>2, <3>5 DEF DaemonTyped, RefreshSys, RsvDestroy
    <3> QED  BY <1>3, <3>3, <3>4, <3>5
  <2>3. ThreadTyped' /\ ClocksTyped' /\ SegmentTyped'
    BY <1>1, <2>1 DEF TypeOK, ThreadTyped, ClocksTyped, SegmentTyped, client, thread, clocks, history
  <2>4. Clocked'
    BY <1>1, <2>1 DEF Clocked, Passed, Stamped, client, clocks, history
  <2> QED  BY <2>2, <2>3, <2>4 DEF ClockInv, TypeOK
<1> QED  BY <1>2, <1>3

LEMMA ClockStep == ClockInv /\ [Next]_vars => ClockInv'
<1> SUFFICES ASSUME ClockInv, [Next]_vars PROVE ClockInv'
  OBVIOUS
<1>1. CASE UNCHANGED vars
  BY <1>1 DEF vars, thread, clocks, history, daemon, ledger, ClockInv, TypeOK, Clocked, Passed, Stamped,
       ThreadTyped, ClocksTyped, SegmentTyped, DaemonTyped
<1> QED  BY <1>1, ComputeClock, WaitClock, ReadClock, StoreClock, EndClock, DaemonClock DEF Next

(* Every reachable state has the types stated, and the words of the segment *)
(* are the low bits of the clocks.                                          *)
THEOREM ClocksHold == Spec => []ClockInv
  BY ClockInit, ClockStep, PTL DEF Spec

----------------------------------------------------------------------------
(* THE SCHEDULE *)

(* The activation planned is the one the segment counts, or from its count  *)
(* to the end of its wait the one before.                                   *)
Planned ==
    /\ pc \in {"check", "put period", "put clk", "put num"} =>
          Instant(act) = start + mem.num * tperiod * NsPerMs
    /\ pc \in {"put abs", "compute", "end", "wait"} =>
          Instant(act) = start + (mem.num - 1) * tperiod * NsPerMs
Slept == pc = "check" /\ mem.num > 0 => now + skew >= Instant(act) \/ ~ValidTimespec(act)
PlanInv == ClockInv /\ Planned /\ Slept

LEMMA OneMorePeriod ==
    ASSUME NEW n \in Nat, NEW t \in Nat, NEW m \in Nat
    PROVE  (n - 1) * t * m + t * m = n * t * m
<1> DEFINE u == t * m
<1>1. u \in Nat /\ (n - 1) * t * m = (n - 1) * u /\ n * t * m = n * u
  OBVIOUS
<1>2. (n - 1) * u + u = n * u
  BY <1>1
<1> QED  BY <1>1, <1>2

LEMMA PlanWait ==
    ASSUME PlanInv, Wait
    PROVE  Planned' /\ Slept'
<1> DEFINE next == TimeAddMs(act, tperiod)
           sleep == Positive(Instant(next) - (now + skew))
<1>1. /\ act.sec \in Int /\ act.nsec \in Int /\ tperiod \in Nat /\ now \in Nat /\ skew \in Int
      /\ start \in Nat /\ mem.num \in Nat
  BY DEF PlanInv, ClockInv, TypeOK, ThreadTyped, ClocksTyped, SegmentTyped
<1>2. Instant(next) = Instant(act) + tperiod * NsPerMs
  BY <1>1, AddMsMoves
<1>3. next.sec \in Int /\ next.nsec \in Int
  BY <1>1, AddMsMoves
<1> HIDE DEF next
<1>4. Instant(next) \in Int
  BY <1>3, UnitFacts DEF Instant
<1>5. PICK delay \in Delays : now' = now + delay + (IF ValidTimespec(next) THEN sleep ELSE 0)
  BY DEF Wait, next
<1>6. sleep \in Nat /\ now + skew + sleep >= Instant(next)
  BY <1>1, <1>4 DEF Positive, Larger
<1> HIDE DEF sleep
<1>7. /\ Goes("wait", "check") /\ act' = next
      /\ UNCHANGED <<thread, cpu, mem, left, curr, history, daemon>>
  BY DEF Wait, next
<1>8. Instant(next) = start + mem.num * tperiod * NsPerMs
  <2>1. Instant(act) = start + (mem.num - 1) * tperiod * NsPerMs
    BY <1>7 DEF PlanInv, Planned, Goes
  <2>2. (mem.num - 1) * tperiod * NsPerMs + tperiod * NsPerMs = mem.num * tperiod * NsPerMs
    BY <1>1, UnitFacts, OneMorePeriod
  <2> DEFINE a == (mem.num - 1) * tperiod * NsPerMs
             b == tperiod * NsPerMs
             c == mem.num * tperiod * NsPerMs
  <2>3. a \in Int /\ b \in Int /\ c \in Int
    BY <1>1, UnitFacts
  <2>4. Instant(next) = start + a + b /\ a + b = c
    BY <1>2, <2>1, <2>2
  <2> HIDE DEF a, b, c
  <2>5. Instant(next) = start + c
    BY <1>1, <2>3, <2>4
  <2> QED  BY <2>5 DEF c
<1>9. Planned'
  BY <1>7, <1>8 DEF Planned, Goes, thread, history
<1>10. ValidTimespec(next) => now' + skew >= Instant(next)
  <2> SUFFICES ASSUME ValidTimespec(next) PROVE now' + skew >= Instant(next)
    OBVIOUS
  <2>1. delay \in Nat /\ now' = now + delay + sleep
    BY <1>5, EstFacts
  <2> QED  BY <1>1, <1>4, <1>6, <2>1
<1>11. Slept'
  BY <1>7, <1>10 DEF Slept, thread
<1> QED  BY <1>9, <1>11

LEMMA PlanStep == PlanInv /\ [Next]_vars => PlanInv'
<1> SUFFICES ASSUME PlanInv, [Next]_vars PROVE Planned' /\ Slept'
  BY ClockStep DEF PlanInv
<1>1. CASE Wait
  BY <1>1, PlanWait
<1>2. CASE PutNumActivation
  <2>1. /\ pc = "put num" /\ pc' = "put abs" /\ mem'.num = mem.num + 1 /\ mem.num \in Nat
        /\ act' = act /\ tperiod' = tperiod /\ start' = start
    <3>1. SegmentTyped
      BY DEF PlanInv, ClockInv, TypeOK
    <3>2. mem.num \in Nat /\ mem' = [mem EXCEPT !.num = mem.num + 1]
      BY <1>2, <3>1 DEF PutNumActivation, SegmentTyped
    <3>3. mem'.num = mem.num + 1
      BY <3>1, <3>2 DEF SegmentTyped
    <3> QED  BY <1>2, <3>2, <3>3 DEF PutNumActivation, Goes, thread, history
  <2>2. (mem.num + 1) - 1 = mem.num
    <3>1. mem.num \in Nat
      BY <2>1
    <3> QED  BY <3>1
  <2>3. Planned'
    <3>1. Instant(act') = start' + (mem'.num - 1) * tperiod' * NsPerMs
      BY <2>1, <2>2 DEF PlanInv, Planned
    <3> QED  BY <2>1, <3>1 DEF Planned
  <2> QED  BY <2>1, <2>3 DEF Slept
<1>3. CASE \/ Ended \/ BeginRead \/ PutPeriod \/ PutPerthreadClk \/ PutAbsActivation \/ Compute
           \/ ComputeFails \/ End
  <2>1. act' = act /\ tperiod' = tperiod /\ start' = start /\ pc' # "check"
    BY <1>3 DEF Ended, BeginRead, PutPeriod, PutPerthreadClk, PutAbsActivation, Compute,
         ComputeFails, End, Goes, thread, history
  <2>2. mem'.num = mem.num
    BY <1>3, CostTaken DEF Ended, BeginRead, PutPeriod, PutPerthreadClk, PutAbsActivation, Compute,
         ComputeFails, End, PlanInv, ClockInv, TypeOK, SegmentTyped
  <2>3. /\ pc' \in {"put period", "put clk", "put num"} => pc \in {"check", "put period", "put clk"}
        /\ pc' \in {"put abs", "compute", "end", "wait"} => pc \in {"put abs", "compute", "end"}
    BY <1>3 DEF Ended, BeginRead, PutPeriod, PutPerthreadClk, PutAbsActivation, Compute,
         ComputeFails, End, Goes
  <2>4. Planned'
    BY <2>1, <2>2, <2>3 DEF PlanInv, Planned
  <2> QED  BY <2>1, <2>4 DEF Slept
<1>4. CASE \/ ReadWcet \/ Admit \/ Refuse \/ RefreshSingle \/ RefreshSys \/ RsvDestroy
           \/ UNCHANGED vars
  <2>1. client' = client
    BY <1>4 DEF ReadWcet, Admit, Refuse, RefreshSingle, Evaluated, RefreshSys, RsvDestroy, vars, client
  <2> QED  BY <2>1 DEF PlanInv, Planned, Slept, client, thread, clocks, history
<1> QED  BY <1>1, <1>2, <1>3, <1>4 DEF Next

(* Activations are planned at whole multiples of the period, however late   *)
(* they run; one that begins before its time is planned for a whole second. *)
THEOREM KeepsSchedule == Spec => []OnSchedule
<1>1. Init => PlanInv
  <2> SUFFICES ASSUME Init PROVE PlanInv
    OBVIOUS
  <2>1. ClockInv /\ now \in Nat /\ tperiod \in Nat
    BY ClockInit DEF ClockInv, TypeOK, ClocksTyped, ThreadTyped
  <2>2. Instant(act) = start /\ mem.num = 0 /\ pc = "check"
    BY <2>1, MsIsTaken DEF Init
  <2>3. start + 0 * tperiod * NsPerMs = start
    BY <2>1, UnitFacts DEF Init
  <2> QED  BY <2>1, <2>2, <2>3 DEF PlanInv, Planned, Slept
<1>2. PlanInv => OnSchedule
  BY DEF PlanInv, Planned, Slept, OnSchedule
<1> QED  BY <1>1, <1>2, PlanStep, PTL DEF Spec

----------------------------------------------------------------------------
(* THE EXECUTION TIME *)

(* No activation has ended yet.                                             *)
Fresh == mem.num = 0 \/ (mem.num = 1 /\ pc \in {"put abs", "compute", "end", "dead"})

Torn ==
    /\ Fresh => mem.wcet = EstWcet
    /\ dpc = "read period" /\ cfg.budget = 0 =>
          /\ Fresh => dw = EstWcet
          /\ dw <= mem.wcet \/ dw = EstWcet
TornInv == ClockInv /\ Torn

(* How a step of the thread moves its count, other than at the end of an    *)
(* activation.                                                              *)
LEMMA FreshKept ==
    ASSUME ClockInv,
           \/ Ended \/ BeginRead \/ PutPeriod \/ PutPerthreadClk \/ PutNumActivation
           \/ PutAbsActivation \/ Compute \/ ComputeFails \/ Wait
    PROVE  /\ Fresh' <=> Fresh
           /\ mem'.wcet = mem.wcet
           /\ UNCHANGED <<cfg, peak, dpc, dw, rsv, util, free, used>>
<1>1. SegmentTyped /\ mem.num \in Nat /\ Stamped
  BY DEF ClockInv, TypeOK, SegmentTyped, Clocked
<1>2. CASE PutNumActivation
  <2>1. mem' = [mem EXCEPT !.num = mem.num + 1] /\ pc = "put num" /\ pc' = "put abs"
    BY <1>2 DEF PutNumActivation, Goes
  <2>2. mem'.num = mem.num + 1 /\ mem'.wcet = mem.wcet
    BY <1>1, <2>1 DEF SegmentTyped
  <2>3. mem.num + 1 # 0 /\ (mem.num + 1 = 1 <=> mem.num = 0)
    BY <1>1
  <2> QED  BY <1>2, <2>1, <2>2, <2>3 DEF Fresh, PutNumActivation, thread, history, daemon, ledger
<1>3. CASE \/ Ended \/ BeginRead \/ PutPeriod \/ PutPerthreadClk \/ PutAbsActivation \/ Compute
           \/ ComputeFails \/ Wait
  <2>1. mem'.num = mem.num /\ mem'.wcet = mem.wcet
    BY <1>1, <1>3 DEF Ended, BeginRead, PutPeriod, PutPerthreadClk, PutAbsActivation, Compute,
         ComputeFails, Wait, SegmentTyped
  <2>2. pc \in {"put abs", "compute", "end", "dead"} <=> pc' \in {"put abs", "compute", "end", "dead"}
    BY <1>3 DEF Ended, BeginRead, PutPeriod, PutPerthreadClk, PutAbsActivation, Compute,
         ComputeFails, Wait, Goes
  <2>3. UNCHANGED <<cfg, peak, dpc, dw, rsv, util, free, used>>
    BY <1>3 DEF Ended, BeginRead, PutPeriod, PutPerthreadClk, PutAbsActivation, Compute,
         ComputeFails, Wait, thread, history, daemon, ledger
  <2> QED  BY <2>1, <2>2, <2>3 DEF Fresh
<1> QED  BY <1>2, <1>3

LEMMA EndNotFresh ==
    ASSUME ClockInv, End
    PROVE  /\ ~Fresh' /\ (Fresh <=> ~(mem.num > 1))
           /\ UNCHANGED <<cfg, dpc, dw, rsv, util, free, used>>
<1>1. pc = "end" /\ pc' = "wait" /\ mem.num > 0 /\ mem.num \in Nat /\ mem'.num = mem.num
  BY CostTaken DEF End, Goes, ClockInv, Clocked, Stamped, TypeOK, SegmentTyped
<1>2. mem.num # 0 /\ (mem.num = 1 <=> ~(mem.num > 1))
  BY <1>1
<1> QED  BY <1>1, <1>2 DEF Fresh, End, thread, daemon, ledger

LEMMA TornStep == TornInv /\ [Next]_vars => TornInv'
<1> SUFFICES ASSUME TornInv, [Next]_vars PROVE Torn'
  BY ClockStep DEF TornInv
<1>1. ClockInv /\ mem.wcet \in Nat /\ dw \in Nat /\ EstWcet \in Nat
  BY EstFacts DEF TornInv, ClockInv, TypeOK, SegmentTyped, DaemonTyped
<1>2. CASE \/ Ended \/ BeginRead \/ PutPeriod \/ PutPerthreadClk \/ PutNumActivation
           \/ PutAbsActivation \/ Compute \/ ComputeFails \/ Wait
  BY <1>1, <1>2, FreshKept DEF TornInv, Torn
<1>3. CASE End
  <2>1. ~Fresh' /\ (Fresh <=> ~(mem.num > 1)) /\ UNCHANGED <<cfg, dpc, dw>>
    BY <1>1, <1>3, EndNotFresh
  <2>2. CASE Fresh
    BY <2>1, <2>2 DEF TornInv, Torn
  <2>3. CASE ~Fresh
    <3>1. mem'.wcet >= mem.wcet /\ mem'.wcet \in Nat
      <4>1. PICK cost \in Nat : mem'.wcet = IF mem.num > 1 THEN Larger(mem.wcet, cost) ELSE cost
        BY <1>1, <1>3, CostTaken
      <4> QED  BY <1>1, <2>1, <2>3, <4>1 DEF Larger
    <3>2. dw <= mem.wcet => dw <= mem'.wcet
      BY <1>1, <3>1
    <3> QED  BY <2>1, <2>3, <3>2 DEF TornInv, Torn
  <2> QED  BY <2>2, <2>3
<1>4. CASE ReadWcet
  <2>1. mem' = mem /\ pc' = pc /\ cfg' = cfg /\ (cfg.budget = 0 => dw' = mem.wcet)
    BY <1>4 DEF ReadWcet, client, thread
  <2>2. mem.wcet <= mem.wcet
    BY <1>1
  <2> QED  BY <2>1, <2>2 DEF TornInv, Torn, Fresh
<1>5. CASE Admit \/ Refuse \/ RefreshSingle \/ RefreshSys \/ RsvDestroy \/ UNCHANGED vars
  <2>1. mem' = mem /\ pc' = pc /\ cfg' = cfg /\ dw' = dw /\ (dpc' = dpc \/ dpc' = "idle")
    BY <1>5 DEF Admit, Refuse, RefreshSingle, Evaluated, RefreshSys, RsvDestroy, client, vars,
         thread, daemon
  <2> QED  BY <2>1 DEF TornInv, Torn, Fresh
<1> QED  BY <1>2, <1>3, <1>4, <1>5 DEF Next

(* The daemon never pairs a period with an execution time above the one     *)
(* that belongs to it, the first activation apart.                          *)
THEOREM TornReads == Spec => []TornUnderstates
<1>1. Init => TornInv
  <2> SUFFICES ASSUME Init PROVE TornInv
    OBVIOUS
  <2>1. mem.wcet = EstWcet /\ dpc = "idle"
    BY DEF Init
  <2> QED  BY <2>1, ClockInit DEF TornInv, Torn
<1>2. TornInv => TornUnderstates
  BY DEF TornInv, Torn, TornUnderstates
<1> QED  BY <1>1, <1>2, TornStep, PTL DEF Spec

(* No activation took so much processor time that the 32 bits of its        *)
(* milliseconds lost a lap.                                                 *)
PeakFits == peak <= (Word - 1) * NsPerMs

(* w milliseconds are p units of processor time to the millisecond.         *)
Near(w, p) == w * NsPerMs < p + NsPerMs /\ w * NsPerMs > p - NsPerMs

Measured ==
    /\ Fresh => peak = 0
    /\ ~Fresh /\ PeakFits => Near(mem.wcet, peak)
WcetInv == ClockInv /\ Measured

(* Two readings of a clock in milliseconds differ by what has passed, to    *)
(* the millisecond.                                                         *)
LEMMA MsDifference ==
    ASSUME NEW a \in Nat, NEW b \in Nat, a <= b
    PROVE  Ms(b) - Ms(a) \in Nat /\ Near(Ms(b) - Ms(a), b - a)
<1> DEFINE n == NsPerMs
           x == a \div n
           y == b \div n
           r == a % n
           s == b % n
<1>1. n \in Nat /\ n > 0
  BY UnitFacts
<1>2. /\ x \in Int /\ y \in Int /\ r \in 0 .. n - 1 /\ s \in 0 .. n - 1
      /\ a = n * x + r /\ b = n * y + s
  BY <1>1, Division
<1>3. Ms(a) = x /\ Ms(b) = y /\ y - x \in Nat
  BY MsMonotone DEF Ms
<1> HIDE DEF n, x, y, r, s
<1>4. (y - x) * n = n * y - n * x
  BY <1>1, <1>2
<1>5. n * y - n * x = (b - a) - (s - r)
  BY <1>1, <1>2
<1>6. (y - x) * n < (b - a) + n /\ (y - x) * n > (b - a) - n
  BY <1>1, <1>2, <1>4, <1>5
<1> QED  BY <1>3, <1>6 DEF Near, n

LEMMA MsFits ==
    ASSUME NEW d \in Nat, NEW p \in Nat, Near(d, p), p <= (Word - 1) * NsPerMs
    PROVE  d < Word
<1>1. Word \in Nat \ {0} /\ NsPerMs \in Nat \ {0}
  BY UnitFacts
<1>2. d * NsPerMs < (Word - 1) * NsPerMs + NsPerMs
  <2>1. d * NsPerMs < p + NsPerMs /\ d * NsPerMs \in Int /\ (Word - 1) * NsPerMs \in Int
    BY <1>1 DEF Near
  <2> QED  BY <1>1, <2>1
<1>3. (Word - 1) * NsPerMs + NsPerMs = Word * NsPerMs
  BY <1>1
<1> SUFFICES ASSUME d >= Word PROVE FALSE
  BY <1>1
<1>4. d * NsPerMs >= Word * NsPerMs
  BY <1>1
<1>5. d * NsPerMs \in Int /\ Word * NsPerMs \in Int
  BY <1>1
<1> QED  BY <1>2, <1>3, <1>4, <1>5

(* The larger of two measures is near the larger of what they measure.      *)
LEMMA NearLarger ==
    ASSUME NEW v \in Nat, NEW w \in Nat, NEW p \in Nat, NEW q \in Nat, Near(v, p), Near(w, q)
    PROVE  Near(Larger(v, w), Larger(p, q))
<1> DEFINE a == v * NsPerMs
           b == w * NsPerMs
<1>1. NsPerMs \in Nat \ {0} /\ a \in Nat /\ b \in Nat
  BY UnitFacts
<1>2. v < w => a < b
  <2> SUFFICES ASSUME v < w PROVE a < b
    OBVIOUS
  <2>1. (w - v) * NsPerMs > 0 /\ (w - v) * NsPerMs = b - a
    BY <1>1
  <2> QED  BY <1>1, <2>1
<1>3. ~(v < w) => b <= a
  <2> SUFFICES ASSUME ~(v < w) PROVE b <= a
    OBVIOUS
  <2>1. (v - w) * NsPerMs >= 0 /\ (v - w) * NsPerMs = a - b
    BY <1>1
  <2> QED  BY <1>1, <2>1
<1>4. /\ a < p + NsPerMs /\ a > p - NsPerMs /\ b < q + NsPerMs /\ b > q - NsPerMs
  BY DEF Near
<1>5. Larger(v, w) * NsPerMs = IF v < w THEN b ELSE a
  BY DEF Larger
<1> HIDE DEF a, b
<1>6. CASE v < w
  BY <1>1, <1>2, <1>4, <1>5, <1>6 DEF Near, Larger
<1>7. CASE ~(v < w)
  BY <1>1, <1>3, <1>4, <1>5, <1>7 DEF Near, Larger
<1> QED  BY <1>6, <1>7

LEMMA WcetEnd ==
    ASSUME WcetInv, End
    PROVE  Measured'
<1>1. /\ ClockInv /\ cpu \in Nat /\ began \in Nat /\ began <= cpu /\ peak \in Nat /\ mem.wcet \in Nat
  BY DEF WcetInv, ClockInv, TypeOK, ClocksTyped, SegmentTyped, Clocked, Passed
<1>14. Ms(cpu) \in Nat /\ Ms(began) \in Nat
  BY <1>1, MsMonotone
<1>2. ~Fresh' /\ (Fresh <=> ~(mem.num > 1))
  BY <1>1, EndNotFresh
<1>3. PICK cost \in Nat :
        /\ cost = (TimespecToMs(Timespec(cpu)) - mem.clk) % Word
        /\ mem'.wcet = IF mem.num > 1 THEN Larger(mem.wcet, cost) ELSE cost
  BY <1>1, CostTaken
<1> DEFINE d == cpu - began
<1>4. d \in Nat /\ peak' = Larger(peak, d)
  BY <1>1 DEF End
<1> SUFFICES ASSUME PeakFits' PROVE Near(mem'.wcet, peak')
  BY <1>2 DEF Measured
<1>5. peak' <= (Word - 1) * NsPerMs
  BY DEF PeakFits
<1>6. (Word - 1) * NsPerMs \in Nat
  BY UnitFacts
<1> HIDE DEF d
<1>7. d <= (Word - 1) * NsPerMs /\ peak <= (Word - 1) * NsPerMs
  BY <1>1, <1>4, <1>5, <1>6 DEF Larger
<1>8. Ms(cpu) - Ms(began) \in Nat /\ Near(Ms(cpu) - Ms(began), d)
  BY <1>1, MsDifference DEF d
<1>9. Ms(cpu) - Ms(began) < Word
  BY <1>4, <1>7, <1>8, MsFits
<1>10. cost = Ms(cpu) - Ms(began)
  <2>1. mem.clk = Ms(began) % Word
    BY <1>1 DEF End, Goes, ClockInv, Clocked, Stamped, Low
  <2>2. TimespecToMs(Timespec(cpu)) = Ms(cpu) % Word
    BY <1>1, MsIsTaken
  <2>3. Ms(cpu) - Ms(began) \in 0 .. Word - 1
    BY <1>8, <1>9, UnitFacts
  <2>4. ((Ms(cpu) % Word) - (Ms(began) % Word)) % Word = Ms(cpu) - Ms(began)
    BY <1>14, <2>3, UnitFacts, DifferenceWraps
  <2> QED  BY <1>3, <2>1, <2>2, <2>4
<1>11. CASE mem.num > 1
  <2>1. Near(mem.wcet, peak)
    BY <1>2, <1>7, <1>11 DEF WcetInv, Measured, PeakFits
  <2> QED  BY <1>1, <1>3, <1>4, <1>8, <1>10, <1>11, <2>1, NearLarger
<1>12. CASE ~(mem.num > 1)
  <2>1. peak = 0
    BY <1>2, <1>12 DEF WcetInv, Measured
  <2>2. peak' = d
    BY <1>4, <2>1 DEF Larger
  <2> QED  BY <1>3, <1>8, <1>10, <1>12, <2>2
<1> QED  BY <1>11, <1>12

LEMMA WcetStep == WcetInv /\ [Next]_vars => WcetInv'
<1> SUFFICES ASSUME WcetInv, [Next]_vars PROVE Measured'
  BY ClockStep DEF WcetInv
<1>1. CASE \/ Ended \/ BeginRead \/ PutPeriod \/ PutPerthreadClk \/ PutNumActivation
           \/ PutAbsActivation \/ Compute \/ ComputeFails \/ Wait
  <2>1. (Fresh' <=> Fresh) /\ mem'.wcet = mem.wcet /\ peak' = peak
    BY <1>1, FreshKept DEF WcetInv
  <2> QED  BY <2>1 DEF WcetInv, Measured, PeakFits
<1>2. CASE \/ ReadWcet \/ Admit \/ Refuse \/ RefreshSingle \/ RefreshSys \/ RsvDestroy
           \/ UNCHANGED vars
  <2>1. mem' = mem /\ pc' = pc /\ peak' = peak
    BY <1>2 DEF ReadWcet, Admit, Refuse, RefreshSingle, Evaluated, RefreshSys, RsvDestroy, vars,
         client, history
  <2> QED  BY <2>1 DEF WcetInv, Measured, PeakFits, Fresh
<1> QED  BY <1>1, <1>2, WcetEnd DEF Next

(* As long as no activation takes a whole lap of the 32 bits (49 days), the *)
(* estimate is the costliest activation to the millisecond.                 *)
THEOREM WcetMeasured == Spec => [](PeakFits => WcetWithinOne)
<1>1. Init => WcetInv
  BY ClockInit DEF Init, WcetInv, Measured, Fresh
<1>2. WcetInv => (PeakFits => WcetWithinOne)
  <2> SUFFICES ASSUME WcetInv, PeakFits, pc \in {"wait", "check", "done"}, mem.num > 0
               PROVE  Near(mem.wcet, peak)
    BY DEF WcetWithinOne, Near
  <2>1. mem.num \in Nat
    BY DEF WcetInv, ClockInv, TypeOK, SegmentTyped
  <2>2. mem.num # 0
    BY <2>1
  <2>3. pc \notin {"put abs", "compute", "end", "dead"}
    OBVIOUS
  <2> QED  BY <2>2, <2>3 DEF WcetInv, Measured, Fresh
<1> QED  BY <1>1, <1>2, WcetStep, PTL DEF Spec

----------------------------------------------------------------------------
(* THE LEDGER *)

(* No gap between activations fills the 32 bits; no two activations began   *)
(* within a millisecond.                                                    *)
GapsFit == \A k \in DOMAIN gaps : gaps[k] < Word
GapsSeen == \A k \in DOMAIN gaps : gaps[k] # 0

Sums == Finite(util) /\ Finite(free) /\ Finite(used)
SoundLedger ==
    /\ GapsFit /\ GapsSeen => mem.period >= 1
    /\ cfg.period # 0 \/ (GapsFit /\ GapsSeen) => Sums
LedgerInv == ClockInv /\ SoundLedger

LEMMA FloatFacts ==
    /\ \A n : Finite(Fin(n))
    /\ \A w, p \in Nat : p # 0 => Finite(Quotient(w, p))
    /\ \A a : Finite(a) => Finite(Minus(a))
    /\ \A a, b : Finite(a) /\ Finite(b) => Finite(Plus(a, b))
<1>1. \A n : Finite(Fin(n))
  BY DEF Finite, Fin
<1>2. \A w, p \in Nat : p # 0 => Quotient(w, p) = Fin((w * Scale) \div p)
  <2> SUFFICES ASSUME NEW w \in Nat, NEW p \in Nat, p # 0
               PROVE  Quotient(w, p) = Fin((w * Scale) \div p)
    OBVIOUS
  <2> DEFINE f == Fin((w * Scale) \div p)
  <2>1. Quotient(w, p) = IF p # 0 THEN f ELSE IF w = 0 THEN NaN ELSE Inf
    BY Zenon DEF Quotient
  <2> HIDE DEF f
  <2>2. Quotient(w, p) = f
    BY <2>1
  <2> QED  BY <2>2 DEF f
<1>3. \A a : Finite(a) => Finite(Minus(a))
  <2> SUFFICES ASSUME NEW a, Finite(a) PROVE Finite(Minus(a))
    OBVIOUS
  <2> DEFINE f == Fin(-a.val)
  <2>1. Minus(a) = CASE Finite(a) -> f [] a = Inf -> MinusInf [] a = MinusInf -> Inf [] OTHER -> NaN
    BY Zenon DEF Minus
  <2>2. Finite(f) /\ a # Inf /\ a # MinusInf
    BY <1>1 DEF Finite, Inf, MinusInf
  <2> HIDE DEF f
  <2> QED  BY <2>1, <2>2
<1>4. \A a, b : Finite(a) /\ Finite(b) => Plus(a, b) = Fin(a.val + b.val)
  BY DEF Plus
<1> QED  BY <1>1, <1>2, <1>3, <1>4

(* The history only grows.                                                  *)
LEMMA GapsGrow ==
    ASSUME ClockInv, PutPeriod
    PROVE  /\ GapsFit' => GapsFit /\ Ms(now) - last < Word
           /\ GapsSeen' => GapsSeen /\ Ms(now) - last # 0
<1>1. gaps \in Seq(Nat) /\ Ms(now) - last \in Nat
  BY GapTaken DEF ClockInv, TypeOK, ClocksTyped
<1> DEFINE g == Ms(now) - last
           q == Append(gaps, g)
<1>2. gaps' = q
  BY DEF PutPeriod
<1> HIDE DEF g
<1>3. /\ DOMAIN gaps = 1 .. Len(gaps) /\ DOMAIN q = 1 .. Len(gaps) + 1 /\ Len(gaps) \in Nat
      /\ q[Len(gaps) + 1] = g /\ \A k \in 1 .. Len(gaps) : q[k] = gaps[k]
  BY <1>1 DEF g
<1> HIDE DEF q
<1>4. /\ Len(gaps) + 1 \in DOMAIN q /\ DOMAIN gaps \subseteq DOMAIN q
  BY <1>3
<1> QED  BY <1>2, <1>3, <1>4 DEF GapsFit, GapsSeen, g

LEMMA LedgerPeriod ==
    ASSUME LedgerInv, PutPeriod
    PROVE  SoundLedger'
<1>1. ClockInv /\ cfg' = cfg /\ UNCHANGED <<util, free, used>>
  BY DEF LedgerInv, PutPeriod, thread, daemon, ledger
<1>2. ASSUME GapsFit', GapsSeen'
      PROVE  mem'.period >= 1
  <2> DEFINE g == (curr - mem.abs) % Word
  <2>1. GapsFit /\ GapsSeen /\ Ms(now) - last < Word /\ Ms(now) - last # 0
    BY <1>1, <1>2, GapsGrow
  <2>2. g = Ms(now) - last /\ Ms(now) - last \in Nat
    BY <1>1, <2>1, GapTaken
  <2>3. mem.period >= 1 /\ mem.period \in Nat
    BY <2>1 DEF LedgerInv, SoundLedger, ClockInv, TypeOK, SegmentTyped
  <2>4. mem'.period = (g + mem.period) \div 2
    BY <1>1, GapTaken
  <2>5. g \in Nat /\ g >= 1
    BY <2>1, <2>2
  <2> HIDE DEF g
  <2> QED  BY <2>3, <2>4, <2>5
<1>3. ASSUME cfg'.period # 0 \/ (GapsFit' /\ GapsSeen')
      PROVE  Sums'
  BY <1>1, <1>3, GapsGrow DEF LedgerInv, SoundLedger, Sums
<1> QED  BY <1>2, <1>3 DEF SoundLedger

LEMMA LedgerStep == LedgerInv /\ [Next]_vars => LedgerInv'
<1> SUFFICES ASSUME LedgerInv, [Next]_vars PROVE SoundLedger'
  BY ClockStep DEF LedgerInv
<1>1. SegmentTyped /\ SoundLedger /\ mem.period \in Nat /\ cfg.period \in Nat /\ dw \in Nat
  BY DEF LedgerInv, ClockInv, TypeOK, ThreadTyped, SegmentTyped, DaemonTyped
<1>2. CASE \/ Ended \/ BeginRead \/ PutPerthreadClk \/ PutNumActivation
           \/ PutAbsActivation \/ Compute \/ ComputeFails \/ Wait \/ End
  <2>1. mem'.period = mem.period
    BY <1>1, <1>2, CostTaken DEF LedgerInv, Ended, BeginRead, PutPerthreadClk, PutNumActivation,
         PutAbsActivation, Compute, ComputeFails, Wait, SegmentTyped
  <2>2. UNCHANGED <<cfg, gaps, util, free, used>>
    BY <1>2 DEF Ended, BeginRead, PutPerthreadClk, PutNumActivation, PutAbsActivation, Compute,
         ComputeFails, Wait, End, thread, history, daemon, ledger
  <2> QED  BY <1>1, <2>1, <2>2 DEF SoundLedger, GapsFit, GapsSeen, Sums
<1>3. CASE PutPeriod
  BY <1>3, LedgerPeriod
<1>4. CASE \/ ReadWcet \/ Admit \/ Refuse \/ RefreshSingle \/ RefreshSys \/ RsvDestroy
           \/ UNCHANGED vars
  <2>1. UNCHANGED <<mem, cfg, gaps>>
    BY <1>4 DEF ReadWcet, Admit, Refuse, RefreshSingle, Evaluated, RefreshSys, RsvDestroy, vars,
         client, thread, history
  <2> SUFFICES ASSUME cfg.period # 0 \/ (GapsFit /\ GapsSeen) PROVE Sums'
    BY <1>1, <2>1 DEF SoundLedger, GapsFit, GapsSeen
  <2>2. Sums
    BY <1>1 DEF SoundLedger
  <2>3. Finite(NewUtil)
    <3> DEFINE p == IF cfg.period # 0 THEN cfg.period ELSE mem.period
    <3>1. p # 0 /\ p \in Nat
      BY <1>1 DEF SoundLedger
    <3>2. NewUtil = Quotient(dw, p)
      BY DEF NewUtil
    <3> HIDE DEF p
    <3> QED  BY <1>1, <3>1, <3>2, FloatFacts
  <2>4. CASE ReadWcet \/ Refuse \/ UNCHANGED vars
    BY <2>2, <2>4 DEF Sums, ReadWcet, Refuse, vars, daemon, ledger
  <2>5. CASE Admit \/ RefreshSingle \/ RefreshSys \/ RsvDestroy
    BY <2>2, <2>3, <2>5, FloatFacts DEF Sums, Admit, RefreshSingle, RefreshSys, RsvDestroy
  <2> QED  BY <1>4, <2>4, <2>5
<1> QED  BY <1>2, <1>3, <1>4 DEF Next

(* As long as no two activations lie a whole lap of the 32 bits apart (49   *)
(* days), only activations within one millisecond, and no declared period,  *)
(* turn a ledger infinite.                                                  *)
THEOREM StaysFinite == Spec => [](GapsFit => LedgerFinite)
<1>1. Init => LedgerInv
  <2> SUFFICES ASSUME Init PROVE LedgerInv
    OBVIOUS
  <2>1. mem.period = EstPeriod /\ EstPeriod \in Nat /\ EstPeriod # 0
    BY EstFacts DEF Init
  <2>2. mem.period >= 1
    BY <2>1
  <2>3. Sums
    BY FloatFacts DEF Init, Sums
  <2> QED  BY <2>2, <2>3, ClockInit DEF LedgerInv, SoundLedger
<1>2. LedgerInv => (GapsFit => LedgerFinite)
  BY DEF LedgerInv, SoundLedger, Sums, LedgerFinite, GapsSeen
<1> QED  BY <1>1, <1>2, LedgerStep, PTL DEF Spec

----------------------------------------------------------------------------
(* THE ATTRIBUTES OF EDF *)

(* A reservation that declares budget and period is counted as declared.    *)
Declares ==
    /\ dpc = "read period" /\ cfg.budget # 0 => dw = cfg.budget
    /\ rsv /\ cfg.budget # 0 /\ cfg.period # 0 => util = Quotient(cfg.budget, cfg.period)

LEMMA DeclaresStep == Declares /\ [Next]_vars => Declares'
<1> SUFFICES ASSUME Declares, [Next]_vars PROVE Declares'
  OBVIOUS
<1>1. cfg' = cfg
  BY DEF Next, Ended, BeginRead, PutPeriod, PutPerthreadClk, PutNumActivation, PutAbsActivation,
       Compute, ComputeFails, End, Wait, ReadWcet, Admit, Refuse, RefreshSingle, Evaluated,
       RefreshSys, RsvDestroy, vars, client, thread
<1>2. CASE \/ Ended \/ BeginRead \/ PutPeriod \/ PutPerthreadClk \/ PutNumActivation
           \/ PutAbsActivation \/ Compute \/ ComputeFails \/ End \/ Wait \/ UNCHANGED vars
  <2>1. daemon' = daemon
    BY <1>2 DEF Ended, BeginRead, PutPeriod, PutPerthreadClk, PutNumActivation, PutAbsActivation,
         Compute, ComputeFails, End, Wait, vars
  <2>2. UNCHANGED <<dpc, dw, rsv, util>>
    BY <2>1 DEF daemon, ledger
  <2> QED  BY <1>1, <2>2, Zenon DEF Declares
<1>3. CASE ReadWcet
  BY <1>1, <1>3 DEF Declares, ReadWcet, ledger
<1>4. CASE Admit \/ RefreshSingle
  <2>1. dpc = "read period" /\ dpc' = "idle" /\ dw' = dw /\ util' = NewUtil
    BY <1>4 DEF Admit, RefreshSingle, Evaluated
  <2> QED  BY <1>1, <2>1 DEF Declares, NewUtil
<1>5. CASE Refuse
  <2>1. dpc' = "idle" /\ dpc' # "read period" /\ UNCHANGED <<dw, rsv, util>>
    BY <1>5 DEF Refuse, Evaluated, ledger
  <2> QED  BY <1>1, <2>1, Zenon DEF Declares
<1>6. CASE RefreshSys \/ RsvDestroy
  <2>1. CASE RefreshSys
    <3>1. UNCHANGED <<dpc, dw, rsv, util>>
      BY <2>1 DEF RefreshSys
    <3> QED  BY <1>1, <3>1, Zenon DEF Declares
  <2>2. CASE RsvDestroy
    <3>1. ~rsv' /\ dpc' = dpc /\ dw' = dw
      BY <2>2 DEF RsvDestroy
    <3> QED  BY <1>1, <3>1, Zenon DEF Declares
  <2> QED  BY <1>6, <2>1, <2>2
<1> QED  BY <1>2, <1>3, <1>4, <1>5, <1>6 DEF Next

(* A fraction keeps its quotient when both its parts are multiplied.        *)
LEMMA Expanded ==
    ASSUME NEW b \in Nat, NEW p \in Nat \ {0}, NEW k \in Nat \ {0}
    PROVE  Quotient(b * k, p * k) = Quotient(b, p)
<1> DEFINE n == b * Scale
           q == n \div p
           r == n % p
<1>1. Scale \in Nat /\ n \in Int /\ p * k \in Nat \ {0}
  <2>1. Scale \in Nat
    BY EstFacts
  <2>2. p * k >= p /\ p * k \in Nat
    OBVIOUS
  <2> QED  BY <2>1, <2>2
<1>2. q \in Int /\ r \in 0 .. p - 1 /\ n = p * q + r
  BY <1>1, Division
<1>3. (b * k) * Scale = n * k
  BY <1>1
<1> HIDE DEF n, q, r
<1>4. n * k = (p * k) * q + r * k
  <2>1. n * k = (p * q) * k + r * k
    BY <1>2
  <2>2. (p * q) * k = (p * k) * q
    BY <1>2
  <2> QED  BY <2>1, <2>2
<1>5. r * k \in 0 .. (p * k) - 1
  <2>1. r * k \in Nat /\ (p - r) * k >= k /\ (p - r) * k = p * k - r * k
    BY <1>2
  <2>2. p * k \in Int
    BY <1>1
  <2> QED  BY <2>1, <2>2
<1>6. (n * k) \div (p * k) = q
  <2>1. n * k \in Int
    BY <1>1
  <2> QED  BY <1>1, <1>2, <1>4, <1>5, <2>1, DivisionUnique
<1> QED  BY <1>1, <1>3, <1>6 DEF Quotient, n, q

LEMMA Unwrapped ==
    ASSUME NEW ms \in Nat, ms * NsPerMs < Word
    PROVE  MilliToNano(ms) = ms * NsPerMs
<1>1. ms * NsPerMs \in Nat /\ Word \in Nat \ {0}
  BY UnitFacts
<1>2. (ms * NsPerMs) % Word = ms * NsPerMs
  <2> DEFINE n == ms * NsPerMs
  <2>1. n \in Nat /\ n < Word /\ Word \in Nat \ {0}
    BY <1>1
  <2> HIDE DEF n
  <2>2. n \in 0 .. Word - 1 /\ n = Word * 0 + n
    BY <2>1
  <2>3. n % Word = n
    BY <2>1, <2>2, DivisionUnique
  <2> QED  BY <2>3 DEF n
<1> QED  BY <1>2 DEF MilliToNano

(* The kernel takes what EDF passes it and reserves what the ledger counts, *)
(* for every declaration that is in order and below the wrap.               *)
THEOREM KernelAgrees == Spec => []EdfAttrHonest
<1>1. Init => ClockInv /\ Declares
  BY ClockInit DEF Init, Declares
<1>2. ClockInv /\ Declares => EdfAttrHonest
  <2> DEFINE b == cfg.budget
             d == cfg.deadline
             p == cfg.period
             a == SchedAttr(b, d, p)
  <2> SUFFICES ASSUME ClockInv, Declares, rsv, b # 0, b <= d, d <= p, p * NsPerMs < Word
               PROVE  KernelAccepts(a) /\ Quotient(a.runtime, a.period) = util
    BY DEF EdfAttrHonest
  <2>1. b \in Nat /\ d \in Nat /\ p \in Nat /\ NsPerMs \in Nat \ {0}
    BY UnitFacts DEF ClockInv, TypeOK, ThreadTyped
  <2>2. util = Quotient(b, p) /\ p # 0
    <3>1. p # 0
      BY <2>1
    <3> QED  BY <3>1 DEF Declares
  <2> HIDE DEF b, d, p
  <2>3. /\ b * NsPerMs <= d * NsPerMs /\ d * NsPerMs <= p * NsPerMs /\ 0 < b * NsPerMs
        /\ b * NsPerMs \in Nat /\ d * NsPerMs \in Nat /\ p * NsPerMs \in Nat
    <3>1. (d - b) * NsPerMs >= 0 /\ (d - b) * NsPerMs = d * NsPerMs - b * NsPerMs
      BY <2>1
    <3>2. (p - d) * NsPerMs >= 0 /\ (p - d) * NsPerMs = p * NsPerMs - d * NsPerMs
      BY <2>1
    <3>3. b * NsPerMs > 0
      BY <2>1
    <3>4. b * NsPerMs \in Nat /\ d * NsPerMs \in Nat /\ p * NsPerMs \in Nat
      BY <2>1
    <3> QED  BY <3>1, <3>2, <3>3, <3>4
  <2>4. b * NsPerMs < Word /\ d * NsPerMs < Word
    BY <2>3, UnitFacts
  <2>5. a = [runtime |-> b * NsPerMs, deadline |-> d * NsPerMs, period |-> p * NsPerMs]
    BY <2>1, <2>4, Unwrapped DEF SchedAttr
  <2>6. KernelAccepts(a)
    BY <2>3, <2>5 DEF KernelAccepts
  <2>7. Quotient(b * NsPerMs, p * NsPerMs) = Quotient(b, p)
    BY <2>1, <2>2, Expanded
  <2> QED  BY <2>2, <2>5, <2>6, <2>7
<1> QED  BY <1>1, <1>2, ClockStep, DeclaresStep, PTL DEF Spec

----------------------------------------------------------------------------
(* THE PERIOD ESTIMATE *)

(* Induction over a set of numbers, by a least counterexample.              *)
LEMMA NumberInduction ==
    ASSUME NEW S, 0 \in S, \A n \in Nat : n \in S => n + 1 \in S
    PROVE  \A n \in Nat : n \in S
<1> DEFINE T == {n \in Nat : n \notin S}
           R == OpToRel(<, Nat)
<1> SUFFICES ASSUME T # {} PROVE FALSE
  OBVIOUS
<1>1. PICK x \in T : \A y \in T : <<y, x>> \notin R
  <2>1. T \in SUBSET Nat
    OBVIOUS
  <2> HIDE DEF T, R
  <2> QED  BY <2>1, NatLessThanWellFounded, WFMin DEF R
<1>2. \A y \in T : x <= y
  <2>1. \A y \in Nat : <<y, x>> \notin R => x <= y
    BY <1>1 DEF OpToRel
  <2> QED  BY <1>1, <2>1
<1> HIDE DEF R
<1>3. x # 0 /\ x - 1 \in Nat /\ (x - 1) + 1 = x
  BY <1>1
<1>4. x - 1 \in S
  BY <1>2, <1>3
<1>5. x \in S
  BY <1>3, <1>4
<1> QED  BY <1>1, <1>5

(* The equations of Halved have a solution, so that Halved is one.          *)
LEMMA HalvedExists ==
    ASSUME NEW e \in Int
    PROVE  \E f \in [Nat -> Int] : f = [n \in Nat |-> IF n = 0 THEN e ELSE f[n - 1] \div 2]
<1> DEFINE Good(f, m) == f[0] = e /\ \A n \in 1 .. m : f[n] = f[n - 1] \div 2
           S == {m \in Nat : \E f \in [Nat -> Int] : Good(f, m)}
<1>1. 0 \in S
  <2>1. [n \in Nat |-> e] \in [Nat -> Int] /\ Good([n \in Nat |-> e], 0)
    OBVIOUS
  <2> QED  BY <2>1
<1>2. ASSUME NEW m \in Nat, m \in S PROVE m + 1 \in S
  <2>1. PICK f \in [Nat -> Int] : Good(f, m)
    BY <1>2
  <2> DEFINE x == f[m] \div 2
             g == [f EXCEPT ![m + 1] = x]
  <2>2. x \in Int
    <3>1. f[m] \in Int
      BY <2>1
    <3> QED  BY <3>1
  <2>3. g \in [Nat -> Int] /\ g[m + 1] = x /\ \A n \in 0 .. m : g[n] = f[n]
    <3> HIDE DEF x
    <3> QED  BY <2>1, <2>2
  <2> HIDE DEF g
  <2>4. ASSUME NEW n \in 1 .. m + 1 PROVE g[n] = g[n - 1] \div 2
    <3>1. CASE n = m + 1
      BY <2>3, <3>1
    <3>2. CASE n # m + 1
      <4>1. n \in 1 .. m /\ n \in 0 .. m /\ n - 1 \in 0 .. m
        BY <3>2
      <4> QED  BY <2>1, <2>3, <4>1
    <3> QED  BY <3>1, <3>2
  <2>5. Good(g, m + 1)
    BY <2>1, <2>3, <2>4
  <2> HIDE DEF Good
  <2> QED  BY <2>3, <2>5
<1>3. \A m \in Nat : \E f \in [Nat -> Int] : Good(f, m)
  <2> HIDE DEF S
  <2>1. \A m \in Nat : m \in S
    BY <1>1, <1>2, NumberInduction
  <2> QED  BY <2>1 DEF S
<1> DEFINE F(m) == CHOOSE f \in [Nat -> Int] : Good(f, m)
           h == [m \in Nat |-> F(m)[m]]
<1>4. \A m \in Nat : F(m) \in [Nat -> Int] /\ Good(F(m), m)
  <2> HIDE DEF Good
  <2> QED  BY <1>3
<1>5. \A m, j \in Nat : m <= j => F(j)[m] = F(m)[m]
  <2> DEFINE U == {m \in Nat : \A j \in Nat : m <= j => F(j)[m] = F(m)[m]}
  <2> HIDE DEF F
  <2>1. 0 \in U
    BY <1>4
  <2>2. ASSUME NEW m \in Nat, m \in U PROVE m + 1 \in U
    <3> SUFFICES ASSUME NEW j \in Nat, m + 1 <= j PROVE F(j)[m + 1] = F(m + 1)[m + 1]
      OBVIOUS
    <3>1. F(j)[m] = F(m)[m] /\ F(m + 1)[m] = F(m)[m]
      BY <2>2
    <3>2. m + 1 \in 1 .. j /\ m + 1 \in 1 .. (m + 1) /\ (m + 1) - 1 = m
      OBVIOUS
    <3>3. F(j)[m + 1] = F(j)[m] \div 2
      BY <1>4, <3>2
    <3>4. F(m + 1)[m + 1] = F(m + 1)[m] \div 2
      BY <1>4, <3>2
    <3> QED  BY <3>1, <3>3, <3>4
  <2>3. \A m \in Nat : m \in U
    <3> HIDE DEF U
    <3> QED  BY <2>1, <2>2, NumberInduction
  <2> QED  BY <2>3
<1>6. h \in [Nat -> Int]
  <2> HIDE DEF F
  <2> QED  BY <1>4
<1>7. ASSUME NEW n \in Nat PROVE h[n] = IF n = 0 THEN e ELSE h[n - 1] \div 2
  <2> HIDE DEF F
  <2>1. CASE n = 0
    BY <1>4, <2>1
  <2>2. CASE n # 0
    <3>1. n - 1 \in Nat /\ n - 1 <= n /\ n \in 1 .. n
      BY <2>2
    <3>2. F(n)[n] = F(n)[n - 1] \div 2
      BY <1>4, <3>1
    <3>3. F(n)[n - 1] = h[n - 1]
      BY <1>5, <3>1
    <3> QED  BY <2>2, <3>2, <3>3
  <2> QED  BY <2>1, <2>2
<1> HIDE DEF h
<1>8. h = [n \in Nat |-> IF n = 0 THEN e ELSE h[n - 1] \div 2]
  BY <1>6, <1>7
<1> QED  BY <1>6, <1>8

(* Halving once more halves the result, and the result is a number.         *)
LEMMA HalvedFacts ==
    ASSUME NEW e \in Int
    PROVE  /\ Halved(e, 0) = e
           /\ \A n \in Nat : Halved(e, n) \in Int /\ Halved(e, n + 1) = Halved(e, n) \div 2
<1> DEFINE H == CHOOSE f : f = [n \in Nat |-> IF n = 0 THEN e ELSE f[n - 1] \div 2]
<1>1. \A n : Halved(e, n) = H[n]
  BY DEF Halved
<1>2. \E f \in [Nat -> Int] : f = [n \in Nat |-> IF n = 0 THEN e ELSE f[n - 1] \div 2]
  BY HalvedExists
<1>3. H = [n \in Nat |-> IF n = 0 THEN e ELSE H[n - 1] \div 2]
  BY <1>2
<1> HIDE DEF H
<1>4. H[0] = e /\ \A n \in Nat : H[n + 1] = H[n] \div 2
  BY <1>3
<1>5. \A n \in Nat : H[n] \in Int
  <2> DEFINE S == {n \in Nat : H[n] \in Int}
  <2>1. 0 \in S /\ \A n \in Nat : n \in S => n + 1 \in S
    BY <1>4
  <2> HIDE DEF S
  <2>2. \A n \in Nat : n \in S
    BY <2>1, NumberInduction
  <2> QED  BY <2>2 DEF S
<1> QED  BY <1>1, <1>4, <1>5

(* Whatever is at least, or at most, as long as every gap so far bounds the *)
(* estimate, but for the distance of the first estimate, halved by each;    *)
(* and one gap is the longest, another the shortest.                        *)
Bounded ==
    /\ \A x \in Nat : (\A k \in DOMAIN gaps : gaps[k] <= x) =>
          mem.period <= x + Halved(Positive(EstPeriod - x), Len(gaps))
    /\ \A x \in Nat : (\A k \in DOMAIN gaps : x <= gaps[k]) =>
          mem.period >= x + Halved(-Positive(x - EstPeriod), Len(gaps))
Extremes ==
    gaps # <<>> => \E i, j \in DOMAIN gaps : \A k \in DOMAIN gaps : gaps[i] <= gaps[k] /\ gaps[k] <= gaps[j]
PeriodInv == ClockInv /\ (GapsFit => Bounded /\ Extremes)

LEMMA PositiveInt ==
    ASSUME NEW a \in Int
    PROVE  Positive(a) \in Nat /\ Positive(a) >= a /\ (a <= 0 => Positive(a) = 0)
           /\ (a >= 0 => Positive(a) = a)
BY DEF Positive, Larger

(* The mean of two numbers that are within bounds.                          *)
LEMMA MeanWithin ==
    ASSUME NEW g \in Nat, NEW p \in Nat, NEW x \in Nat, NEW h \in Int
    PROVE  /\ g <= x /\ p <= x + h => (g + p) \div 2 <= x + (h \div 2)
           /\ g >= x /\ p >= x + h => (g + p) \div 2 >= x + (h \div 2)
OBVIOUS

(* One more gap: what bounds them all bounded the ones before.              *)
LEMMA PeriodGap ==
    ASSUME PeriodInv, PutPeriod, GapsFit'
    PROVE  Bounded' /\ Extremes'
<1> DEFINE g == Ms(now) - last
           n == Len(gaps)
           q == Append(gaps, g)
<1>1. ClockInv /\ GapsFit /\ g < Word /\ g \in Nat
  BY GapTaken, GapsGrow DEF PeriodInv
<1>2. mem'.period = (g + mem.period) \div 2 /\ mem.period \in Nat
  <2>1. (curr - mem.abs) % Word = g
    BY <1>1, GapTaken
  <2>2. mem.period \in Nat
    BY <1>1 DEF ClockInv, TypeOK, SegmentTyped
  <2>3. mem'.period = (((curr - mem.abs) % Word) + mem.period) \div 2
    BY <1>1, GapTaken
  <2> QED  BY <2>1, <2>2, <2>3
<1>3. gaps \in Seq(Nat) /\ gaps' = q /\ Bounded /\ Extremes
  BY <1>1 DEF ClockInv, TypeOK, ClocksTyped, PutPeriod, PeriodInv
<1> HIDE DEF g
<1>4. /\ n \in Nat /\ DOMAIN gaps = 1 .. n /\ DOMAIN q = 1 .. n + 1 /\ Len(q) = n + 1
      /\ q[n + 1] = g /\ \A k \in 1 .. n : q[k] = gaps[k] /\ gaps[k] \in Nat
  BY <1>1, <1>3
<1> HIDE DEF q, n
<1>5. ASSUME NEW x \in Nat, \A k \in DOMAIN q : q[k] <= x
      PROVE  mem'.period <= x + Halved(Positive(EstPeriod - x), n + 1)
  <2> DEFINE e == Positive(EstPeriod - x)
             h == Halved(e, n)
  <2>1. g <= x /\ \A k \in DOMAIN gaps : gaps[k] <= x
    BY <1>4, <1>5
  <2>2. e \in Int
    BY PositiveInt, EstFacts
  <2> HIDE DEF e
  <2>3. h \in Int /\ Halved(e, n + 1) = h \div 2
    BY <1>4, <2>2, HalvedFacts
  <2>4. mem.period <= x + h
    BY <1>3, <2>1 DEF Bounded, e, n
  <2> HIDE DEF h
  <2>5. (g + mem.period) \div 2 <= x + (h \div 2)
    BY <1>1, <1>2, <2>1, <2>3, <2>4, MeanWithin
  <2> QED  BY <1>2, <2>3, <2>5 DEF e
<1>6. ASSUME NEW x \in Nat, \A k \in DOMAIN q : x <= q[k]
      PROVE  mem'.period >= x + Halved(-Positive(x - EstPeriod), n + 1)
  <2> DEFINE e == -Positive(x - EstPeriod)
             h == Halved(e, n)
  <2>1. g >= x /\ \A k \in DOMAIN gaps : x <= gaps[k]
    BY <1>1, <1>4, <1>6
  <2>2. e \in Int
    BY PositiveInt, EstFacts
  <2> HIDE DEF e
  <2>3. h \in Int /\ Halved(e, n + 1) = h \div 2
    BY <1>4, <2>2, HalvedFacts
  <2>4. mem.period >= x + h
    BY <1>3, <2>1 DEF Bounded, e, n
  <2> HIDE DEF h
  <2>5. (g + mem.period) \div 2 >= x + (h \div 2)
    BY <1>1, <1>2, <2>1, <2>3, <2>4, MeanWithin
  <2> QED  BY <1>2, <2>3, <2>5 DEF e
<1>7. \E i, j \in DOMAIN q : \A k \in DOMAIN q : q[i] <= q[k] /\ q[k] <= q[j]
  <2>1. CASE n = 0
    <3>1. DOMAIN q = {1} /\ q[1] = g
      BY <1>4, <2>1
    <3> QED  BY <1>1, <3>1
  <2>2. CASE n # 0
    <3>1. gaps # <<>>
      BY <2>2 DEF n
    <3>2. PICK i \in 1 .. n, j \in 1 .. n : \A k \in 1 .. n : gaps[i] <= gaps[k] /\ gaps[k] <= gaps[j]
      BY <1>3, <1>4, <3>1 DEF Extremes
    <3> DEFINE a == IF g < gaps[i] THEN n + 1 ELSE i
               b == IF gaps[j] < g THEN n + 1 ELSE j
    <3>3. a \in DOMAIN q /\ q[a] <= g /\ q[a] <= gaps[i]
      BY <1>1, <1>4, <3>2
    <3>4. b \in DOMAIN q /\ g <= q[b] /\ gaps[j] <= q[b]
      BY <1>1, <1>4, <3>2
    <3>5. q[a] \in Nat /\ q[b] \in Nat
      BY <1>1, <1>4, <3>3, <3>4
    <3> HIDE DEF a, b
    <3>6. ASSUME NEW k \in DOMAIN q PROVE q[a] <= q[k] /\ q[k] <= q[b]
      <4>1. CASE k = n + 1
        BY <1>4, <3>3, <3>4, <4>1
      <4>2. CASE k \in 1 .. n
        BY <1>4, <3>2, <3>3, <3>4, <3>5, <4>2
      <4> QED  BY <1>4, <4>1, <4>2
    <3> QED  BY <3>3, <3>4, <3>6
  <2> QED  BY <2>1, <2>2
<1>8. Bounded'
  BY <1>3, <1>4, <1>5, <1>6 DEF Bounded
<1>9. Extremes'
  BY <1>3, <1>7 DEF Extremes
<1> QED  BY <1>8, <1>9

LEMMA PeriodStep == PeriodInv /\ [Next]_vars => PeriodInv'
<1> SUFFICES ASSUME PeriodInv, [Next]_vars, GapsFit' PROVE Bounded' /\ Extremes'
  BY ClockStep DEF PeriodInv
<1>1. CASE \/ Ended \/ BeginRead \/ PutPerthreadClk \/ PutNumActivation
           \/ PutAbsActivation \/ Compute \/ ComputeFails \/ Wait \/ End
  <2>1. SegmentTyped
    BY DEF PeriodInv, ClockInv, TypeOK
  <2>2. mem'.period = mem.period
    BY <1>1, <2>1, CostTaken DEF PeriodInv, Ended, BeginRead, PutPerthreadClk, PutNumActivation,
         PutAbsActivation, Compute, ComputeFails, Wait, SegmentTyped
  <2>3. gaps' = gaps
    BY <1>1 DEF Ended, BeginRead, PutPerthreadClk, PutNumActivation, PutAbsActivation, Compute,
         ComputeFails, Wait, End, history
  <2> QED  BY <2>2, <2>3 DEF PeriodInv, GapsFit, Bounded, Extremes
<1>2. CASE PutPeriod
  BY <1>2, PeriodGap
<1>3. CASE \/ ReadWcet \/ Admit \/ Refuse \/ RefreshSingle \/ RefreshSys \/ RsvDestroy
           \/ UNCHANGED vars
  <2>1. mem' = mem /\ gaps' = gaps
    BY <1>3 DEF ReadWcet, Admit, Refuse, RefreshSingle, Evaluated, RefreshSys, RsvDestroy, vars,
         client, history
  <2> QED  BY <2>1 DEF PeriodInv, GapsFit, Bounded, Extremes
<1> QED  BY <1>1, <1>2, <1>3 DEF Next

(* As long as no two activations lie a whole lap of the 32 bits apart, the  *)
(* period estimate forgets the first one, by half with each activation.     *)
THEOREM PeriodFollows == Spec => [](GapsFit => PeriodTracks)
<1>1. Init => PeriodInv
  <2> SUFFICES ASSUME Init PROVE Bounded /\ Extremes
    BY ClockInit DEF PeriodInv
  <2>1. mem.period = EstPeriod /\ gaps = <<>> /\ EstPeriod \in Nat
    BY EstFacts DEF Init
  <2>2. ASSUME NEW x \in Nat
        PROVE  /\ mem.period <= x + Halved(Positive(EstPeriod - x), 0)
               /\ mem.period >= x + Halved(-Positive(x - EstPeriod), 0)
    <3> DEFINE a == Positive(EstPeriod - x)
               b == Positive(x - EstPeriod)
    <3>1. /\ a \in Nat /\ a >= EstPeriod - x
          /\ b \in Nat /\ b >= x - EstPeriod
      BY <2>1, PositiveInt
    <3> HIDE DEF a, b
    <3>2. Halved(a, 0) = a /\ Halved(-b, 0) = -b
      BY <3>1, HalvedFacts
    <3>3. EstPeriod <= x + a /\ EstPeriod >= x + (-b)
      BY <2>1, <3>1
    <3> QED  BY <2>1, <3>2, <3>3 DEF a, b
  <2> QED  BY <2>1, <2>2 DEF Bounded, Extremes
<1>2. PeriodInv => (GapsFit => PeriodTracks)
  <2> SUFFICES ASSUME PeriodInv, GapsFit, gaps # <<>>
               PROVE  PeriodTracks
    BY DEF PeriodTracks
  <2>1. PICK i \in DOMAIN gaps, j \in DOMAIN gaps :
           \A k \in DOMAIN gaps : gaps[i] <= gaps[k] /\ gaps[k] <= gaps[j]
    BY DEF PeriodInv, Extremes
  <2>2. gaps[i] \in Nat /\ gaps[j] \in Nat
    BY <2>1 DEF PeriodInv, ClockInv, TypeOK, ClocksTyped
  <2>3. mem.period <= gaps[j] + Halved(Positive(EstPeriod - gaps[j]), Len(gaps))
    BY <2>1, <2>2 DEF PeriodInv, Bounded
  <2>4. mem.period >= gaps[i] + Halved(-Positive(gaps[i] - EstPeriod), Len(gaps))
    BY <2>1, <2>2 DEF PeriodInv, Bounded
  <2> QED  BY <2>1, <2>3, <2>4 DEF PeriodTracks
<1> QED  BY <1>1, <1>2, PeriodStep, PTL DEF Spec
=============================================================================
