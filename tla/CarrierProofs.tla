--------------------------- MODULE CarrierProofs ---------------------------
(***************************************************************************)
(* The theorems about the request loop and the carrier, for any number of  *)
(* clients and requests.                                                   *)
(***************************************************************************)
EXTENDS Carrier, TLAPS

LEMMA FdFacts ==
    /\ Sock \in Nat /\ MaxFd \in Nat /\ Sock < MaxFd
    /\ Fds \subseteq Nat /\ \A i \in Fds : Sock < i /\ i <= MaxFd
    /\ Waits = Sock /\ Dead = -1 /\ Failed = -1
    /\ Talkers \subseteq Fds
BY CarrierAssumption DEF Fds, Waits, Dead, Failed

(* The queue of a socket keeps its type when its first element leaves.      *)
LEMMA QueueTyped ==
    ASSUME NEW q \in Seq(Nat), q # <<>>
    PROVE  Head(q) \in Nat /\ Tail(q) \in Seq(Nat)
OBVIOUS

LEMMA LengthTyped ==
    ASSUME NEW q \in Seq(Nat)
    PROVE  /\ Len(q) \in Nat /\ (Len(q) = 0 => q = <<>>)
           /\ q # <<>> => Len(Tail(q)) = Len(q) - 1
OBVIOUS

LEMMA AppendedNotEmpty ==
    ASSUME NEW q \in Seq(Nat), NEW x \in Nat
    PROVE  Append(q, x) # <<>>
<1>1. Len(Append(q, x)) = Len(q) + 1 /\ Len(q) \in Nat
  OBVIOUS
<1>2. Len(Append(q, x)) # 0
  BY <1>1
<1> QED  BY <1>2

LEMMA TurnTyped ==
    ASSUME TypeOK, NEW i \in Fds, turn = i
    PROVE  After(i) \in Sock .. conn_set_max
BY FdFacts DEF TypeOK, After

LEMMA ReceivedTyped ==
    ASSUME TypeOK, NEW i \in Fds
    PROVE  Received(i) \in {-1, 0, 1} /\ Kept(i) \in {-1, 0, 1}
<1>1. last_n[i] \in {-1, 0, 1}
  BY DEF TypeOK
<1> QED  BY <1>1 DEF Received, Kept

LEMMA ClassifyTyped ==
    ASSUME NEW s, NEW n
    PROVE  Classify(s, n) \in {"EMPTY", "CONNECTED", "DISCONNECTED", "ERROR"}
BY DEF Classify

(* What the memory of a client says after an update, and what it is read    *)
(* from.                                                                    *)
LEMMA UpdateFacts ==
    ASSUME TypeOK, Update, NEW i \in Fds
    PROVE  /\ last_n'[i] = IF i \in Readable THEN Received(i) ELSE Kept(i)
           /\ inbox'[i] = IF i \in Readable /\ last_n'[i] > 0 THEN Tail(inbox[i]) ELSE inbox[i]
           /\ last_req'[i] = IF i \in Readable /\ last_n'[i] > 0
                               THEN Head(inbox[i]) ELSE last_req[i]
           /\ state'[i] = IF i <= conn_set_max
                            THEN Classify(state[i], last_n'[i]) ELSE state[i]
           /\ i \in Readable /\ last_n'[i] > 0 => inbox[i] # <<>>
<1>1. i \in Readable /\ Received(i) > 0 => inbox[i] # <<>>
  BY DEF Received
<1> QED  BY <1>1 DEF Update

LEMMA UpdateTyped ==
    ASSUME TypeOK, Update
    PROVE  TypeOK'
<1> USE FdFacts
<1>1. last_n' \in [Fds -> {-1, 0, 1}]
  BY ReceivedTyped DEF Update
<1>2. ASSUME NEW i \in Fds
      PROVE  /\ inbox'[i] \in Seq(Nat) /\ last_req'[i] \in Nat
             /\ state'[i] \in {"EMPTY", "CONNECTED", "DISCONNECTED", "ERROR"}
  <2>1. inbox[i] \in Seq(Nat) /\ last_req[i] \in Nat
          /\ state[i] \in {"EMPTY", "CONNECTED", "DISCONNECTED", "ERROR"}
    BY DEF TypeOK
  <2> QED  BY <2>1, UpdateFacts, QueueTyped, ClassifyTyped
<1>3. inbox' \in [Fds -> Seq(Nat)] /\ last_req' \in [Fds -> Nat]
        /\ state' \in [Fds -> {"EMPTY", "CONNECTED", "DISCONNECTED", "ERROR"}]
  BY <1>2 DEF Update
<1>4. reset' \in [Fds -> BOOLEAN]
  BY DEF Update
<1>5. /\ conn_set_max' \in Sock .. MaxFd
      /\ conn_set' \subseteq Sock + 1 .. conn_set_max'
      /\ Sock + 1 <= conn_set_max'
  <2>1. conn_set_max \in Sock .. MaxFd /\ conn_set \subseteq Sock + 1 .. conn_set_max
    BY DEF TypeOK
  <2>2. CASE Knocking
    <3>1. conn_set_max' = conn_set_max + 1 /\ conn_set' \subseteq conn_set \cup {conn_set_max + 1}
      BY <2>2 DEF Update
    <3> QED  BY <2>1, <2>2, <3>1 DEF Knocking
  <2>3. CASE ~Knocking
    <3>1. conn_set_max' = conn_set_max /\ conn_set' \subseteq conn_set /\ Readable # {}
      BY <2>3 DEF Update
    <3>2. PICK i : i \in conn_set
      BY <3>1 DEF Readable
    <3>3. i \in Sock + 1 .. conn_set_max /\ conn_set_max \in Nat
      BY <2>1, <3>2
    <3>4. Sock + 1 <= conn_set_max
      BY <3>3
    <3> QED  BY <2>1, <3>1, <3>4
  <2> QED  BY <2>2, <2>3
<1>6. turn' \in (Sock .. conn_set_max') \cup {Dead}
  <2>1. turn' = Sock + 1
    BY DEF Update
  <2> QED  BY <1>5, <2>1
<1> QED  BY <1>1, <1>3, <1>4, <1>5, <1>6 DEF Update, TypeOK, client

(* Every step keeps the types.                                              *)
LEMMA TypeStep ==
    ASSUME TypeOK, [Next]_vars
    PROVE  TypeOK'
<1> USE FdFacts
<1>1. CASE Update
  BY <1>1, UpdateTyped
<1>2. ASSUME NEW i \in Fds, Purge(i) \/ Skip(i) \/ ServeFails(i)
      PROVE  TypeOK'
  <2>1. turn = i /\ turn' \in {After(i), Dead}
    BY <1>2 DEF Purge, Skip, ServeFails
  <2>2. turn' \in (Sock .. conn_set_max) \cup {Dead}
    BY <2>1, TurnTyped
  <2>3. state' \in [Fds -> {"EMPTY", "CONNECTED", "DISCONNECTED", "ERROR"}] /\ purged' \subseteq Fds
    BY <1>2 DEF Purge, Skip, ServeFails, TypeOK
  <2> QED  BY <1>2, <2>2, <2>3 DEF Purge, Skip, ServeFails, TypeOK, client, wire, carrier
<1>3. ASSUME NEW i \in Fds, Serve(i)
      PROVE  TypeOK'
  <2>1. turn' \in Sock .. conn_set_max
    BY <1>3, TurnTyped DEF Serve
  <2>2. outbox' \in [Fds -> Seq(Nat)]
    BY <1>3 DEF Serve, TypeOK
  <2> QED  BY <1>3, <2>1, <2>2 DEF Serve, TypeOK, client, carrier
<1>4. ASSUME NEW i \in Fds, Connect(i)
      PROVE  TypeOK'
  BY <1>4 DEF Connect, TypeOK, wire, carrier
<1>5. ASSUME NEW i \in Fds, Ask(i)
      PROVE  TypeOK'
  <2>1. asked' \in [Fds -> Nat] /\ asked'[i] \in Nat
    BY <1>5 DEF Ask, TypeOK
  <2>2. inbox' \in [Fds -> Seq(Nat)]
    BY <1>5, <2>1 DEF Ask, TypeOK
  <2> QED  BY <1>5, <2>1, <2>2 DEF Ask, TypeOK, carrier
<1>6. ASSUME NEW i \in Fds, Take(i)
      PROVE  TypeOK'
  <2>1. Head(outbox[i]) \in Nat /\ Tail(outbox[i]) \in Seq(Nat)
    BY <1>6, QueueTyped DEF Take, TypeOK
  <2> QED  BY <1>6, <2>1 DEF Take, TypeOK, carrier
<1>7. ASSUME NEW i \in Fds, TakeNothing(i)
      PROVE  TypeOK'
  BY <1>7 DEF TakeNothing, TypeOK, wire, carrier
<1>8. ASSUME NEW i \in Fds, Close(i)
      PROVE  TypeOK'
  <2>1. outbox' \in [Fds -> Seq(Nat)] /\ reset' \in [Fds -> BOOLEAN]
    BY <1>8 DEF Close, TypeOK
  <2>2. conn' \in [Fds -> {"none", "open", "closed"}] /\ waiting' \in [Fds -> BOOLEAN]
    BY <1>8 DEF Close, TypeOK
  <2> QED  BY <1>8, <2>1, <2>2 DEF Close, TypeOK, carrier
<1>9. CASE UNCHANGED vars
  BY <1>9 DEF vars, client, wire, carrier, TypeOK
<1> QED  BY <1>1, <1>2, <1>3, <1>4, <1>5, <1>6, <1>7, <1>8, <1>9 DEF Next, Daemon, Replied

(* The carrier, the sockets and the loop always have the types of their     *)
(* structs: the loop stays below conn_set_max and the arrays are total.     *)
THEOREM CarrierTypes == Spec => []TypeOK
<1>1. Init => TypeOK
  BY FdFacts DEF Init, TypeOK
<1>2. TypeOK /\ [Next]_vars => TypeOK'
  BY TypeStep
<1> QED  BY <1>1, <1>2, PTL DEF Spec

----------------------------------------------------------------------------
(* What the daemon holds against a client is true: a client in a state in   *)
(* which it will be purged, or that an update could take there without      *)
(* reading from its socket, has gone.                                       *)
ViewIsTrue(i) ==
    /\ Lost(i) => conn[i] = "closed"
    /\ state[i] = "CONNECTED" => last_n[i] > 0 \/ conn[i] = "closed"
    /\ last_n[i] < 0 => conn[i] = "closed"
    /\ reset[i] => conn[i] = "closed"
    /\ i \in purged => conn[i] = "closed"

ViewInv == TypeOK /\ \A i \in Fds : ViewIsTrue(i)

(* The last descriptor is below the number of bytes that precede the entry  *)
(* of the first client.                                                     *)
MemsetFallsShort == MaxFd < IntSize * (Sock + 1)

LEMMA KeepsAll ==
    ASSUME TypeOK, MemsetFallsShort, NEW i \in Fds
    PROVE  Kept(i) = last_n[i]
<1>1. IntSize \in Nat /\ IntSize > 0
  BY CarrierAssumption
<1>2. PICK d \in Nat : i = Sock + 1 + d
  <2>1. i - (Sock + 1) \in Nat /\ i = Sock + 1 + (i - (Sock + 1))
    BY FdFacts
  <2> QED  BY <2>1
<1>3. IntSize * i = IntSize * (Sock + 1) + IntSize * d /\ IntSize * d \in Nat
  BY <1>1, <1>2, FdFacts
<1>4. IntSize * (i + 1) = IntSize * i + IntSize /\ IntSize * i \in Nat
  BY <1>1, FdFacts
<1>5. IntSize * (Sock + 1) \in Nat
  BY <1>1, FdFacts
<1>6. conn_set_max \in Nat /\ conn_set_max <= MaxFd
  BY FdFacts DEF TypeOK
<1> DEFINE a == IntSize * i
           b == IntSize * (i + 1)
           c == IntSize * (Sock + 1)
           e == IntSize * d
<1>7. a = c + e /\ b = a + IntSize /\ MaxFd < c /\ a \in Nat /\ e \in Nat /\ c \in Nat
  BY <1>3, <1>4, <1>5 DEF MemsetFallsShort
<1> HIDE DEF a, b, c, e
<1>8. ~(b <= conn_set_max + 1) /\ ~(a < conn_set_max + 1)
  BY <1>1, <1>6, <1>7, FdFacts
<1> QED  BY <1>8 DEF Kept, a, b

(* An update reads the truth or keeps it.                                   *)
LEMMA UpdateKeepsView ==
    ASSUME ViewInv, MemsetFallsShort, Update, NEW i \in Fds
    PROVE  ViewIsTrue(i)'
<1>1. TypeOK /\ ViewIsTrue(i)
  BY DEF ViewInv
<1>2. conn' = conn /\ purged' = purged /\ (reset'[i] => reset[i])
  BY DEF Update, client
<1>3. last_n[i] \in {-1, 0, 1} /\ state[i] \in {"EMPTY", "CONNECTED", "DISCONNECTED", "ERROR"}
  BY <1>1 DEF TypeOK
<1>4. /\ last_n'[i] \in {-1, 0, 1}
      /\ last_n'[i] < 0 => conn[i] = "closed"
      /\ last_n'[i] <= 0 => conn[i] = "closed" \/ last_n'[i] = last_n[i]
  <2>1. CASE i \in Readable
    <3>1. last_n'[i] = Received(i) /\ (inbox[i] # <<>> \/ conn[i] = "closed")
      BY <1>1, <2>1, UpdateFacts DEF Readable
    <3> QED  BY <1>1, <3>1 DEF Received, ViewIsTrue
  <2>2. CASE i \notin Readable
    <3>1. last_n'[i] = last_n[i]
      BY <1>1, <2>2, UpdateFacts, KeepsAll
    <3> QED  BY <1>1, <1>3, <3>1 DEF ViewIsTrue
  <2> QED  BY <2>1, <2>2
<1>5. state'[i] = state[i] \/ state'[i] = Classify(state[i], last_n'[i])
  BY <1>1, UpdateFacts
<1>6. (Lost(i))' => conn[i] = "closed"
  BY <1>1, <1>3, <1>4, <1>5 DEF Lost, Classify, ViewIsTrue
<1>7. state'[i] = "CONNECTED" => last_n'[i] > 0 \/ conn[i] = "closed"
  BY <1>1, <1>3, <1>4, <1>5 DEF Classify, ViewIsTrue
<1> QED  BY <1>1, <1>2, <1>4, <1>6, <1>7 DEF ViewIsTrue

LEMMA ViewStep ==
    ASSUME ViewInv, MemsetFallsShort, [Next]_vars
    PROVE  ViewInv'
<1>1. TypeOK'
  BY TypeStep DEF ViewInv
<1>2. TypeOK /\ \A i \in Fds : ViewIsTrue(i)
  BY DEF ViewInv
<1> SUFFICES ASSUME NEW i \in Fds PROVE ViewIsTrue(i)'
  BY <1>1 DEF ViewInv
<1>3. CASE Update
  BY <1>3, UpdateKeepsView
<1>4. ASSUME NEW j \in Fds, Purge(j)
      PROVE  ViewIsTrue(i)'
  BY <1>2, <1>4 DEF Purge, ViewIsTrue, Lost, TypeOK, client, wire, carrier
<1>5. ASSUME NEW j \in Fds, Skip(j) \/ Serve(j) \/ ServeFails(j)
      PROVE  ViewIsTrue(i)'
  BY <1>2, <1>5 DEF Skip, Serve, ServeFails, ViewIsTrue, Lost, TypeOK, client, wire, carrier
<1>6. ASSUME NEW j \in Fds, Connect(j)
      PROVE  ViewIsTrue(i)'
  BY <1>2, <1>6 DEF Connect, ViewIsTrue, Lost, TypeOK, wire, carrier
<1>7. ASSUME NEW j \in Fds, Close(j)
      PROVE  ViewIsTrue(i)'
  BY <1>2, <1>7 DEF Close, ViewIsTrue, Lost, TypeOK, carrier
<1>8. ASSUME NEW j \in Fds, Ask(j) \/ Take(j) \/ TakeNothing(j)
      PROVE  ViewIsTrue(i)'
  BY <1>2, <1>8 DEF Ask, Take, TakeNothing, ViewIsTrue, Lost, wire, carrier
<1>9. CASE UNCHANGED vars
  BY <1>2, <1>9 DEF vars, client, wire, carrier, ViewIsTrue, Lost
<1> QED  BY <1>3, <1>4, <1>5, <1>6, <1>7, <1>8, <1>9 DEF Next, Daemon, Replied

(* As long as the memset of rts_carrier_update ends before the entry of the *)
(* first client, only clients that have gone are purged, whether a failed   *)
(* send ends the daemon or not.                                             *)
THEOREM OnlyGone == MemsetFallsShort /\ Spec => []OnlyTheGonePurged
<1> SUFFICES ASSUME MemsetFallsShort PROVE Spec => []OnlyTheGonePurged
  OBVIOUS
<1>1. Init => ViewInv
  BY FdFacts DEF Init, ViewInv, TypeOK, ViewIsTrue, Lost
<1>2. ViewInv /\ [Next]_vars => ViewInv'
  BY ViewStep
<1>3. ViewInv => OnlyTheGonePurged
  BY DEF ViewInv, ViewIsTrue, OnlyTheGonePurged, TypeOK
<1> QED  BY <1>1, <1>2, <1>3, PTL DEF Spec

----------------------------------------------------------------------------
(* PURGED ONCE *)

(* Nothing of this client can reach the daemon any more: its queue is       *)
(* empty, its error has been read, and what the carrier remembers of the    *)
(* last read is overwritten by the next one.                                *)
Settled(i) ==
    /\ conn[i] = "closed" /\ inbox[i] = <<>> /\ ~reset[i]
    /\ last_n[i] <= 0 /\ (last_n[i] < 0 => i \in conn_set)

PurgeIsFinal(i) ==
    /\ Lost(i) => Settled(i)
    /\ i \in purged => state[i] = "EMPTY" /\ Settled(i)
    /\ state[i] = "EMPTY" /\ i \notin purged => last_n[i] = 0
    /\ state[i] = "CONNECTED" => i \in conn_set

OnceInv == ViewInv /\ \A i \in Fds : PurgeIsFinal(i)

(* The rest of what an update does to one client, by the answer of its read. *)
LEMMA ReadFacts ==
    ASSUME TypeOK, Update, NEW i \in Fds
    PROVE  /\ i \in Readable <=> i \in conn_set /\ (inbox[i] # <<>> \/ conn[i] = "closed")
           /\ i \notin Readable => reset'[i] = reset[i] /\ inbox'[i] = inbox[i]
           /\ i \in Readable /\ last_n'[i] < 0 => ~reset'[i]
           /\ reset'[i] => reset[i]
           /\ i \in conn_set /\ (i \notin Readable \/ last_n'[i] # 0) => i \in conn_set'
           /\ i \notin Readable /\ i \in conn_set' => i \in conn_set \/ i = conn_set_max + 1
<1>1. /\ i \in Readable <=> i \in conn_set /\ (inbox[i] # <<>> \/ conn[i] = "closed")
  BY DEF Readable
<1> DEFINE n == [j \in Fds |-> IF j \in Readable THEN Received(j) ELSE Kept(j)]
<1>2. last_n' = n
  BY DEF Update
<1>3. reset' = [j \in Fds |-> reset[j] /\ ~(j \in Readable /\ n[j] < 0)]
  BY DEF Update
<1>4. conn_set' = (conn_set \ {j \in Readable : n[j] = 0})
                    \cup (IF Knocking THEN {conn_set_max + 1} ELSE {})
  BY DEF Update
<1>5. reset[i] \in BOOLEAN
  BY DEF TypeOK
<1> HIDE DEF n
<1>6. reset'[i] = (reset[i] /\ ~(i \in Readable /\ last_n'[i] < 0))
  BY <1>2, <1>3
<1>7. /\ i \in conn_set /\ (i \notin Readable \/ last_n'[i] # 0) => i \in conn_set'
      /\ i \notin Readable /\ i \in conn_set' => i \in conn_set \/ i = conn_set_max + 1
  BY <1>2, <1>4
<1>8. i \notin Readable => inbox'[i] = inbox[i]
  BY UpdateFacts
<1> QED  BY <1>1, <1>5, <1>6, <1>7, <1>8

LEMMA UpdateSettles ==
    ASSUME OnceInv, MemsetFallsShort, Update, NEW i \in Fds
    PROVE  PurgeIsFinal(i)'
<1>1. TypeOK /\ ViewIsTrue(i) /\ PurgeIsFinal(i)
  BY DEF OnceInv, ViewInv
<1>2. /\ last_n[i] \in {-1, 0, 1} /\ reset[i] \in BOOLEAN
      /\ state[i] \in {"EMPTY", "CONNECTED", "DISCONNECTED", "ERROR"}
      /\ conn_set_max \in Nat
  BY <1>1, FdFacts DEF TypeOK
<1>3. conn' = conn /\ purged' = purged
  BY DEF Update, client
<1>4. /\ i \in Readable <=> i \in conn_set /\ (inbox[i] # <<>> \/ conn[i] = "closed")
      /\ i \notin Readable =>
            /\ inbox'[i] = inbox[i] /\ reset'[i] = reset[i] /\ last_n'[i] = last_n[i]
            /\ i \in conn_set => i \in conn_set'
  BY <1>1, KeepsAll, UpdateFacts, ReadFacts
<1>5. i \in Readable =>
        /\ last_n'[i] = Received(i) /\ last_n'[i] \in {-1, 0, 1}
        /\ last_n'[i] # 0 => i \in conn_set'
        /\ last_n'[i] <= 0 =>
              /\ inbox'[i] = inbox[i] /\ inbox[i] = <<>> /\ conn[i] = "closed"
              /\ ~reset'[i]
  <2> SUFFICES ASSUME i \in Readable
               PROVE  /\ last_n'[i] = Received(i) /\ last_n'[i] \in {-1, 0, 1}
                      /\ last_n'[i] # 0 => i \in conn_set'
                      /\ last_n'[i] <= 0 =>
                            /\ inbox'[i] = inbox[i] /\ inbox[i] = <<>> /\ conn[i] = "closed"
                            /\ ~reset'[i]
    OBVIOUS
  <2>1. last_n'[i] = Received(i) /\ last_n'[i] \in {-1, 0, 1}
    BY <1>1, UpdateFacts DEF Received
  <2>2. last_n'[i] # 0 => i \in conn_set'
    BY <1>1, <1>4, ReadFacts
  <2>3. last_n'[i] <= 0 => inbox'[i] = inbox[i] /\ inbox[i] = <<>> /\ conn[i] = "closed"
    BY <1>1, <1>4, <2>1, UpdateFacts DEF Received
  <2>4. last_n'[i] <= 0 => ~reset'[i]
    BY <1>1, <2>1, <2>3, ReadFacts DEF Received
  <2> QED  BY <2>1, <2>2, <2>3, <2>4
<1>6. state'[i] = IF i <= conn_set_max THEN Classify(state[i], last_n'[i]) ELSE state[i]
  BY <1>1, UpdateFacts
<1>7. CASE Settled(i)
  <2>1. last_n'[i] <= 0 /\ (last_n'[i] < 0 => i \in conn_set') /\ ~reset'[i] /\ inbox'[i] = <<>>
    BY <1>2, <1>4, <1>5, <1>7 DEF Settled, Received
  <2>2. Settled(i)'
    BY <1>3, <1>7, <2>1 DEF Settled
  <2>3. state[i] = "EMPTY" => last_n'[i] = 0
    BY <1>1, <1>2, <1>4, <1>5, <1>7, <2>1 DEF Settled, Received
  <2>4. state[i] = "CONNECTED" => i \in Readable /\ state'[i] # "EMPTY"
    BY <1>1, <1>2, <1>4, <1>6, <1>7 DEF Settled, PurgeIsFinal, Classify
  <2>5. state[i] = "EMPTY" => state'[i] = "EMPTY"
    BY <1>6, <2>3 DEF Classify
  <2>6. Lost(i) => state'[i] \notin {"EMPTY", "CONNECTED"}
    BY <1>2, <1>6 DEF Lost, Classify
  <2>7. state[i] = "CONNECTED" => state'[i] # "CONNECTED" \/ i \in conn_set'
    <3>1. i \in conn_set => i <= conn_set_max
      BY <1>1, <1>2, FdFacts DEF TypeOK
    <3> QED  BY <1>1, <1>5, <1>6, <2>1, <2>4, <3>1 DEF Classify, PurgeIsFinal
  <2>8. i \in purged' => state'[i] = "EMPTY"
    BY <1>1, <1>3, <2>5 DEF PurgeIsFinal
  <2>9. state'[i] = "EMPTY" => last_n'[i] = 0
    BY <1>2, <2>3, <2>4, <2>6 DEF Lost
  <2>10. state'[i] = "CONNECTED" => i \in conn_set'
    BY <1>2, <2>5, <2>6, <2>7 DEF Lost
  <2> QED  BY <2>2, <2>8, <2>9, <2>10 DEF PurgeIsFinal
<1>8. CASE ~Settled(i)
  <2>1. i \notin purged /\ ~Lost(i)
    BY <1>1, <1>8 DEF PurgeIsFinal
  <2>2. CASE state[i] = "EMPTY"
    <3>1. last_n[i] = 0
      BY <1>1, <2>1, <2>2 DEF PurgeIsFinal
    <3>2. last_n'[i] # 0 => i \in conn_set'
      BY <1>4, <1>5, <3>1
    <3>3. CASE i <= conn_set_max
      BY <1>3, <1>6, <2>1, <2>2, <3>2, <3>3 DEF PurgeIsFinal, Classify, Lost
    <3>4. CASE ~(i <= conn_set_max)
      <4>1. i \notin conn_set
        BY <1>1, <1>2, <3>4, FdFacts DEF TypeOK
      <4> QED  BY <1>3, <1>4, <1>6, <2>1, <2>2, <3>1, <3>4, <4>1 DEF PurgeIsFinal, Lost
    <3> QED  BY <3>3, <3>4
  <2>3. CASE state[i] = "CONNECTED"
    <3>1. i \in conn_set
      BY <1>1, <2>3 DEF PurgeIsFinal
    <3>2. CASE last_n'[i] > 0
      <4>1. i \in conn_set'
        BY <1>2, <1>4, <1>5, <3>1, <3>2
      <4>2. state'[i] = "CONNECTED"
        BY <1>6, <2>3, <3>2 DEF Classify
      <4> QED  BY <1>3, <2>1, <4>1, <4>2 DEF PurgeIsFinal, Lost
    <3>3. CASE ~(last_n'[i] > 0)
      <4>1. i \in Readable
        BY <1>1, <1>2, <1>4, <2>3, <3>1, <3>3 DEF ViewIsTrue
      <4>2. Settled(i)'
        BY <1>3, <1>5, <3>3, <4>1 DEF Settled
      <4>3. state'[i] \in {"CONNECTED", "DISCONNECTED", "ERROR"} /\ i \in Fds
        BY <1>6, <2>3, <3>3 DEF Classify
      <4>4. state'[i] = "CONNECTED" => i \in conn_set'
        <5>1. i <= conn_set_max
          BY <1>1, <1>2, <3>1, FdFacts DEF TypeOK
        <5> QED  BY <1>6, <2>3, <3>3, <5>1 DEF Classify
      <4> QED  BY <1>3, <2>1, <4>2, <4>3, <4>4 DEF PurgeIsFinal
    <3> QED  BY <3>2, <3>3
  <2> QED  BY <1>2, <2>1, <2>2, <2>3 DEF Lost
<1> QED  BY <1>7, <1>8

LEMMA OnceStep ==
    ASSUME OnceInv, MemsetFallsShort, PipeKills, [Next]_vars
    PROVE  OnceInv'
<1>1. ViewInv'
  BY ViewStep DEF OnceInv
<1>2. TypeOK /\ \A i \in Fds : PurgeIsFinal(i)
  BY DEF OnceInv, ViewInv
<1> SUFFICES ASSUME NEW i \in Fds PROVE PurgeIsFinal(i)'
  BY <1>1 DEF OnceInv
<1>3. PurgeIsFinal(i)
  BY <1>2
<1>4. CASE Update
  BY <1>4, UpdateSettles
<1>5. ASSUME NEW j \in Fds, Purge(j)
      PROVE  PurgeIsFinal(i)'
  BY <1>2, <1>3, <1>5 DEF Purge, PurgeIsFinal, Settled, Lost, TypeOK, client, wire, carrier
<1>6. ASSUME NEW j \in Fds, Skip(j) \/ Serve(j) \/ ServeFails(j)
      PROVE  PurgeIsFinal(i)'
  BY <1>3, <1>6 DEF Skip, Serve, ServeFails, PurgeIsFinal, Settled, Lost, client, wire, carrier
<1>7. ASSUME NEW j \in Fds, Connect(j) \/ Close(j)
      PROVE  PurgeIsFinal(i)'
  <2>1. Settled(i) => Settled(i)'
    BY <1>2, <1>7 DEF Connect, Close, Settled, TypeOK, wire, carrier
  <2> QED  BY <1>3, <1>7, <2>1 DEF Connect, Close, PurgeIsFinal, Lost, wire, carrier
<1>8. ASSUME NEW j \in Fds, Ask(j)
      PROVE  PurgeIsFinal(i)'
  <2>1. Settled(i) => Settled(i)'
    BY <1>2, <1>8 DEF Ask, Settled, TypeOK, carrier
  <2> QED  BY <1>3, <1>8, <2>1 DEF Ask, PurgeIsFinal, Lost, carrier
<1>9. ASSUME NEW j \in Fds, Take(j) \/ TakeNothing(j)
      PROVE  PurgeIsFinal(i)'
  BY <1>3, <1>9 DEF Take, TakeNothing, PurgeIsFinal, Settled, Lost, wire, carrier
<1>10. CASE UNCHANGED vars
  BY <1>3, <1>10 DEF vars, client, wire, carrier, PurgeIsFinal, Settled, Lost
<1> QED  BY <1>4, <1>5, <1>6, <1>7, <1>8, <1>9, <1>10 DEF Next, Daemon, Replied

(* Where the memset falls short and a failed send ends the daemon, no       *)
(* client is purged twice: nothing that arrives after its end of stream     *)
(* makes the carrier take the entry for a connected one again.              *)
THEOREM NoSecondPurge == MemsetFallsShort /\ PipeKills /\ Spec => PurgedOnce
<1> SUFFICES ASSUME MemsetFallsShort, PipeKills PROVE Spec => PurgedOnce
  OBVIOUS
<1>1. Init => OnceInv
  BY FdFacts DEF Init, OnceInv, ViewInv, TypeOK, ViewIsTrue, PurgeIsFinal, Lost
<1>2. OnceInv /\ [Next]_vars => OnceInv'
  BY OnceStep
<1>3. OnceInv => [\A i \in Fds : Purge(i) => i \notin purged]_vars
  BY DEF OnceInv, PurgeIsFinal, Purge, Lost
<1> QED  BY <1>1, <1>2, <1>3, PTL DEF Spec, PurgedOnce


----------------------------------------------------------------------------
(* THE CHAIN OF REQUESTS *)

(* A queue holds the numbers after r; a queue of replies repeats or goes on *)
(* from g, and what it ends with.                                           *)
Numbered(r, q) == \A k \in 1 .. Len(q) : q[k] = r + k
Follows(g, q) == \A k \in 1 .. Len(q) : q[k] - (IF k = 1 THEN g ELSE q[k - 1]) \in {0, 1}
EndOf(g, q) == IF q = <<>> THEN g ELSE q[Len(q)]

LEMMA NumberedAppend ==
    ASSUME NEW r \in Nat, NEW q \in Seq(Nat), Numbered(r, q)
    PROVE  Numbered(r, Append(q, r + Len(q) + 1))
<1> DEFINE x == r + Len(q) + 1
           p == Append(q, x)
<1>1. Len(q) \in Nat /\ x \in Nat
  OBVIOUS
<1>2. Len(p) = Len(q) + 1 /\ p[Len(q) + 1] = x /\ \A k \in 1 .. Len(q) : p[k] = q[k]
  BY <1>1
<1> HIDE DEF p
<1> QED  BY <1>1, <1>2 DEF Numbered, p

LEMMA NumberedTail ==
    ASSUME NEW r \in Nat, NEW q \in Seq(Nat), q # <<>>, Numbered(r, q)
    PROVE  /\ Head(q) = r + 1 /\ Numbered(r + 1, Tail(q))
           /\ r + Len(q) = (r + 1) + Len(Tail(q))
<1>1. Len(q) \in Nat /\ Len(q) > 0 /\ Len(Tail(q)) = Len(q) - 1 /\ Head(q) = q[1]
  OBVIOUS
<1>2. \A k \in 1 .. Len(q) - 1 : Tail(q)[k] = q[k + 1]
  OBVIOUS
<1> QED  BY <1>1, <1>2 DEF Numbered

LEMMA FollowsAppend ==
    ASSUME NEW g \in Nat, NEW q \in Seq(Nat), NEW x \in Nat, Follows(g, q),
           x - EndOf(g, q) \in {0, 1}
    PROVE  Follows(g, Append(q, x)) /\ EndOf(g, Append(q, x)) = x /\ Append(q, x) # <<>>
<1> DEFINE p == Append(q, x)
<1>1. Len(q) \in Nat /\ (q = <<>> <=> Len(q) = 0)
  OBVIOUS
<1>2. /\ Len(p) = Len(q) + 1 /\ p[Len(q) + 1] = x /\ p # <<>>
      /\ \A k \in 1 .. Len(q) : p[k] = q[k]
  OBVIOUS
<1> HIDE DEF p
<1>3. Follows(g, p)
  <2> SUFFICES ASSUME NEW k \in 1 .. Len(p)
               PROVE  p[k] - (IF k = 1 THEN g ELSE p[k - 1]) \in {0, 1}
    BY DEF Follows
  <2>1. CASE k \in 1 .. Len(q)
    <3>1. p[k] = q[k] /\ (k # 1 => p[k - 1] = q[k - 1])
      BY <1>1, <1>2, <2>1
    <3> QED  BY <2>1, <3>1 DEF Follows
  <2>2. CASE k = Len(q) + 1
    BY <1>1, <1>2, <2>2 DEF EndOf
  <2> QED  BY <1>1, <1>2, <2>1, <2>2
<1>4. EndOf(g, p) = x
  BY <1>2 DEF EndOf
<1> QED  BY <1>2, <1>3, <1>4 DEF p

LEMMA FollowsTail ==
    ASSUME NEW g \in Nat, NEW q \in Seq(Nat), q # <<>>, Follows(g, q)
    PROVE  Follows(Head(q), Tail(q)) /\ EndOf(Head(q), Tail(q)) = EndOf(g, q)
<1> DEFINE p == Tail(q)
<1>1. /\ Len(q) \in Nat /\ Len(q) > 0 /\ Len(p) = Len(q) - 1 /\ Head(q) = q[1]
      /\ p \in Seq(Nat)
  OBVIOUS
<1>2. \A k \in 1 .. Len(q) - 1 : p[k] = q[k + 1]
  OBVIOUS
<1> HIDE DEF p
<1>3. Follows(Head(q), p)
  <2> SUFFICES ASSUME NEW k \in 1 .. Len(p)
               PROVE  p[k] - (IF k = 1 THEN Head(q) ELSE p[k - 1]) \in {0, 1}
    BY DEF Follows
  <2>1. k + 1 \in 1 .. Len(q) /\ (k + 1) - 1 = k /\ k + 1 # 1 /\ p[k] = q[k + 1]
    BY <1>1, <1>2
  <2>2. q[k + 1] - q[k] \in {0, 1}
    BY <2>1 DEF Follows
  <2>3. CASE k = 1
    BY <1>1, <2>1, <2>2, <2>3
  <2>4. CASE k # 1
    <3>1. k - 1 \in 1 .. Len(q) - 1 /\ (k - 1) + 1 = k
      BY <1>1, <2>4
    <3>2. p[k - 1] = q[k]
      BY <1>2, <3>1
    <3> QED  BY <2>1, <2>2, <2>4, <3>2
  <2> QED  BY <2>3, <2>4
<1>4. EndOf(Head(q), p) = EndOf(g, q)
  BY <1>1, <1>2 DEF EndOf
<1> QED  BY <1>3, <1>4 DEF p

(* Where a client that has not connected and an entry of the carrier that   *)
(* is not in use stand; and how a client's requests are numbered.           *)
Bookkeeping(i) ==
    /\ conn[i] = "none" =>
          /\ asked[i] = 0 /\ got[i] = 0 /\ ~waiting[i]
          /\ inbox[i] = <<>> /\ outbox[i] = <<>>
    /\ i > conn_set_max => last_n[i] = 0 /\ state[i] = "EMPTY"
    /\ i <= conn_set_max => conn[i] # "none"
    /\ last_req[i] + Len(inbox[i]) = asked[i]
    /\ Numbered(last_req[i], inbox[i])

(* The loop has yet to visit client i.                                      *)
Pending(i) == Sock < turn /\ turn <= i /\ i <= conn_set_max

(* The last reply sent to client i.                                         *)
Sent(i) == EndOf(got[i], outbox[i])

(* The replies to a client that is there follow one another, and the last   *)
(* one is to the request read last, unless the loop has just read it.       *)
Chained(i) ==
    /\ turn # Dead => got[i] # Failed
    /\ got[i] = Failed => outbox[i] = <<>>
    /\ conn[i] # "open" => outbox[i] = <<>>
    /\ Follows(got[i], outbox[i])
    /\ conn[i] = "open" /\ turn # Dead =>
          /\ last_req[i] # Sent(i) => last_req[i] = Sent(i) + 1 /\ Pending(i) /\ Updated(i)
          /\ Lost(i) => Pending(i)

ChainInv == TypeOK /\ \A i \in Fds : Bookkeeping(i) /\ Chained(i)

LEMMA BooksUpdate ==
    ASSUME TypeOK, Update, NEW i \in Fds, Bookkeeping(i)
    PROVE  Bookkeeping(i)'
<1> USE FdFacts
<1>1. /\ conn_set_max \in Nat /\ conn_set \subseteq Sock + 1 .. conn_set_max
      /\ inbox[i] \in Seq(Nat) /\ last_req[i] \in Nat /\ i \in Nat
  BY DEF TypeOK
<1>2. /\ conn' = conn /\ asked' = asked /\ got' = got /\ waiting' = waiting /\ outbox' = outbox
      /\ conn_set_max' = IF Knocking THEN conn_set_max + 1 ELSE conn_set_max
  BY DEF Update, client
<1>3. last_req'[i] + Len(inbox'[i]) = asked[i] /\ Numbered(last_req'[i], inbox'[i])
  <2>1. CASE i \in Readable /\ last_n'[i] > 0
    BY <1>1, <2>1, UpdateFacts, NumberedTail DEF Bookkeeping
  <2>2. CASE ~(i \in Readable /\ last_n'[i] > 0)
    BY <2>2, UpdateFacts DEF Bookkeeping
  <2> QED  BY <2>1, <2>2
<1>4. conn[i] = "none" => inbox'[i] = <<>>
  BY UpdateFacts DEF Bookkeeping
<1>5. ASSUME i > conn_set_max'
      PROVE  last_n'[i] = 0 /\ state'[i] = "EMPTY"
  <2>1. i > conn_set_max
    BY <1>1, <1>2, <1>5
  <2>2. i \notin Readable
    BY <1>1, <2>1 DEF Readable
  <2>3. last_n'[i] = Kept(i) /\ state'[i] = state[i]
    BY <1>1, <2>1, <2>2, UpdateFacts
  <2> QED  BY <2>1, <2>3 DEF Bookkeeping, Kept
<1>6. ASSUME i <= conn_set_max'
      PROVE  conn[i] # "none"
  <2>1. i <= conn_set_max \/ (Knocking /\ i = conn_set_max + 1)
    BY <1>1, <1>2, <1>6
  <2> QED  BY <2>1 DEF Bookkeeping, Knocking
<1> QED  BY <1>2, <1>3, <1>4, <1>5, <1>6 DEF Bookkeeping

LEMMA ChainUpdate ==
    ASSUME TypeOK, Update, NEW i \in Fds, Bookkeeping(i), Chained(i)
    PROVE  Chained(i)'
<1> USE FdFacts
<1>1. /\ conn_set_max \in Nat /\ conn_set \subseteq Sock + 1 .. conn_set_max
      /\ inbox[i] \in Seq(Nat) /\ last_req[i] \in Nat /\ i \in Nat
      /\ state[i] \in {"EMPTY", "CONNECTED", "DISCONNECTED", "ERROR"}
  BY DEF TypeOK
<1>2. /\ conn' = conn /\ got' = got /\ outbox' = outbox /\ turn = Sock /\ turn' = Sock + 1
      /\ conn_set_max' \in Nat /\ conn_set_max <= conn_set_max'
  BY <1>1 DEF Update, client
<1>3. turn # Dead /\ turn' # Dead /\ ~Pending(i) /\ (i <= conn_set_max => Pending(i)')
  BY <1>1, <1>2 DEF Pending
<1>4. Sent(i)' = Sent(i)
  BY <1>2 DEF Sent
<1>5. ASSUME conn[i] = "open"
      PROVE  /\ last_req'[i] # Sent(i) =>
                    last_req'[i] = Sent(i) + 1 /\ Pending(i)' /\ Updated(i)'
             /\ Lost(i)' => Pending(i)'
  <2>1. last_req[i] = Sent(i) /\ ~Lost(i)
    BY <1>3, <1>5 DEF Chained
  <2>2. Lost(i)' => Pending(i)'
    BY <1>3, <2>1, UpdateFacts DEF Lost
  <2>3. CASE i \in Readable /\ last_n'[i] > 0
    <3>1. last_req'[i] = last_req[i] + 1
      BY <1>1, <2>3, UpdateFacts, NumberedTail DEF Bookkeeping
    <3>2. i <= conn_set_max
      BY <1>1, <2>3 DEF Readable
    <3>3. state'[i] = "CONNECTED"
      BY <1>1, <2>1, <2>3, <3>2, UpdateFacts, ReceivedTyped DEF Lost, Classify
    <3> QED  BY <1>3, <2>1, <2>2, <2>3, <3>1, <3>2, <3>3 DEF Updated
  <2>4. CASE ~(i \in Readable /\ last_n'[i] > 0)
    BY <2>1, <2>2, <2>4, UpdateFacts
  <2> QED  BY <2>3, <2>4
<1> QED  BY <1>2, <1>3, <1>4, <1>5 DEF Chained

(* The loop's step away from client j leaves the others pending.            *)
LEMMA TurnMoves ==
    ASSUME TypeOK, NEW i \in Fds, NEW j \in Fds, turn = j,
           turn' = After(j), conn_set_max' = conn_set_max
    PROVE  turn # Dead /\ turn' # Dead /\ (i # j /\ Pending(i) => Pending(i)')
<1>1. i \in Nat /\ j \in Nat /\ Sock \in Nat /\ Sock < j /\ conn_set_max \in Nat
  BY FdFacts DEF TypeOK
<1> QED  BY <1>1 DEF After, Pending, Waits, Dead

(* What the loop does for another client, or leaves undone, keeps a chain.  *)
LEMMA ChainKept ==
    ASSUME TypeOK, NEW i \in Fds, Bookkeeping(i), Chained(i),
           UNCHANGED <<conn[i], asked[i], got[i], waiting[i], inbox[i], outbox[i]>>,
           UNCHANGED <<last_n[i], last_req[i], state[i], conn_set_max>>,
           turn' # Dead => turn # Dead,
           turn' # Dead /\ Pending(i) => Pending(i)'
    PROVE  Bookkeeping(i)' /\ Chained(i)'
<1>1. Bookkeeping(i)'
  BY DEF Bookkeeping, Numbered
<1>2. Follows(got[i], outbox[i])' /\ Sent(i)' = Sent(i) /\ Lost(i)' = Lost(i) /\ Updated(i)' = Updated(i)
  BY DEF Chained, Follows, Sent, EndOf, Lost, Updated
<1>3. Chained(i)'
  BY <1>2 DEF Chained
<1> QED  BY <1>1, <1>3

LEMMA ChainServe ==
    ASSUME TypeOK, NEW i \in Fds, Serve(i), Bookkeeping(i), Chained(i)
    PROVE  Bookkeeping(i)' /\ Chained(i)'
<1> USE FdFacts
<1>1. /\ turn = i /\ Updated(i) /\ conn[i] = "open" /\ turn # Dead /\ turn' # Dead
      /\ outbox'[i] = Append(outbox[i], last_req[i])
      /\ outbox[i] \in Seq(Nat) /\ last_req[i] \in Nat /\ got[i] \in Nat
  <2>1. turn = i /\ turn' = After(i) /\ conn_set_max' = conn_set_max
    BY DEF Serve, carrier
  <2>2. turn # Dead /\ turn' # Dead
    BY <2>1, TurnMoves
  <2>3. conn[i] = "open"
    BY <2>1, <2>2 DEF TypeOK, Serve, Bookkeeping
  <2> QED  BY <2>1, <2>2, <2>3 DEF TypeOK, Serve, Chained, Failed
<1>2. /\ UNCHANGED <<client, inbox, reset, carrier, state, purged>>
  BY DEF Serve
<1>3. Bookkeeping(i)'
  BY <1>1, <1>2 DEF Bookkeeping, client, carrier
<1>4. last_req[i] - EndOf(got[i], outbox[i]) \in {0, 1}
  <2>1. EndOf(got[i], outbox[i]) \in Nat
    BY <1>1 DEF EndOf
  <2> QED  BY <1>1, <2>1 DEF Chained, Sent
<1>5. /\ Follows(got[i], outbox'[i]) /\ EndOf(got[i], outbox'[i]) = last_req[i]
  BY <1>1, <1>4, FollowsAppend DEF Chained
<1>6. ~Lost(i)'
  BY <1>1, <1>2 DEF Updated, Lost
<1>7. Chained(i)'
  BY <1>1, <1>2, <1>5, <1>6 DEF Chained, Sent, client, carrier
<1> QED  BY <1>3, <1>7

LEMMA ChainTake ==
    ASSUME TypeOK, NEW i \in Fds, Take(i), Bookkeeping(i), Chained(i)
    PROVE  Bookkeeping(i)' /\ Chained(i)'
<1>1. /\ outbox[i] \in Seq(Nat) /\ outbox[i] # <<>> /\ waiting[i]
      /\ got'[i] = Head(outbox[i]) /\ outbox'[i] = Tail(outbox[i]) /\ ~waiting'[i]
      /\ UNCHANGED <<conn, asked, inbox, reset, carrier, state, turn, purged>>
  BY DEF Take, TypeOK
<1>2. got[i] \in Nat
  BY <1>1 DEF Chained, TypeOK, Failed
<1>3. /\ Follows(got'[i], outbox'[i])
      /\ EndOf(got'[i], outbox'[i]) = EndOf(got[i], outbox[i])
  BY <1>1, <1>2, FollowsTail DEF Chained
<1>4. got'[i] \in Nat
  BY <1>1
<1>5. Bookkeeping(i)'
  BY <1>1 DEF Bookkeeping, carrier
<1>6. Sent(i)' = Sent(i) /\ Pending(i)' = Pending(i) /\ Updated(i)' = Updated(i) /\ Lost(i)' = Lost(i)
  BY <1>1, <1>3 DEF Sent, Pending, Updated, Lost, carrier
<1>7. Chained(i)'
  BY <1>1, <1>3, <1>4, <1>6 DEF Chained, carrier, Failed
<1> QED  BY <1>5, <1>7

LEMMA ChainAsk ==
    ASSUME TypeOK, NEW i \in Fds, Ask(i), Bookkeeping(i), Chained(i)
    PROVE  Bookkeeping(i)' /\ Chained(i)'
<1>1. /\ inbox[i] \in Seq(Nat) /\ last_req[i] \in Nat /\ asked[i] \in Nat /\ conn[i] = "open"
      /\ asked'[i] = asked[i] + 1 /\ inbox'[i] = Append(inbox[i], asked[i] + 1)
      /\ UNCHANGED <<conn, got, outbox, reset, carrier, state, turn, purged>>
  BY DEF Ask, TypeOK
<1>2. asked[i] + 1 = last_req[i] + Len(inbox[i]) + 1 /\ Len(inbox[i]) \in Nat
  BY <1>1 DEF Bookkeeping
<1>3. Numbered(last_req[i], inbox'[i]) /\ Len(inbox'[i]) = Len(inbox[i]) + 1
  BY <1>1, <1>2, NumberedAppend DEF Bookkeeping
<1>4. Bookkeeping(i)'
  BY <1>1, <1>2, <1>3 DEF Bookkeeping, carrier
<1>5. Chained(i)'
  BY <1>1 DEF Chained, Sent, Pending, Updated, Lost, carrier
<1> QED  BY <1>4, <1>5

LEMMA ChainStep == ChainInv /\ [Next]_vars => ChainInv'
<1> USE FdFacts
<1> SUFFICES ASSUME ChainInv, [Next]_vars, NEW i \in Fds
             PROVE  Bookkeeping(i)' /\ Chained(i)'
  BY TypeStep DEF ChainInv
<1>1. TypeOK /\ Bookkeeping(i) /\ Chained(i)
  BY DEF ChainInv
<1>2. CASE Update
  BY <1>1, <1>2, BooksUpdate, ChainUpdate
<1>3. ASSUME NEW j \in Fds, Purge(j) \/ Skip(j)
      PROVE  Bookkeeping(i)' /\ Chained(i)'
  <2>1. /\ turn = j /\ turn' = After(j) /\ UNCHANGED <<client, wire, carrier>>
        /\ ~Updated(j) /\ ~Lost(j)'
        /\ j # i => state'[i] = state[i]
        /\ i > conn_set_max => state'[i] = state[i] \/ state'[i] = "EMPTY"
    BY <1>1, <1>3 DEF Purge, Skip, TypeOK, Lost, Updated
  <2>2. turn # Dead /\ turn' # Dead /\ (i # j /\ Pending(i) => Pending(i)')
    BY <1>1, <2>1, TurnMoves DEF carrier
  <2>3. CASE i = j
    <3>1. Bookkeeping(i)'
      BY <1>1, <2>1 DEF Bookkeeping, TypeOK, client, wire, carrier
    <3>2. Follows(got[i], outbox[i])' /\ Sent(i)' = Sent(i)
      <4>1. got' = got /\ outbox' = outbox
        BY <2>1 DEF client, wire
      <4> QED  BY <1>1, <4>1 DEF Chained, Follows, Sent, EndOf
    <3>3. ~Lost(i)' /\ ~Updated(i)
      BY <2>1, <2>3 DEF Lost, Updated
    <3>4. conn[i] = "open" => last_req[i] = Sent(i)
      BY <1>1, <2>2, <3>3 DEF Chained
    <3>5. Chained(i)'
      BY <1>1, <2>1, <2>2, <3>2, <3>3, <3>4 DEF Chained, client, wire, carrier
    <3> QED  BY <3>1, <3>5
  <2>4. CASE i # j
    BY <1>1, <1>3, <2>1, <2>2, <2>4, ChainKept DEF Purge, Skip, TypeOK, client, wire, carrier
  <2> QED  BY <2>3, <2>4
<1>4. ASSUME NEW j \in Fds, Serve(j)
      PROVE  Bookkeeping(i)' /\ Chained(i)'
  <2>1. CASE i # j
    <3>1. /\ turn = j /\ turn' = After(j) /\ UNCHANGED <<client, inbox, reset, carrier, state>>
          /\ outbox'[i] = outbox[i]
      BY <1>1, <1>4, <2>1 DEF Serve, TypeOK
    <3>2. turn # Dead /\ turn' # Dead /\ (Pending(i) => Pending(i)')
      BY <1>1, <2>1, <3>1, TurnMoves DEF carrier
    <3> QED  BY <1>1, <3>1, <3>2, ChainKept DEF client, carrier
  <2> QED  BY <1>1, <1>4, <2>1, ChainServe
<1>5. ASSUME NEW j \in Fds, ServeFails(j)
      PROVE  Bookkeeping(i)' /\ Chained(i)'
  <2>1. /\ turn = j /\ UNCHANGED <<client, wire, carrier>> /\ conn[j] = "closed" /\ Updated(j)
        /\ turn' # Dead => turn' = After(j)
        /\ j # i => state'[i] = state[i]
        /\ j \in Nat /\ j <= conn_set_max
    BY <1>1, <1>5 DEF ServeFails, TypeOK, Dead
  <2>2. turn # Dead /\ (turn' # Dead /\ i # j /\ Pending(i) => Pending(i)')
    <3>1. turn # Dead
      BY <2>1 DEF Dead
    <3> QED  BY <1>1, <2>1, <3>1, TurnMoves DEF carrier
  <2>3. CASE i = j
    BY <1>1, <2>1, <2>2, <2>3 DEF Bookkeeping, Chained, TypeOK, client, wire, carrier
  <2>4. CASE i # j
    BY <1>1, <2>1, <2>2, <2>4, ChainKept DEF client, wire, carrier
  <2> QED  BY <2>3, <2>4
<1>6. ASSUME NEW j \in Fds, Connect(j)
      PROVE  Bookkeeping(i)' /\ Chained(i)'
  <2>1. CASE i = j
    <3>1. /\ conn[i] = "none" /\ conn'[i] = "open"
          /\ UNCHANGED <<asked, waiting, got, wire, carrier, state, turn, purged>>
      BY <1>1, <1>6, <2>1 DEF Connect, TypeOK
    <3>2. /\ i > conn_set_max /\ last_n[i] = 0 /\ state[i] = "EMPTY" /\ asked[i] = 0 /\ got[i] = 0
          /\ inbox[i] = <<>> /\ outbox[i] = <<>>
      BY <1>1, <3>1 DEF Bookkeeping, TypeOK
    <3>3. last_req[i] = 0
      <4>1. last_req[i] \in Nat /\ last_req[i] + 0 = 0
        BY <1>1, <3>2 DEF Bookkeeping, TypeOK
      <4> QED  BY <4>1
    <3>4. Bookkeeping(i)'
      BY <1>1, <3>1, <3>2 DEF Bookkeeping, wire, carrier
    <3>5. Chained(i)'
      BY <1>1, <3>1, <3>2, <3>3 DEF Chained, Sent, EndOf, Follows, Lost, wire, carrier
    <3> QED  BY <3>4, <3>5
  <2>2. CASE i # j
    BY <1>1, <1>6, <2>2, ChainKept DEF Connect, TypeOK, Pending, wire, carrier
  <2> QED  BY <2>1, <2>2
<1>7. ASSUME NEW j \in Fds, Ask(j)
      PROVE  Bookkeeping(i)' /\ Chained(i)'
  <2>1. CASE i # j
    BY <1>1, <1>7, <2>1, ChainKept DEF Ask, TypeOK, Pending, carrier
  <2> QED  BY <1>1, <1>7, <2>1, ChainAsk
<1>8. ASSUME NEW j \in Fds, Take(j)
      PROVE  Bookkeeping(i)' /\ Chained(i)'
  <2>1. CASE i # j
    BY <1>1, <1>8, <2>1, ChainKept DEF Take, TypeOK, Pending, carrier
  <2> QED  BY <1>1, <1>8, <2>1, ChainTake
<1>9. ASSUME NEW j \in Fds, TakeNothing(j)
      PROVE  Bookkeeping(i)' /\ Chained(i)'
  <2>1. CASE i # j
    BY <1>1, <1>9, <2>1, ChainKept DEF TakeNothing, TypeOK, Pending, wire, carrier
  <2>2. CASE i = j
    <3>1. /\ turn = Dead /\ turn' = Dead /\ outbox[i] = <<>> /\ outbox' = outbox
          /\ UNCHANGED <<conn, asked, wire, carrier, state>> /\ waiting'[i] = FALSE
          /\ got'[i] = got[i] \/ (got'[i] = Failed /\ inbox[i] # <<>>)
      BY <1>1, <1>9, <2>2 DEF TakeNothing, TypeOK, wire
    <3>2. Bookkeeping(i)'
      BY <1>1, <3>1 DEF Bookkeeping, wire, carrier
    <3>3. Chained(i)'
      BY <1>1, <3>1 DEF Chained, Follows
    <3> QED  BY <3>2, <3>3
  <2> QED  BY <2>1, <2>2
<1>10. ASSUME NEW j \in Fds, Close(j)
       PROVE  Bookkeeping(i)' /\ Chained(i)'
  <2>1. CASE i # j
    BY <1>1, <1>10, <2>1, ChainKept DEF Close, TypeOK, Pending, carrier
  <2>2. CASE i = j
    <3>1. /\ conn[i] = "open" /\ conn'[i] = "closed" /\ outbox'[i] = <<>> /\ waiting'[i] = FALSE
          /\ UNCHANGED <<asked, got, inbox, carrier, state, turn, purged>>
      BY <1>1, <1>10, <2>2 DEF Close, TypeOK
    <3>2. Bookkeeping(i)'
      BY <1>1, <3>1 DEF Bookkeeping, carrier
    <3>3. Chained(i)'
      BY <1>1, <3>1 DEF Chained, Follows
    <3> QED  BY <3>2, <3>3
  <2> QED  BY <2>1, <2>2
<1>11. CASE UNCHANGED vars
  BY <1>1, <1>11, ChainKept DEF vars, client, wire, carrier, Pending
<1> QED  BY <1>2, <1>3, <1>4, <1>5, <1>6, <1>7, <1>8, <1>9, <1>10, <1>11 DEF Next, Daemon, Replied

LEMMA ChainHolds == Init => ChainInv
<1> SUFFICES ASSUME Init PROVE ChainInv
  OBVIOUS
<1>1. TypeOK
  BY FdFacts DEF Init, TypeOK, Waits
<1>2. ASSUME NEW i \in Fds
      PROVE  Bookkeeping(i) /\ Chained(i)
  BY <1>1, FdFacts DEF Init, Bookkeeping, Numbered, Chained, Follows, Sent, EndOf, Lost, Failed, TypeOK
<1> QED  BY <1>1, <1>2 DEF ChainInv

(* However the clients' calls interleave, no client is sent a reply that    *)
(* skips one of its requests.                                               *)
THEOREM NoSkip == Spec => []NoRequestSkipped
<1>1. ChainInv => NoRequestSkipped
  <2> SUFFICES ASSUME ChainInv, NEW i \in Fds,
                      NEW k \in 2 .. Len(<<got[i]>> \o outbox[i]),
                      (<<got[i]>> \o outbox[i])[k - 1] # Failed
               PROVE  (<<got[i]>> \o outbox[i])[k] - (<<got[i]>> \o outbox[i])[k - 1] \in {0, 1}
    BY DEF NoRequestSkipped
  <2>1. outbox[i] \in Seq(Nat) /\ got[i] \in Nat \cup {Failed} /\ Follows(got[i], outbox[i])
    BY DEF ChainInv, Chained, TypeOK
  <2>2. k - 1 \in 1 .. Len(outbox[i]) /\ (<<got[i]>> \o outbox[i])[k] = outbox[i][k - 1]
    BY <2>1 DEF Failed
  <2>3. (<<got[i]>> \o outbox[i])[k - 1] = IF k - 1 = 1 THEN got[i] ELSE outbox[i][(k - 1) - 1]
    BY <2>1 DEF Failed
  <2> QED  BY <2>1, <2>2, <2>3 DEF Follows
<1> QED  BY <1>1, ChainHolds, ChainStep, PTL DEF Spec

(* A client that has the daemon for itself has one request or reply under   *)
(* way when it waits and none when it does not.                             *)
Alone(i) == \A j \in Fds \ {i} : conn[j] = "none"
UnderWay(i) == Len(inbox[i]) + Len(outbox[i]) + (IF Pending(i) /\ Updated(i) THEN 1 ELSE 0)
OneAtATime(i) ==
    Alone(i) /\ conn[i] = "open" /\ turn # Dead =>
        /\ UnderWay(i) = IF waiting[i] THEN 1 ELSE 0
        /\ outbox[i] # <<>> => outbox[i][1] = asked[i]
        /\ ~waiting[i] => got[i] = asked[i]
AloneInv == ChainInv /\ \A i \in Fds : OneAtATime(i)

(* A client alone: its own descriptor is the first.                         *)
LEMMA AloneIsFirst ==
    ASSUME ChainInv, NEW i \in Fds, Alone(i), conn[i] = "open", NEW j \in Fds, j <= conn_set_max
    PROVE  j = i
  BY DEF ChainInv, Bookkeeping, Alone

LEMMA AloneUpdate ==
    ASSUME ChainInv, Update, NEW i \in Fds, OneAtATime(i)
    PROVE  OneAtATime(i)'
<1> USE FdFacts
<1>1. /\ TypeOK /\ Bookkeeping(i) /\ Chained(i)
      /\ conn' = conn /\ asked' = asked /\ got' = got /\ waiting' = waiting /\ outbox' = outbox
      /\ turn = Sock /\ turn' = Sock + 1 /\ Alone(i)' = Alone(i)
  BY DEF ChainInv, Update, client, Alone
<1> SUFFICES ASSUME Alone(i), conn[i] = "open"
             PROVE  UnderWay(i)' = UnderWay(i)
  BY <1>1 DEF OneAtATime, Dead
<1>2. /\ conn_set_max \in Nat /\ conn_set \subseteq Sock + 1 .. conn_set_max
      /\ inbox[i] \in Seq(Nat) /\ outbox[i] \in Seq(Nat)
      /\ conn_set_max' = IF Knocking THEN conn_set_max + 1 ELSE conn_set_max
  BY <1>1 DEF Update, TypeOK
<1>3. ~Pending(i) /\ ~Lost(i) /\ UnderWay(i) = Len(inbox[i]) + Len(outbox[i])
  <2>1. ~Pending(i)
    BY <1>1, <1>2 DEF Pending
  <2>2. ~Lost(i)
    BY <1>1, <2>1 DEF Chained, Dead
  <2>3. Len(inbox[i]) \in Nat /\ Len(outbox[i]) \in Nat
    BY <1>2, LengthTyped
  <2> QED  BY <2>1, <2>2, <2>3 DEF UnderWay
<1>4. CASE i \in Readable
  <2>1. i <= conn_set_max /\ inbox[i] # <<>> /\ last_n'[i] = 1
    BY <1>1, <1>2, <1>4, UpdateFacts DEF Readable, Received
  <2>2. Pending(i)'
    BY <1>1, <1>2, <2>1 DEF Pending
  <2>3. state'[i] = "CONNECTED" /\ inbox'[i] = Tail(inbox[i])
    <3>1. state[i] \in {"EMPTY", "CONNECTED"}
      BY <1>1, <1>3 DEF Lost, TypeOK
    <3>2. state'[i] = Classify(state[i], 1)
      BY <1>1, <2>1, UpdateFacts
    <3> QED  BY <1>1, <1>4, <2>1, <3>1, <3>2, UpdateFacts DEF Classify
  <2>4. Len(inbox'[i]) = Len(inbox[i]) - 1 /\ Len(inbox[i]) \in Nat /\ Len(outbox[i]) \in Nat
    BY <1>2, <2>1, <2>3, LengthTyped
  <2>5. UnderWay(i)' = Len(inbox'[i]) + Len(outbox[i]) + 1
    <3>1. Updated(i)' /\ outbox' = outbox
      BY <1>1, <2>1, <2>3 DEF Updated
    <3> QED  BY <2>2, <3>1 DEF UnderWay
  <2> QED  BY <1>3, <2>4, <2>5
<1>5. CASE i \notin Readable
  <2>1. Readable = {}
    <3> SUFFICES ASSUME NEW j \in Readable PROVE FALSE
      OBVIOUS
    <3>1. j \in Fds /\ j <= conn_set_max
      BY <1>1, <1>2 DEF Readable, TypeOK, Fds
    <3> QED  BY <1>5, <3>1, AloneIsFirst
  <2>2. Knocking /\ conn_set_max + 1 \in Fds
    BY <1>1, <2>1 DEF Update, Knocking, Fds, TypeOK
  <2>3. i = conn_set_max + 1
    BY <2>2 DEF Knocking, Alone
  <2>4. last_n[i] = 0
    BY <1>1, <1>2, <2>3 DEF Bookkeeping
  <2>5. inbox'[i] = inbox[i] /\ ~Updated(i)'
    BY <1>5, <1>1, <2>4, UpdateFacts DEF Updated, Kept
  <2>6. UnderWay(i)' = Len(inbox[i]) + Len(outbox[i]) + 0
    BY <1>1, <2>5 DEF UnderWay
  <2> QED  BY <1>2, <1>3, <2>6
<1> QED  BY <1>4, <1>5

LEMMA NoneOrOne ==
    ASSUME NEW a \in Nat, NEW b \in Nat, NEW c \in {0, 1}
    PROVE  /\ a + b + c = 0 => a = 0 /\ b = 0 /\ c = 0
           /\ a + b + c = 1 /\ c = 1 => a = 0 /\ b = 0
           /\ a + b + c = 1 /\ b > 0 => a = 0 /\ b = 1 /\ c = 0
           /\ c = 1 => a + b + c # 0
OBVIOUS

LEMMA AloneServe ==
    ASSUME ChainInv, NEW i \in Fds, Serve(i), OneAtATime(i)
    PROVE  OneAtATime(i)'
<1> USE FdFacts
<1>1. /\ TypeOK /\ Bookkeeping(i) /\ Chained(i) /\ turn = i /\ Updated(i)
      /\ turn' = After(i) /\ outbox'[i] = Append(outbox[i], last_req[i])
      /\ UNCHANGED <<client, inbox, reset, carrier, state, purged>>
      /\ inbox[i] \in Seq(Nat) /\ outbox[i] \in Seq(Nat) /\ last_req[i] \in Nat /\ asked[i] \in Nat
  BY DEF ChainInv, Serve, TypeOK
<1> SUFFICES ASSUME Alone(i), conn[i] = "open"
             PROVE  OneAtATime(i)'
  BY <1>1 DEF OneAtATime, Alone, client
<1>2. Pending(i) /\ turn # Dead /\ ~Pending(i)'
  BY <1>1 DEF Pending, TypeOK, After, carrier
<1>3. Len(inbox[i]) \in Nat /\ Len(outbox[i]) \in Nat /\ waiting[i] \in BOOLEAN
  BY <1>1, LengthTyped DEF TypeOK
<1>4. UnderWay(i) = Len(inbox[i]) + Len(outbox[i]) + 1
  BY <1>1, <1>2 DEF UnderWay
<1>5. waiting[i] /\ Len(inbox[i]) = 0 /\ Len(outbox[i]) = 0
  <2>1. UnderWay(i) \in {0, 1} /\ (UnderWay(i) = 1 => waiting[i])
    BY <1>2 DEF OneAtATime
  <2>2. /\ Len(inbox[i]) + Len(outbox[i]) + 1 # 0
        /\ Len(inbox[i]) + Len(outbox[i]) + 1 = 1 => Len(inbox[i]) = 0 /\ Len(outbox[i]) = 0
    BY <1>3, NoneOrOne
  <2> QED  BY <1>4, <2>1, <2>2
<1>6. last_req[i] = asked[i]
  BY <1>1, <1>5 DEF Bookkeeping
<1>7. Len(outbox'[i]) = 1 /\ outbox'[i][1] = asked[i]
  BY <1>1, <1>5, <1>6
<1>8. UnderWay(i)' = 0 + 1 + 0
  BY <1>1, <1>2, <1>5, <1>7 DEF UnderWay
<1> QED  BY <1>1, <1>5, <1>7, <1>8 DEF OneAtATime, client

LEMMA AloneTake ==
    ASSUME ChainInv, NEW i \in Fds, Take(i), OneAtATime(i)
    PROVE  OneAtATime(i)'
<1>1. /\ outbox[i] \in Seq(Nat) /\ inbox[i] \in Seq(Nat) /\ outbox[i] # <<>> /\ waiting[i]
      /\ got'[i] = Head(outbox[i]) /\ outbox'[i] = Tail(outbox[i]) /\ ~waiting'[i]
      /\ UNCHANGED <<conn, asked, inbox, reset, carrier, state, turn, purged>>
  BY DEF ChainInv, Take, TypeOK
<1> SUFFICES ASSUME Alone(i), conn[i] = "open", turn # Dead
             PROVE  OneAtATime(i)'
  BY <1>1 DEF OneAtATime, Alone
<1> DEFINE u == IF Pending(i) /\ Updated(i) THEN 1 ELSE 0
<1>2. Len(inbox[i]) \in Nat /\ Len(outbox[i]) \in Nat /\ Len(outbox[i]) > 0 /\ u \in {0, 1}
  BY <1>1, LengthTyped
<1>3. Len(inbox[i]) + Len(outbox[i]) + u = 1
  BY <1>1 DEF OneAtATime, UnderWay
<1>4. u' = u /\ inbox' = inbox
  BY <1>1 DEF Pending, Updated, carrier
<1>5. UnderWay(i)' = Len(inbox'[i]) + Len(outbox'[i]) + u'
  BY DEF UnderWay
<1> HIDE DEF u
<1>6. Len(inbox[i]) = 0 /\ Len(outbox[i]) = 1 /\ u = 0
  BY <1>2, <1>3, NoneOrOne
<1>7. outbox'[i] = <<>> /\ Len(outbox'[i]) = 0 /\ got'[i] = asked[i]
  <2>1. Head(outbox[i]) = outbox[i][1] /\ Tail(outbox[i]) = <<>>
    <3> DEFINE q == outbox[i]
    <3>1. q \in Seq(Nat) /\ q # <<>> /\ Len(q) = 1
      BY <1>1, <1>6
    <3> HIDE DEF q
    <3>2. Head(q) = q[1] /\ Tail(q) \in Seq(Nat) /\ Len(Tail(q)) = 0
      BY <3>1
    <3> QED  BY <3>2, LengthTyped DEF q
  <2>2. outbox'[i] = <<>> /\ Len(<<>>) = 0
    BY <1>1, <2>1
  <2>3. outbox[i][1] = asked[i]
    BY <1>1 DEF OneAtATime
  <2> QED  BY <1>1, <2>1, <2>2, <2>3
<1>8. UnderWay(i)' = 0
  BY <1>4, <1>5, <1>6, <1>7
<1> QED  BY <1>1, <1>7, <1>8 DEF OneAtATime

LEMMA AloneAsk ==
    ASSUME ChainInv, NEW i \in Fds, Ask(i), OneAtATime(i)
    PROVE  OneAtATime(i)'
<1>1. /\ outbox[i] \in Seq(Nat) /\ inbox[i] \in Seq(Nat) /\ ~waiting[i] /\ waiting'[i]
      /\ inbox'[i] = Append(inbox[i], asked'[i]) /\ turn # Dead /\ conn[i] = "open"
      /\ UNCHANGED <<conn, got, outbox, reset, carrier, state, turn, purged>>
  BY DEF ChainInv, Ask, TypeOK
<1> SUFFICES ASSUME Alone(i)
             PROVE  OneAtATime(i)'
  BY <1>1 DEF OneAtATime, Alone
<1> DEFINE u == IF Pending(i) /\ Updated(i) THEN 1 ELSE 0
<1>2. Len(inbox[i]) \in Nat /\ Len(outbox[i]) \in Nat /\ u \in {0, 1}
      /\ Len(inbox'[i]) = Len(inbox[i]) + 1
  BY <1>1, LengthTyped
<1>3. Len(inbox[i]) + Len(outbox[i]) + u = 0
  BY <1>1 DEF OneAtATime, UnderWay
<1>4. u' = u /\ outbox' = outbox
  BY <1>1 DEF Pending, Updated, carrier
<1>5. UnderWay(i)' = Len(inbox'[i]) + Len(outbox'[i]) + u'
  BY DEF UnderWay
<1> HIDE DEF u
<1>6. outbox[i] = <<>>
  <2>1. Len(outbox[i]) = 0
    BY <1>2, <1>3, NoneOrOne
  <2> QED  BY <1>1, <2>1
<1>7. UnderWay(i)' = 1
  <2>1. Len(inbox[i]) = 0 /\ Len(outbox[i]) = 0 /\ u = 0
    BY <1>2, <1>3, NoneOrOne
  <2> QED  BY <1>2, <1>4, <1>5, <2>1
<1> QED  BY <1>1, <1>4, <1>6, <1>7 DEF OneAtATime

LEMMA AloneStep == AloneInv /\ [Next]_vars => AloneInv'
<1> USE FdFacts
<1> SUFFICES ASSUME AloneInv, [Next]_vars, NEW i \in Fds
             PROVE  OneAtATime(i)'
  BY ChainStep DEF AloneInv
<1>1. ChainInv /\ TypeOK /\ Bookkeeping(i) /\ Chained(i) /\ OneAtATime(i)
  BY DEF AloneInv, ChainInv
<1>2. CASE Update
  BY <1>1, <1>2, AloneUpdate
<1>3. ASSUME NEW j \in Fds, Purge(j) \/ Skip(j)
      PROVE  OneAtATime(i)'
  <2>1. /\ turn = j /\ j <= conn_set_max /\ UNCHANGED <<client, wire, carrier>>
        /\ ~Updated(j) /\ ~Updated(j)'
    BY <1>1, <1>3 DEF Purge, Skip, TypeOK, Lost, Updated, carrier, Dead
  <2> SUFFICES ASSUME Alone(i), conn[i] = "open"
               PROVE  OneAtATime(i)'
    BY <2>1 DEF OneAtATime, Alone, client
  <2>2. j = i
    BY <1>1, <2>1, AloneIsFirst
  <2>3. ~Updated(i) /\ ~Updated(i)' /\ inbox' = inbox /\ outbox' = outbox /\ turn # Dead
    BY <2>1, <2>2 DEF Updated, wire
  <2>4. UnderWay(i)' = UnderWay(i)
    BY <2>3 DEF UnderWay
  <2> QED  BY <1>1, <2>1, <2>3, <2>4 DEF OneAtATime, client
<1>4. ASSUME NEW j \in Fds, Serve(j)
      PROVE  OneAtATime(i)'
  <2>1. turn = j /\ j <= conn_set_max /\ UNCHANGED client
    BY <1>1, <1>4 DEF Serve, TypeOK, Dead
  <2>2. CASE Alone(i) /\ conn[i] = "open"
    <3>1. j = i
      BY <1>1, <2>1, <2>2, AloneIsFirst
    <3> QED  BY <1>1, <1>4, <3>1, AloneServe
  <2> QED  BY <2>1, <2>2 DEF OneAtATime, Alone, client
<1>5. ASSUME NEW j \in Fds, ServeFails(j)
      PROVE  OneAtATime(i)'
  <2>1. conn[j] = "closed" /\ conn' = conn
    BY <1>5 DEF ServeFails, client
  <2> QED  BY <2>1 DEF OneAtATime, Alone
<1>6. ASSUME NEW j \in Fds, Connect(j)
      PROVE  OneAtATime(i)'
  <2>1. CASE i = j
    <3>1. /\ conn[i] = "none" /\ conn'[i] = "open" /\ i > conn_set_max
          /\ UNCHANGED <<asked, waiting, got, wire, carrier, state, turn, purged>>
      BY <1>1, <1>6, <2>1 DEF Connect, TypeOK, Bookkeeping
    <3>2. inbox'[i] = <<>> /\ outbox'[i] = <<>> /\ ~Pending(i)'
      BY <1>1, <3>1 DEF Bookkeeping, Pending, wire, carrier, TypeOK
    <3>3. UnderWay(i)' = 0
      BY <3>2 DEF UnderWay
    <3> QED  BY <1>1, <3>1, <3>2, <3>3 DEF OneAtATime, Bookkeeping
  <2>2. CASE i # j
    <3>1. conn'[j] = "open"
      BY <1>1, <1>6 DEF Connect, TypeOK
    <3> QED  BY <2>2, <3>1 DEF OneAtATime, Alone
  <2> QED  BY <2>1, <2>2
<1>7. ASSUME NEW j \in Fds, Ask(j)
      PROVE  OneAtATime(i)'
  <2>1. CASE i # j
    BY <1>7, <2>1 DEF Ask, OneAtATime, Alone
  <2> QED  BY <1>1, <1>7, <2>1, AloneAsk
<1>8. ASSUME NEW j \in Fds, Take(j)
      PROVE  OneAtATime(i)'
  <2>1. CASE i # j
    <3>1. conn[j] # "none" /\ conn' = conn
      BY <1>1, <1>8 DEF AloneInv, ChainInv, Bookkeeping, Take
    <3> QED  BY <2>1, <3>1 DEF OneAtATime, Alone
  <2> QED  BY <1>1, <1>8, <2>1, AloneTake
<1>9. ASSUME NEW j \in Fds, TakeNothing(j)
      PROVE  OneAtATime(i)'
  BY <1>9 DEF TakeNothing, OneAtATime
<1>10. ASSUME NEW j \in Fds, Close(j)
       PROVE  OneAtATime(i)'
  <2>1. conn'[j] = "closed"
    BY <1>1, <1>10 DEF Close, TypeOK
  <2> QED  BY <2>1 DEF OneAtATime, Alone
<1>11. CASE UNCHANGED vars
  <2>1. UnderWay(i)' = UnderWay(i)
    BY <1>11 DEF vars, client, wire, carrier, UnderWay, Pending, Updated
  <2> QED  BY <1>1, <1>11, <2>1 DEF vars, client, wire, OneAtATime, Alone
<1> QED  BY <1>2, <1>3, <1>4, <1>5, <1>6, <1>7, <1>8, <1>9, <1>10, <1>11 DEF Next, Daemon, Replied

(* A client nobody ever shared the daemon with gets the reply to its own    *)
(* request from every call that returns.                                    *)
THEOREM AloneIsAnswered == Spec => []RepliesMatchAlone
<1>1. Init => AloneInv
  <2>1. Init => ChainInv
    BY ChainHolds
  <2> QED  BY <2>1 DEF AloneInv, Init, OneAtATime
<1>2. AloneInv => RepliesMatchAlone
  BY DEF AloneInv, OneAtATime, Alone, RepliesMatchAlone
<1> QED  BY <1>1, <1>2, AloneStep, PTL DEF Spec

----------------------------------------------------------------------------
(* NO CALL IS FORGOTTEN *)

(* A client the daemon counts as connected, or remembers reading from, is   *)
(* in the set select is given, and so is every client that is there and was *)
(* accepted; clients come in the order of their descriptors; and a call is  *)
(* in one of the client's two queues or before the loop.                    *)
OnItsWay(i) ==
    /\ state[i] = "CONNECTED" \/ last_n[i] # 0 => i \in conn_set
    /\ conn[i] = "open" /\ i <= conn_set_max => i \in conn_set
    /\ waiting[i] => conn[i] = "open"
    /\ conn[i] # "none" => \A j \in Fds : j < i => conn[j] # "none"
    /\ waiting[i] /\ turn # Dead =>
          outbox[i] # <<>> \/ inbox[i] # <<>> \/ (Pending(i) /\ Updated(i))

CallInv == ChainInv /\ \A i \in Fds : OnItsWay(i)

(* A step that is not about client i leaves its call on its way.            *)
LEMMA OnItsWayKept ==
    ASSUME NEW i \in Fds, OnItsWay(i),
           UNCHANGED <<conn[i], waiting[i], inbox[i], outbox[i]>>,
           UNCHANGED <<last_n[i], state[i], conn_set, conn_set_max>>,
           \A j \in Fds : conn[j] # "none" => conn'[j] # "none",
           turn' # Dead => turn # Dead,
           turn' # Dead /\ Updated(i) /\ Pending(i) => Pending(i)'
    PROVE  OnItsWay(i)'
BY DEF OnItsWay, Updated

(* An update takes a call from the queue of the socket to the loop.         *)
LEMMA OnItsWayUpdate ==
    ASSUME CallInv, Update, NEW i \in Fds
    PROVE  OnItsWay(i)'
<1> USE FdFacts
<1>1. TypeOK /\ Bookkeeping(i) /\ Chained(i) /\ OnItsWay(i)
  BY DEF CallInv, ChainInv
<1>2. /\ conn_set_max \in Nat /\ conn_set \subseteq Sock + 1 .. conn_set_max /\ i \in Nat
      /\ last_n[i] \in {-1, 0, 1}
      /\ state[i] \in {"EMPTY", "CONNECTED", "DISCONNECTED", "ERROR"}
  BY <1>1 DEF TypeOK
<1>3. /\ conn' = conn /\ waiting' = waiting /\ outbox' = outbox
      /\ turn = Sock /\ turn' = Sock + 1
      /\ conn_set_max' = IF Knocking THEN conn_set_max + 1 ELSE conn_set_max
      /\ Knocking => conn_set_max + 1 \in conn_set'
  BY DEF Update, client
<1>4. i \in Readable => i \in conn_set /\ i <= conn_set_max /\ last_n'[i] = Received(i)
  BY <1>1, <1>2, UpdateFacts, ReadFacts
<1>5. i \notin Readable => last_n'[i] \in {0, last_n[i]} /\ inbox'[i] = inbox[i]
  BY <1>1, UpdateFacts DEF Kept
<1>6. state'[i] = IF i <= conn_set_max THEN Classify(state[i], last_n'[i]) ELSE state[i]
  BY <1>1, UpdateFacts
<1>7. i \in conn_set /\ (i \notin Readable \/ last_n'[i] # 0) => i \in conn_set'
  BY <1>1, ReadFacts
<1>8. state'[i] = "CONNECTED" \/ last_n'[i] # 0 => i \in conn_set'
  <2>1. CASE i \in Readable
    <3>1. last_n'[i] = 0 => state'[i] # "CONNECTED"
      BY <1>4, <1>6, <2>1 DEF Classify
    <3> QED  BY <1>4, <1>7, <2>1, <3>1
  <2>2. CASE i \notin Readable /\ i \notin conn_set
    <3>1. last_n'[i] = 0 /\ state[i] # "CONNECTED"
      BY <1>1, <1>5, <2>2 DEF OnItsWay
    <3> QED  BY <1>6, <3>1 DEF Classify
  <2> QED  BY <1>7, <2>1, <2>2
<1>9. i \in Readable /\ conn[i] = "open" => inbox[i] # <<>> /\ last_n'[i] = 1
  BY <1>4 DEF Readable, Received
<1>10. conn[i] = "open" /\ i <= conn_set_max' => i \in conn_set'
  <2>1. CASE i <= conn_set_max
    BY <1>1, <1>7, <1>9, <2>1 DEF OnItsWay
  <2>2. CASE ~(i <= conn_set_max)
    BY <1>2, <1>3, <2>2
  <2> QED  BY <2>1, <2>2
<1>11. ASSUME waiting[i]
       PROVE  outbox[i] # <<>> \/ inbox'[i] # <<>> \/ (Pending(i) /\ Updated(i))'
  <2>1. ~Pending(i) /\ conn[i] = "open" /\ turn # Dead
    BY <1>1, <1>2, <1>3, <1>11 DEF Pending, OnItsWay
  <2>2. outbox[i] # <<>> \/ inbox[i] # <<>>
    BY <1>1, <1>11, <2>1 DEF OnItsWay
  <2>3. CASE i \in Readable
    <3>1. state[i] \in {"EMPTY", "CONNECTED"}
      BY <1>1, <1>2, <2>1 DEF Chained, Lost
    <3>2. last_n'[i] = 1 /\ i <= conn_set_max
      BY <1>4, <1>9, <2>1, <2>3
    <3>3. state'[i] = "CONNECTED"
      BY <1>6, <3>1, <3>2 DEF Classify
    <3>4. Pending(i)'
      BY <1>2, <1>3, <3>2 DEF Pending
    <3> QED  BY <3>2, <3>3, <3>4 DEF Updated
  <2>4. CASE i \notin Readable
    BY <1>5, <2>2, <2>4
  <2> QED  BY <2>3, <2>4
<1> QED  BY <1>1, <1>3, <1>8, <1>10, <1>11 DEF OnItsWay

LEMMA OnItsWayStep == CallInv /\ [Next]_vars => CallInv'
<1> USE FdFacts
<1> SUFFICES ASSUME CallInv, [Next]_vars, NEW i \in Fds
             PROVE  OnItsWay(i)'
  BY ChainStep DEF CallInv
<1>1. TypeOK /\ Bookkeeping(i) /\ Chained(i) /\ OnItsWay(i)
  BY DEF CallInv, ChainInv
<1>2. CASE Update
  BY <1>2, OnItsWayUpdate
<1>3. ASSUME NEW j \in Fds, Purge(j) \/ Skip(j) \/ Serve(j)
      PROVE  OnItsWay(i)'
  <2>1. /\ turn = j /\ turn' = After(j) /\ UNCHANGED <<client, inbox, carrier>>
        /\ j # i => state'[i] = state[i] /\ outbox'[i] = outbox[i]
    BY <1>1, <1>3 DEF Purge, Skip, Serve, TypeOK, wire
  <2>2. turn # Dead /\ turn' # Dead /\ (i # j /\ Pending(i) => Pending(i)')
    BY <1>1, <2>1, TurnMoves DEF carrier
  <2>3. CASE i = j
    <3>1. CASE Serve(j)
      <4>1. outbox'[i] # <<>> /\ state' = state
        <5>1. /\ outbox'[i] = Append(outbox[i], last_req[i])
              /\ outbox[i] \in Seq(Nat) /\ last_req[i] \in Nat
          BY <1>1, <2>3, <3>1 DEF Serve, TypeOK
        <5>2. outbox'[i] # <<>>
          BY <5>1, AppendedNotEmpty
        <5> QED  BY <3>1, <5>2 DEF Serve
      <4> QED  BY <1>1, <2>1, <4>1 DEF OnItsWay, client, carrier
    <3>2. CASE Purge(j) \/ Skip(j)
      <4>1. ~Updated(i) /\ outbox' = outbox /\ state'[i] \in {"EMPTY", state[i]}
        BY <1>1, <2>3, <3>2 DEF Purge, Skip, Lost, Updated, TypeOK, wire
      <4> QED  BY <1>1, <2>1, <2>2, <4>1 DEF OnItsWay, client, carrier
    <3> QED  BY <1>3, <3>1, <3>2
  <2>4. CASE i # j
    BY <1>1, <2>1, <2>2, <2>4, OnItsWayKept DEF client, carrier
  <2> QED  BY <2>3, <2>4
<1>4. ASSUME NEW j \in Fds, ServeFails(j)
      PROVE  OnItsWay(i)'
  <2>1. /\ turn = j /\ UNCHANGED <<client, wire, carrier>> /\ conn[j] = "closed"
        /\ turn' # Dead => turn' = After(j)
        /\ j # i => state'[i] = state[i]
        /\ state'[i] \in {"ERROR", state[i]}
    BY <1>1, <1>4 DEF ServeFails, TypeOK
  <2>2. turn # Dead /\ (turn' # Dead /\ i # j /\ Pending(i) => Pending(i)')
    <3>1. turn # Dead
      BY <2>1 DEF Dead
    <3> QED  BY <1>1, <2>1, <3>1, TurnMoves DEF carrier
  <2>3. CASE i = j
    <3>1. ~waiting[i] /\ conn[i] = "closed"
      BY <1>1, <2>1, <2>3 DEF OnItsWay
    <3> QED  BY <1>1, <2>1, <3>1 DEF OnItsWay, client, wire, carrier
  <2>4. CASE i # j
    BY <1>1, <2>1, <2>2, <2>4, OnItsWayKept DEF client, wire, carrier
  <2> QED  BY <2>3, <2>4
<1>5. ASSUME NEW j \in Fds, Connect(j)
      PROVE  OnItsWay(i)'
  <2>1. /\ conn[j] = "none" /\ \A k \in Fds : k < j => conn[k] # "none"
        /\ \A k \in Fds : conn'[k] = IF k = j THEN "open" ELSE conn[k]
        /\ UNCHANGED <<waiting, wire, carrier, state, turn>>
    BY <1>1, <1>5 DEF Connect, TypeOK
  <2>2. CASE i = j
    <3>1. i > conn_set_max /\ ~waiting[i]
      BY <1>1, <2>1, <2>2 DEF Bookkeeping, OnItsWay, TypeOK
    <3>2. ~(i <= conn_set_max)
      BY <1>1, <3>1 DEF TypeOK
    <3>3. UNCHANGED <<waiting[i], state[i], last_n[i], conn_set, conn_set_max>>
      BY <2>1 DEF carrier
    <3>4. \A k \in Fds : k < i => conn'[k] # "none"
      BY <2>1, <2>2
    <3>5. state[i] = "CONNECTED" \/ last_n[i] # 0 => i \in conn_set
      BY <1>1 DEF OnItsWay
    <3> QED  BY <3>1, <3>2, <3>3, <3>4, <3>5 DEF OnItsWay
  <2>3. CASE i # j
    BY <1>1, <2>1, <2>3, OnItsWayKept DEF wire, carrier, Pending
  <2> QED  BY <2>2, <2>3
<1>6. ASSUME NEW j \in Fds, Ask(j)
      PROVE  OnItsWay(i)'
  <2>1. /\ conn[j] = "open" /\ UNCHANGED <<conn, outbox, carrier, state, turn>>
        /\ j # i => waiting'[i] = waiting[i] /\ inbox'[i] = inbox[i]
    BY <1>1, <1>6 DEF Ask, TypeOK
  <2>2. CASE i = j
    <3>1. inbox'[i] = Append(inbox[i], asked'[i]) /\ inbox[i] \in Seq(Nat) /\ asked'[i] \in Nat
      BY <1>1, <1>6, <2>2 DEF Ask, TypeOK
    <3>2. inbox'[i] # <<>>
      BY <3>1, AppendedNotEmpty
    <3>3. conn[i] = "open" /\ UNCHANGED <<conn, state[i], last_n[i], conn_set, conn_set_max>>
      BY <2>1, <2>2 DEF carrier
    <3>4. /\ state[i] = "CONNECTED" \/ last_n[i] # 0 => i \in conn_set
          /\ i <= conn_set_max => i \in conn_set
          /\ \A k \in Fds : k < i => conn[k] # "none"
      BY <1>1, <3>3 DEF OnItsWay
    <3> QED  BY <3>2, <3>3, <3>4 DEF OnItsWay
  <2>3. CASE i # j
    BY <1>1, <2>1, <2>3, OnItsWayKept DEF carrier, Pending
  <2> QED  BY <2>2, <2>3
<1>7. ASSUME NEW j \in Fds, Take(j) \/ TakeNothing(j)
      PROVE  OnItsWay(i)'
  <2>1. /\ UNCHANGED <<conn, inbox, carrier, state, turn>> /\ waiting'[j] = FALSE
        /\ j # i => waiting'[i] = waiting[i] /\ outbox'[i] = outbox[i]
    BY <1>1, <1>7 DEF Take, TakeNothing, TypeOK, wire
  <2>2. CASE i = j
    BY <1>1, <2>1, <2>2 DEF OnItsWay, carrier
  <2>3. CASE i # j
    BY <1>1, <2>1, <2>3, OnItsWayKept DEF carrier, Pending
  <2> QED  BY <2>2, <2>3
<1>8. ASSUME NEW j \in Fds, Close(j)
      PROVE  OnItsWay(i)'
  <2>1. /\ UNCHANGED <<inbox, carrier, state, turn>> /\ waiting'[j] = FALSE
        /\ conn[j] = "open" /\ conn'[j] = "closed"
        /\ \A k \in Fds : k # j => conn'[k] = conn[k]
        /\ j # i => waiting'[i] = waiting[i] /\ outbox'[i] = outbox[i]
    BY <1>1, <1>8 DEF Close, TypeOK
  <2>2. CASE i = j
    BY <1>1, <2>1, <2>2 DEF OnItsWay, carrier
  <2>3. CASE i # j
    BY <1>1, <2>1, <2>3, OnItsWayKept DEF carrier, Pending
  <2> QED  BY <2>2, <2>3
<1>9. CASE UNCHANGED vars
  BY <1>1, <1>9, OnItsWayKept DEF vars, client, wire, carrier, Pending
<1> QED  BY <1>2, <1>3, <1>4, <1>5, <1>6, <1>7, <1>8, <1>9 DEF Next, Daemon, Replied

LEMMA CallHolds == Spec => []CallInv
<1>1. Init => CallInv
  <2> SUFFICES ASSUME Init PROVE CallInv
    OBVIOUS
  <2>1. ASSUME NEW i \in Fds PROVE OnItsWay(i)
    BY FdFacts DEF Init, OnItsWay
  <2> QED  BY <2>1, ChainHolds DEF CallInv
<1> QED  BY <1>1, OnItsWayStep, PTL DEF Spec

LEMMA CallKeeps == CallInv => NoCallForgotten
<1> SUFFICES ASSUME CallInv, NEW i \in Fds, waiting[i], turn # Dead, outbox[i] = <<>>
             PROVE  \/ inbox[i] # <<>> /\ (i \in conn_set \/ (i > conn_set_max /\ Knocking))
                    \/ turn \in Sock + 1 .. i /\ Updated(i)
  BY DEF NoCallForgotten
<1>1. TypeOK /\ OnItsWay(i) /\ conn[i] = "open"
  BY DEF CallInv, ChainInv, OnItsWay
<1>2. CASE Pending(i) /\ Updated(i)
  <2>1. turn \in Int /\ i \in Int /\ Sock \in Int
    BY <1>1, <1>2, FdFacts DEF TypeOK, Pending
  <2> QED  BY <1>2, <2>1, FdFacts DEF Pending
<1>3. CASE inbox[i] # <<>> /\ i <= conn_set_max
  BY <1>1, <1>3 DEF OnItsWay
<1>4. CASE inbox[i] # <<>> /\ ~(i <= conn_set_max)
  <2>1. conn_set_max \in Sock .. MaxFd /\ i \in Fds
    BY <1>1 DEF TypeOK
  <2>2. i > conn_set_max /\ conn_set_max < MaxFd /\ conn_set_max + 1 \in Fds
    BY <1>4, <2>1, FdFacts DEF Fds
  <2>3. conn[conn_set_max + 1] # "none"
    <3>1. conn_set_max + 1 = i \/ conn_set_max + 1 < i
      BY <2>1, <2>2, FdFacts
    <3> QED  BY <1>1, <2>2, <3>1 DEF OnItsWay
  <2> QED  BY <1>4, <2>2, <2>3 DEF Knocking
<1> QED  BY <1>1, <1>2, <1>3, <1>4 DEF OnItsWay

(* As long as the daemon runs, a client that waits has its reply in its     *)
(* socket, its request where the next reads find it, or the loop under way  *)
(* before it, however many clients come, go, ask and stop reading           *)
(* (rts_carrier_update, rts_daemon_loop).                                   *)
THEOREM CallsAreKept == Spec => []NoCallForgotten
BY CallKeeps, CallHolds, PTL

(* Whatever is read or fails, the daemon listens to every client it counts  *)
(* as connected, so that the end of each can be seen (rts_carrier_update).  *)
THEOREM ConnectedAreHeard == Spec => []ConnectedIsHeard
<1>1. CallInv => ConnectedIsHeard
  BY DEF CallInv, OnItsWay, ConnectedIsHeard
<1> QED  BY <1>1, CallHolds, PTL

(* While a call is under way, the daemon and its clients never wait for     *)
(* each other; only a client that does not read can hold the daemon up      *)
(* (usocket_send, rts_access_recv).                                         *)
THEOREM NeverAllBlocked == Spec => []OnlyFullSocketsBlock
<1>1. CallInv => OnlyFullSocketsBlock
  <2> SUFFICES ASSUME CallInv, NEW i \in Fds, waiting[i], \A j \in Fds : ~RepliedCan(j)
               PROVE  \/ DaemonCan
                      \/ \E j \in Fds : turn = j /\ ~waiting[j] /\ Len(outbox[j]) >= BufMax
    BY DEF OnlyFullSocketsBlock, SendBlocks
  <2>1. /\ TypeOK /\ OnItsWay(i) /\ turn # Dead /\ outbox[i] = <<>>
        /\ turn = Waits \/ turn \in Fds
    <3>1. TypeOK /\ OnItsWay(i) /\ turn # Dead /\ outbox[i] = <<>>
      BY DEF CallInv, ChainInv, RepliedCan
    <3>2. turn \in Sock .. conn_set_max /\ conn_set_max \in Sock .. MaxFd
      BY <3>1 DEF TypeOK
    <3> QED  BY <3>1, <3>2, FdFacts DEF Fds
  <2>2. CASE turn = Waits
    <3>1. ~Pending(i)
      BY <2>2, FdFacts DEF Pending
    <3>2. NoCallForgotten
      BY CallKeeps
    <3>3. inbox[i] # <<>> /\ (i \in conn_set \/ Knocking)
      BY <2>1, <2>2, <3>2, FdFacts DEF NoCallForgotten
    <3> QED  BY <2>2, <3>3 DEF DaemonCan, Readable
  <2>3. CASE turn \in Fds
    <3> DEFINE j == turn
    <3>1. outbox[j] \in Seq(Nat) /\ waiting[j] \in BOOLEAN
      BY <2>1, <2>3 DEF TypeOK
    <3>2. CASE Len(outbox[j]) < BufMax
      BY <2>3, <3>2 DEF DaemonCan
    <3>3. CASE ~(Len(outbox[j]) < BufMax)
      <4>1. Len(outbox[j]) >= BufMax /\ outbox[j] # <<>>
        BY <3>1, <3>3, LengthTyped, CarrierAssumption
      <4>2. ~waiting[j]
        BY <2>3, <4>1 DEF RepliedCan
      <4> QED  BY <2>3, <4>1, <4>2
    <3> QED  BY <3>2, <3>3
  <2> QED  BY <2>1, <2>2, <2>3
<1> QED  BY <1>1, CallHolds, PTL
=============================================================================
