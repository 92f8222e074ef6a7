-------------------------- MODULE SegmentsProofs --------------------------
(***************************************************************************)
(* The theorems about the shared segments, for any number of processes,    *)
(* sets, inodes and segments and for whatever keys the inodes have.        *)
(***************************************************************************)
EXTENDS Segments, TLAPS

(* The sets, their keys and the reservations have the types of shatomic.h.  *)
TypeOK ==
    /\ alive \subseteq Procs /\ ready \subseteq Sets
    /\ fds \in [Procs -> SUBSET Inodes]
    /\ segKey \in [Segs -> Keys \cup {None}]
    /\ key \in [Sets -> Keys] /\ seg \in [Sets -> Segs \cup {None}]
    /\ ino \in [Sets -> Inodes \cup {None}]
    /\ task \in [Sets -> Segs \cup {None}] /\ taskIno \in [Sets -> Inodes \cup {None}]

(* A segment a set has seen keeps the key of that set.                      *)
Found(s) == seg[s] # None => segKey[seg[s]] = key[s]

(* The inode behind the key of a set, and that behind the reservation of a  *)
(* live one, is held open by its process and is behind no other set.        *)
Held(s) ==
    /\ seg[s] # None => ino[s] # None
    /\ task[s] = None => taskIno[s] = None
    /\ ino[s] # None => ino[s] \in fds[Owner[s]]
    /\ Owner[s] \in alive /\ taskIno[s] # None => taskIno[s] \in fds[Owner[s]]
Apart(s, t) ==
    /\ ino[s] # None => ino[s] # ino[t]
    /\ Owner[s] \in alive /\ taskIno[s] # None => taskIno[s] # ino[t]
Disjoint == \A p, q \in Procs : p # q => fds[p] \cap fds[q] = {}

SegInv ==
    /\ TypeOK /\ Disjoint
    /\ \A s \in Sets : Found(s) /\ Held(s)
    /\ \A s, t \in Sets : s # t => Apart(s, t)

LEMMA SetFacts ==
    /\ \A s \in Sets : Owner[s] \in Procs
    /\ \A x \in Inodes : KeyOf[x] \in Keys
    /\ Private \in Keys /\ None \notin Keys /\ None \notin Segs /\ None \notin Inodes
BY SegmentsAssumption DEF Keys, Segs

(* A segment the kernel gives for key k had that key or none.               *)
LEMMA Given ==
    ASSUME TypeOK, NEW k \in Keys, NEW g \in GetOrCreate(k) \cup Get(k)
    PROVE  g \in Segs /\ segKey[g] \in {k, None}
BY DEF GetOrCreate, Get, Having, New

LEMMA FreeFacts ==
    ASSUME TypeOK, NEW x \in FreeInodes
    PROVE  x \in Inodes /\ \A p \in Procs : x \notin fds[p]
BY DEF FreeInodes

LEMMA InitSteps ==
    ASSUME SegInv, NEW s \in Sets, NEW x \in Inodes, ParamsInit(s, x)
    PROVE  SegInv'
<1> USE SetFacts
<1>1. /\ TypeOK /\ Owner[s] \in Procs /\ Owner[s] \in alive /\ x \in Inodes
      /\ \A p \in Procs : x \notin fds[p]
      /\ alive' = alive /\ task' = task /\ taskIno' = taskIno
      /\ fds' = [fds EXCEPT ![Owner[s]] = @ \cup {x}]
  BY FreeFacts DEF SegInv, ParamsInit, reservations
<1>2. PICK g \in GetOrCreate(KeyOf[x]) :
        /\ segKey' = [segKey EXCEPT ![g] = KeyOf[x]] /\ seg' = [seg EXCEPT ![s] = g]
  BY DEF ParamsInit
<1>3. g \in Segs /\ segKey[g] \in {KeyOf[x], None} /\ KeyOf[x] \in Keys
  BY <1>1, Given
<1>4. key' = [key EXCEPT ![s] = KeyOf[x]] /\ ino' = [ino EXCEPT ![s] = x] /\ ready' = ready \cup {s}
  BY DEF ParamsInit
<1>5. TypeOK'
  BY <1>1, <1>2, <1>3, <1>4 DEF TypeOK
<1>6. Disjoint'
  <2> SUFFICES ASSUME NEW p \in Procs, NEW q \in Procs, p # q
               PROVE  fds'[p] \cap fds'[q] = {}
    BY DEF Disjoint
  <2>1. fds[p] \cap fds[q] = {} /\ x \notin fds[p] /\ x \notin fds[q]
    BY <1>1 DEF SegInv, Disjoint
  <2> QED  BY <1>1, <2>1 DEF TypeOK
<1>7. ASSUME NEW t \in Sets
      PROVE  Found(t)' /\ Held(t)'
  <2>1. Found(t) /\ Held(t) /\ seg[t] \in Segs \cup {None} /\ key[t] \in Keys /\ Owner[t] \in Procs
    BY <1>1 DEF SegInv, TypeOK
  <2>2. Found(t)'
    BY <1>1, <1>2, <1>3, <1>4, <2>1 DEF Found, TypeOK
  <2>3. Held(t)'
    <3>1. fds[Owner[t]] \subseteq fds'[Owner[t]] /\ x \in fds'[Owner[s]]
      BY <1>1, <2>1 DEF TypeOK
    <3> QED  BY <1>1, <1>2, <1>4, <2>1, <3>1 DEF Held, TypeOK
  <2> QED  BY <2>2, <2>3
<1>8. ASSUME NEW t \in Sets, NEW u \in Sets, t # u
      PROVE  Apart(t, u)'
  <2>1. Apart(t, u) /\ Held(t) /\ Held(u) /\ Owner[t] \in Procs /\ Owner[u] \in Procs
    BY <1>8 DEF SegInv
  <2>2. (ino[u] # None => ino[u] # x) /\ (Owner[t] \in alive /\ taskIno[t] # None => taskIno[t] # x)
        /\ (ino[t] # None => ino[t] # x)
    BY <1>1, <2>1 DEF Held
  <2> QED  BY <1>1, <1>4, <1>8, <2>1, <2>2 DEF Apart, TypeOK
<1> QED  BY <1>5, <1>6, <1>7, <1>8 DEF SegInv

LEMMA FailSteps ==
    ASSUME SegInv, NEW s \in Sets, ParamsInitFails(s)
    PROVE  SegInv'
<1> USE SetFacts
<1>1. PICK X \in {{}} \cup {{x} : x \in FreeInodes} :
        fds' = [fds EXCEPT ![Owner[s]] = @ \cup X]
  BY DEF ParamsInitFails
<1>2. /\ TypeOK /\ Owner[s] \in Procs /\ alive' = alive /\ segKey' = segKey
      /\ task' = task /\ taskIno' = taskIno
      /\ key' = [key EXCEPT ![s] = Private] /\ seg' = [seg EXCEPT ![s] = None]
      /\ ino' = [ino EXCEPT ![s] = None] /\ ready' = ready \cup {s}
  BY DEF SegInv, ParamsInitFails, reservations
<1>3. X \subseteq Inodes /\ \A p \in Procs : X \cap fds[p] = {}
  BY <1>1, <1>2, FreeFacts
<1>4. TypeOK'
  BY <1>1, <1>2, <1>3 DEF TypeOK
<1>5. Disjoint'
  <2> SUFFICES ASSUME NEW p \in Procs, NEW q \in Procs, p # q
               PROVE  fds'[p] \cap fds'[q] = {}
    BY DEF Disjoint
  <2>1. fds[p] \cap fds[q] = {} /\ X \cap fds[p] = {} /\ X \cap fds[q] = {}
    BY <1>3 DEF SegInv, Disjoint
  <2> QED  BY <1>1, <1>2, <2>1 DEF TypeOK
<1>6. ASSUME NEW t \in Sets
      PROVE  Found(t)' /\ Held(t)'
  <2>1. Found(t) /\ Held(t) /\ Owner[t] \in Procs
    BY DEF SegInv
  <2>2. fds[Owner[t]] \subseteq fds'[Owner[t]]
    BY <1>1, <1>2, <2>1 DEF TypeOK
  <2> QED  BY <1>2, <2>1, <2>2 DEF Found, Held, TypeOK
<1>7. ASSUME NEW t \in Sets, NEW u \in Sets, t # u
      PROVE  Apart(t, u)'
  <2>1. Apart(t, u)
    BY <1>7 DEF SegInv
  <2> QED  BY <1>2, <2>1 DEF Apart, TypeOK
<1> QED  BY <1>4, <1>5, <1>6, <1>7 DEF SegInv

LEMMA ExitSteps ==
    ASSUME SegInv, NEW p \in Procs, Exit(p)
    PROVE  SegInv'
<1> USE SetFacts
<1>1. TypeOK /\ segKey' = segKey /\ task' = task /\ taskIno' = taskIno /\ alive' = alive \ {p}
  BY DEF SegInv, Exit, reservations
<1>2. TypeOK'
  BY <1>1 DEF Exit, TypeOK
<1>3. \A q \in Procs : fds'[q] = IF q = p THEN {} ELSE fds[q]
  BY <1>1 DEF Exit, TypeOK
<1>4. Disjoint'
  BY <1>3 DEF SegInv, Disjoint
<1>5. ASSUME NEW t \in Sets
      PROVE  Found(t)' /\ Held(t)'
  <2>1. Found(t) /\ Held(t) /\ Owner[t] \in Procs
    BY DEF SegInv
  <2>2. /\ seg'[t] = IF Owner[t] = p THEN None ELSE seg[t]
        /\ key'[t] = IF Owner[t] = p THEN Private ELSE key[t]
        /\ ino'[t] = IF Owner[t] = p THEN None ELSE ino[t]
    BY DEF Exit
  <2> QED  BY <1>1, <1>3, <2>1, <2>2 DEF Found, Held
<1>6. ASSUME NEW t \in Sets, NEW u \in Sets, t # u
      PROVE  Apart(t, u)'
  <2>1. Apart(t, u)
    BY <1>6 DEF SegInv
  <2>2. \A v \in Sets : ino'[v] = IF Owner[v] = p THEN None ELSE ino[v]
    BY DEF Exit
  <2> QED  BY <1>1, <2>1, <2>2 DEF Apart
<1> QED  BY <1>2, <1>4, <1>5, <1>6 DEF SegInv

LEMMA CreateSteps ==
    ASSUME SegInv, NEW s \in Sets, RsvCreate(s)
    PROVE  SegInv'
<1> USE SetFacts
<1>1. PICK g \in Get(key[s]) :
        segKey' = [segKey EXCEPT ![g] = key[s]] /\ task' = [task EXCEPT ![s] = g]
  BY DEF RsvCreate
<1>2. /\ TypeOK /\ alive' = alive /\ fds' = fds /\ ready' = ready
      /\ key' = key /\ seg' = seg /\ ino' = ino /\ taskIno' = [taskIno EXCEPT ![s] = ino[s]]
  BY DEF SegInv, RsvCreate, params
<1>3. g \in Segs /\ segKey[g] \in {key[s], None} /\ key[s] \in Keys
  <2>1. key[s] \in Keys
    BY <1>2 DEF TypeOK
  <2> QED  BY <1>1, <1>2, <2>1, Given
<1>4. TypeOK'
  BY <1>1, <1>2, <1>3 DEF TypeOK
<1>5. ASSUME NEW t \in Sets
      PROVE  Found(t)' /\ Held(t)'
  <2>1. Found(t) /\ Held(t) /\ seg[t] \in Segs \cup {None} /\ key[t] \in Keys
    BY <1>2 DEF SegInv, TypeOK
  <2>2. Found(t)'
    BY <1>1, <1>2, <1>3, <2>1 DEF Found, TypeOK
  <2>3. Held(t)'
    BY <1>1, <1>2, <1>3, <2>1 DEF Held, TypeOK
  <2> QED  BY <2>2, <2>3
<1>6. ASSUME NEW t \in Sets, NEW u \in Sets, t # u
      PROVE  Apart(t, u)'
  <2>1. Apart(t, u)
    BY <1>6 DEF SegInv
  <2> QED  BY <1>2, <2>1 DEF Apart, TypeOK
<1>7. Disjoint'
  BY <1>2 DEF SegInv, Disjoint
<1> QED  BY <1>4, <1>5, <1>6, <1>7 DEF SegInv

(* Giving up reservations, starting a process.                              *)
LEMMA LessSteps ==
    ASSUME SegInv,
           \/ \E s \in Sets : RsvDestroy(s)
           \/ \E p \in Procs : Start(p) \/ Delete(p)
    PROVE  SegInv'
<1> USE SetFacts
<1>1. /\ TypeOK /\ fds' = fds /\ segKey' = segKey /\ ready' = ready
      /\ key' = key /\ seg' = seg /\ ino' = ino
  BY DEF SegInv, RsvDestroy, Start, Delete, params
<1>2. alive' \subseteq Procs
      /\ \A s \in Sets : \/ task'[s] = task[s] /\ taskIno'[s] = taskIno[s]
                         \/ task'[s] = None /\ taskIno'[s] = None
  BY <1>1 DEF RsvDestroy, Start, Delete, TypeOK, reservations
<1>3. \A s \in Sets : Owner[s] \in alive' => Owner[s] \in alive \/ task[s] = None
  BY <1>1 DEF RsvDestroy, Start, Delete
<1>4. TypeOK'
  BY <1>1, <1>2 DEF TypeOK, RsvDestroy, Start, Delete, reservations
<1>5. ASSUME NEW t \in Sets
      PROVE  Found(t)' /\ Held(t)'
  BY <1>1, <1>2, <1>3 DEF SegInv, Found, Held
<1>6. ASSUME NEW t \in Sets, NEW u \in Sets, t # u
      PROVE  Apart(t, u)'
  <2>1. Apart(t, u) /\ Held(t)
    BY <1>6 DEF SegInv
  <2> QED  BY <1>1, <1>2, <1>3, <2>1 DEF Apart, Held
<1>7. Disjoint'
  BY <1>1 DEF SegInv, Disjoint
<1> QED  BY <1>4, <1>5, <1>6, <1>7 DEF SegInv

LEMMA SegInvHolds == Spec => []SegInv
<1>1. Init => SegInv
  <2> SUFFICES ASSUME Init PROVE SegInv
    OBVIOUS
  <2>1. TypeOK
    BY SetFacts DEF Init, TypeOK
  <2> QED  BY <2>1, SetFacts DEF Init, SegInv, Disjoint, Found, Held, Apart
<1>2. SegInv /\ [Next]_vars => SegInv'
  <2> SUFFICES ASSUME SegInv, [Next]_vars PROVE SegInv'
    OBVIOUS
  <2>1. ASSUME NEW s \in Sets, NEW x \in Inodes, ParamsInit(s, x) PROVE SegInv'
    BY <2>1, InitSteps
  <2>2. ASSUME NEW s \in Sets, ParamsInitFails(s) \/ RsvCreate(s) PROVE SegInv'
    BY <2>2, FailSteps, CreateSteps
  <2>3. ASSUME NEW p \in Procs, Exit(p) PROVE SegInv'
    BY <2>3, ExitSteps
  <2>4. CASE \/ \E s \in Sets : RsvDestroy(s)
             \/ \E p \in Procs : Start(p) \/ Delete(p)
    BY <2>4, LessSteps
  <2>5. CASE UNCHANGED vars
    BY <2>5 DEF vars, params, reservations, SegInv, TypeOK, Disjoint, Found, Held, Apart
  <2> QED  BY <2>1, <2>2, <2>3, <2>4, <2>5 DEF Next
<1> QED  BY <1>1, <1>2, PTL DEF Spec

(* The key of a set finds its segment for as long as the set's process      *)
(* lives, whatever is attached, detached or ends around it.                 *)
THEOREM KeysFind == Spec => []KeyFinds
<1>1. SegInv => KeyFinds
  BY DEF SegInv, TypeOK, Found, KeyFinds
<1> QED  BY <1>1, SegInvHolds, PTL

(* The daemon reads a live set's estimates out of another's segment only if *)
(* the keys of two inodes agree: while a process lives nobody gets its      *)
(* inodes.                                                                  *)
THEOREM OwnEstimates == Spec => []ReadsItsOwn
<1>1. SegInv => ReadsItsOwn
  <2> SUFFICES ASSUME SegInv, NEW s \in Sets, NEW t \in ready, s # t, seg[t] # None, Owner[s] \in alive
               PROVE  taskIno[s] # ino[t]
    BY DEF ReadsItsOwn
  <2>1. t \in Sets /\ Held(t) /\ Apart(s, t)
    BY DEF SegInv, TypeOK
  <2> QED  BY <2>1 DEF Held, Apart
<1> QED  BY <1>1, SegInvHolds, PTL
=============================================================================
