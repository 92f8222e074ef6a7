------------------------------ MODULE Segments ------------------------------
(***************************************************************************)
(* The shared memory between a client and the daemon: how a set of params  *)
(* gets a segment (shatomic.c, rts_params_init), how the daemon finds it   *)
(* (rts_scheduler_mem_attach), and what the kernel keeps when a process is *)
(* gone.                                                                   *)
(*                                                                         *)
(* The key of a segment is made of the inode of a temporary file that is   *)
(* unlinked at once; the descriptor of the file stays open, so that the    *)
(* inode is taken until the process ends.  No segment is ever removed.     *)
(***************************************************************************)
EXTENDS Integers, FiniteSets

CONSTANTS Procs,    \* client processes
          Sets,     \* struct rts_params, each in the memory of one process
          Owner,    \* the process of a set
          Inodes,   \* the inodes of the file system the clients run in
          KeyOf,    \* ftok: a key for each inode, from its low 16 bits
          Private,  \* IPC_PRIVATE, the key 0
          MaxSegs,  \* SHMMNI, the number of segments the kernel allows
          None

ASSUME SegmentsAssumption ==
    /\ Owner \in [Sets -> Procs]
    /\ DOMAIN KeyOf = Inodes
    /\ MaxSegs \in Nat
    /\ None \notin Inodes /\ None \notin 1 .. MaxSegs
    /\ None \notin {KeyOf[x] : x \in Inodes} \cup {Private}

Segs == 1 .. MaxSegs
Keys == {KeyOf[x] : x \in Inodes} \cup {Private}

VARIABLES alive,     \* the processes that run
          fds,       \* the inodes each process holds open
          segKey,    \* the key of each segment, None if there is no such segment
          ready,     \* the sets that were initialised, with success or not
          key, seg,  \* estimatedp of each set: its key and segment
          ino,       \* the inode behind its key
          task,      \* the segment that the daemon's reservation for a set reads
          taskIno    \* the inode behind that one

vars == <<alive, fds, segKey, ready, key, seg, ino, task, taskIno>>
params == <<ready, key, seg, ino>>
reservations == <<task, taskIno>>

Init ==
    /\ alive = {} /\ fds = [p \in Procs |-> {}]
    /\ segKey = [g \in Segs |-> None]
    /\ ready = {}
    /\ key = [s \in Sets |-> Private] /\ seg = [s \in Sets |-> None]
    /\ ino = [s \in Sets |-> None]
    /\ task = [s \in Sets |-> None] /\ taskIno = [s \in Sets |-> None]

----------------------------------------------------------------------------
(* THE KERNEL *)

FreeInodes == Inodes \ UNION {fds[p] : p \in Procs}

(* The segment of a key, if there is one; IPC_PRIVATE is never found.       *)
Having(k) == IF k = Private THEN {} ELSE {g \in Segs : segKey[g] = k}
New == {g \in Segs : segKey[g] = None /\ \A h \in 1 .. g - 1 : segKey[h] # None}

(* shmget with IPC_CREAT: the segment of the key if there is one, else a    *)
(* new one.                                                                 *)
GetOrCreate(k) == IF Having(k) # {} THEN Having(k) ELSE New

(* shmget without IPC_CREAT, which still creates for IPC_PRIVATE. *)
Get(k) == IF k = Private THEN New ELSE Having(k)

----------------------------------------------------------------------------
(* THE CLIENT *)

Start(p) ==
    /\ p \notin alive /\ \A s \in Sets : Owner[s] = p => task[s] = None
    /\ alive' = alive \cup {p}
    /\ UNCHANGED <<fds, segKey, params, reservations>>

(* Seeded fault: createkey closes the file.                                 *)
ParamsInitClosed(s, x) ==
    /\ Owner[s] \in alive /\ x \in FreeInodes
    /\ \E g \in GetOrCreate(KeyOf[x]) :
         /\ segKey' = [segKey EXCEPT ![g] = KeyOf[x]]
         /\ seg' = [seg EXCEPT ![s] = g]
    /\ key' = [key EXCEPT ![s] = KeyOf[x]] /\ ino' = [ino EXCEPT ![s] = x]
    /\ ready' = ready \cup {s}
    /\ UNCHANGED <<alive, fds, reservations>>

(* rts_params_init, and rts_params_cleanup, which is the same: createkey,   *)
(* then shatomic_create.  A set that had a segment loses sight of it.       *)
ParamsInit(s, x) ==
    /\ Owner[s] \in alive /\ x \in FreeInodes
    /\ fds' = [fds EXCEPT ![Owner[s]] = @ \cup {x}]
    /\ \E g \in GetOrCreate(KeyOf[x]) :
         /\ segKey' = [segKey EXCEPT ![g] = KeyOf[x]]
         /\ seg' = [seg EXCEPT ![s] = g]
    /\ key' = [key EXCEPT ![s] = KeyOf[x]] /\ ino' = [ino EXCEPT ![s] = x]
    /\ ready' = ready \cup {s}
    /\ UNCHANGED <<alive, reservations>>

(* It fails where no file can be made or, with the file open, no segment is *)
(* left, which the test program does not notice (conf_threads): the key is  *)
(* 0, which is IPC_PRIVATE.                                                 *)
ParamsInitFails(s) ==
    /\ Owner[s] \in alive
    /\ \E X \in {{}} \cup {{x} : x \in FreeInodes} :
         fds' = [fds EXCEPT ![Owner[s]] = @ \cup X]
    /\ key' = [key EXCEPT ![s] = Private] /\ seg' = [seg EXCEPT ![s] = None]
    /\ ino' = [ino EXCEPT ![s] = None] /\ ready' = ready \cup {s}
    /\ UNCHANGED <<alive, segKey, reservations>>

(* The process ends: the kernel closes its files and detaches it.           *)
Exit(p) ==
    /\ p \in alive /\ alive' = alive \ {p}
    /\ fds' = [fds EXCEPT ![p] = {}]
    /\ ready' = {s \in ready : Owner[s] # p}
    /\ key' = [s \in Sets |-> IF Owner[s] = p THEN Private ELSE key[s]]
    /\ seg' = [s \in Sets |-> IF Owner[s] = p THEN None ELSE seg[s]]
    /\ ino' = [s \in Sets |-> IF Owner[s] = p THEN None ELSE ino[s]]
    /\ UNCHANGED <<segKey, reservations>>

----------------------------------------------------------------------------
(* THE DAEMON *)

(* rts_scheduler_rsv_create for a set, at most once at a time: the params   *)
(* are copied from the request, the segment is looked up by the key         *)
(* (rts_scheduler_mem_attach).  Without a segment it is refused.            *)
RsvCreate(s) ==
    /\ s \in ready /\ task[s] = None
    /\ \E g \in Get(key[s]) :
         /\ segKey' = [segKey EXCEPT ![g] = key[s]]
         /\ task' = [task EXCEPT ![s] = g]
    /\ taskIno' = [taskIno EXCEPT ![s] = ino[s]]
    /\ UNCHANGED <<alive, fds, params>>

(* Seeded fault: the daemon removes the segment it lets go of.              *)
RsvDestroyRemoves(s) ==
    /\ s \in ready /\ task[s] # None
    /\ task' = [task EXCEPT ![s] = None] /\ taskIno' = [taskIno EXCEPT ![s] = None]
    /\ segKey' = [segKey EXCEPT ![task[s]] = None]
    /\ UNCHANGED <<alive, fds, params>>

(* rts_scheduler_rsv_destroy: rts_scheduler_mem_detach only detaches.       *)
RsvDestroy(s) ==
    /\ s \in ready /\ task[s] # None
    /\ task' = [task EXCEPT ![s] = None] /\ taskIno' = [taskIno EXCEPT ![s] = None]
    /\ UNCHANGED <<alive, fds, segKey, params>>

(* rts_scheduler_delete, once the daemon sees that the process is gone.     *)
Delete(p) ==
    /\ p \notin alive /\ \E s \in Sets : Owner[s] = p /\ task[s] # None
    /\ task' = [s \in Sets |-> IF Owner[s] = p THEN None ELSE task[s]]
    /\ taskIno' = [s \in Sets |-> IF Owner[s] = p THEN None ELSE taskIno[s]]
    /\ UNCHANGED <<alive, fds, segKey, params>>

Next == \/ \E p \in Procs : Start(p) \/ Exit(p) \/ Delete(p)
        \/ \E s \in Sets : \/ \E x \in Inodes : ParamsInit(s, x)
                           \/ ParamsInitFails(s) \/ RsvCreate(s) \/ RsvDestroy(s)

Spec == Init /\ [][Next]_vars

----------------------------------------------------------------------------
(* PROPERTIES *)

(* The daemon reads the estimates of a live set for another reservation     *)
(* only if that one's client is dead and not yet noticed to be, so that its *)
(* inode was taken again, or if the keys of two inodes agree.               *)
ReadsItsOwn ==
    \A s \in Sets : \A t \in ready :
       s # t /\ task[s] = seg[t] /\ seg[t] # None
          => Owner[s] \notin alive \/ taskIno[s] # ino[t]

(* The key of a set finds its segment for as long as the process lives,     *)
(* whatever the daemon detaches and whichever processes end: a reservation  *)
(* can be made, given back and made again with the same params.             *)
KeyFinds ==
    \A s \in ready : seg[s] # None => segKey[seg[s]] = key[s]
============================================================================
