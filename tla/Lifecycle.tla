----------------------------- MODULE Lifecycle -----------------------------
(***************************************************************************)
(* The life of the daemon process (daemon.c, rts_daemon_init,              *)
(* rts_daemon_destroy) against what outlives it: the kernel's limit on the *)
(* real-time bandwidth, which is removed at the start and put back by an   *)
(* orderly end, and the path of the listening socket.  Several daemons may *)
(* be started, one after the other or together: nothing prevents it.       *)
(*                                                                         *)
(* The table of the plugins is read from a file and filled from shared     *)
(* objects while the daemon starts (rts_plugin.c).                         *)
(***************************************************************************)
EXTENDS Integers, FiniteSets

CONSTANTS Daemons,    \* the processes that may run the daemon
          Orig,       \* sched_rt_runtime_us as the administrator set it
          Unlimited,  \* the value that removes the limit, -1
          RtPeriod,   \* sched_rt_period_us
          Files,      \* the plugin files that may be installed
          None

ASSUME LifecycleAssumption ==
    /\ Orig # Unlimited /\ None \notin Daemons
    /\ \A f \in Files : f.lines \in Nat /\ f.libs \subseteq 0 .. f.lines - 1

VARIABLES limit,  \* sched_rt_runtime_us now
          path,   \* the daemon whose socket the path names
          file,   \* the plugin file installed
          pc,     \* how far each daemon got
          saved,  \* data.sched.sys_rt_runtime of each daemon
          free,   \* its sys_rt_free_utils, the same on every processor
          table,  \* its plugins: how many it counts, and which were loaded
          clean   \* no daemon ran beside another or died with the limit removed

vars == <<limit, path, file, pc, saved, free, table, clean>>

(* The phases in which the daemon holds the only copy of what it read.      *)
Holding == {"read", "bind", "plugins", "register", "loop", "term"}
Phases == Holding \cup {"off", "freeing"}

Alone(d) == \A e \in Daemons \ {d} : pc[e] \in {"off", "freeing"}

Init ==
    /\ limit = Orig /\ path = None /\ file \in Files
    /\ pc = [d \in Daemons |-> "off"]
    /\ saved = [d \in Daemons |-> None]
    /\ free = [d \in Daemons |-> 0]
    /\ table = [d \in Daemons |-> [num |-> 0, loaded |-> {}]]
    /\ clean = TRUE

Goes(d, from, to) == pc[d] = from /\ pc' = [pc EXCEPT ![d] = to]

----------------------------------------------------------------------------
(* rts_plugin.c *)

(* Seeded fault: the line that skip_comment stopped at is counted too.      *)
CountPluginsMark(f) == f.lines + 1

(* count_num_of_plugin: fgets is called until the end of the file was met,  *)
(* which a last line that ends in a newline does not do.                    *)
CountPlugins(f) == f.lines + (IF f.newline THEN 1 ELSE 0)

(* load_libraries: it stops at the first plugin whose object does not open. *)
(* An entry counted beyond the lines is of type NONE, which has no object.  *)
LoadLibraries(f) ==
    {i \in 0 .. CountPlugins(f) - 1 : \A j \in 0 .. i : j \in f.libs}

(* rts_plugins_init: without the file there is no plugin; its return value, *)
(* and that of load_libraries, is not looked at.                            *)
PluginsInit(f) ==
    IF f.present THEN [num |-> CountPlugins(f), loaded |-> LoadLibraries(f)]
    ELSE [num |-> 0, loaded |-> {}]

----------------------------------------------------------------------------
(* THE DAEMON *)

(* Seeded fault: the limit is removed before it is read.                    *)
ReadLimitLate(d) ==
    /\ Goes(d, "off", "read")
    /\ limit' = Unlimited /\ saved' = [saved EXCEPT ![d] = Unlimited]
    /\ clean' = (clean /\ Alone(d))
    /\ UNCHANGED <<path, file, free, table>>

(* remove_rt_kernel_limit, the reading half.  If a file does not open the   *)
(* process exits having changed nothing.                                    *)
ReadLimit(d) ==
    /\ Goes(d, "off", "read")
    /\ saved' = [saved EXCEPT ![d] = limit]
    /\ clean' = (clean /\ Alone(d))
    /\ UNCHANGED <<limit, path, file, free, table>>

(* ... and the writing half. *)
RemoveLimit(d) ==
    /\ Goes(d, "read", "bind")
    /\ limit' = Unlimited
    /\ UNCHANGED <<path, file, saved, free, table, clean>>

(* rts_carrier_init: the path is unlinked, whoever listens behind it, and   *)
(* bound again.                                                             *)
BindCarrier(d) ==
    /\ Goes(d, "bind", "plugins")
    /\ path' = d
    /\ UNCHANGED <<limit, file, saved, free, table, clean>>

(* A step of it fails: exit_err, with the limit removed.  usocket_init      *)
(* fails before the path is unlinked, the bind and the listen after.        *)
BindFails(d) ==
    /\ Goes(d, "bind", "off")
    /\ path' \in {path, None}
    /\ clean' = FALSE
    /\ UNCHANGED <<limit, file, saved, free, table>>

(* rts_scheduler_init.  skip_comment reads for ever when no line of the     *)
(* file starts with a '!': the daemon goes no further.                      *)
SchedulerInit(d) ==
    /\ file.present => file.marked
    /\ Goes(d, "plugins", "register")
    /\ free' = [free EXCEPT ![d] = IF saved[d] = Unlimited THEN RtPeriod ELSE saved[d]]
    /\ table' = [table EXCEPT ![d] = PluginsInit(file)]
    /\ UNCHANGED <<limit, path, file, saved, clean>>

RegisterSigInt(d) ==
    /\ Goes(d, "register", "loop")
    /\ UNCHANGED <<limit, path, file, saved, free, table, clean>>

(* A creation asks every plugin, a system refresh recalculates with every   *)
(* plugin: one that was not loaded is a call through a null pointer.        *)
NullCall(d) ==
    /\ table[d].loaded # 0 .. table[d].num - 1
    /\ Goes(d, "loop", "off")
    /\ clean' = FALSE
    /\ UNCHANGED <<limit, path, file, saved, free, table>>

(* SIGINT in the loop: the handler empties the taskset.                     *)
SigInt(d) ==
    /\ Goes(d, "loop", "term")
    /\ UNCHANGED <<limit, path, file, saved, free, table, clean>>

(* Seeded fault: the handler frees and exits without writing the value.     *)
RestoreForgets(d) ==
    /\ Goes(d, "term", "freeing")
    /\ UNCHANGED <<limit, path, file, saved, free, table, clean>>

(* restore_rt_kernel_limit *)
Restore(d) ==
    /\ Goes(d, "term", "freeing")
    /\ limit' = saved[d]
    /\ UNCHANGED <<path, file, saved, free, table, clean>>

(* rts_scheduler_destroy and exit; closing an object that was not opened    *)
(* may crash, which comes to the same.                                      *)
Exit(d) ==
    /\ Goes(d, "freeing", "off")
    /\ UNCHANGED <<limit, path, file, saved, free, table, clean>>

(* Every other end: SIGKILL, SIGTERM, SIGPIPE at a send, SIGINT before the  *)
(* handler is registered, a handler that crashes on a list it interrupted   *)
(* (LinkedList), or that cannot open the file to restore.                   *)
Die(d) ==
    /\ pc[d] \notin {"off", "freeing"}
    /\ pc' = [pc EXCEPT ![d] = "off"]
    /\ clean' = (clean /\ pc[d] = "read")
    /\ UNCHANGED <<limit, path, file, saved, free, table>>

Next == \E d \in Daemons :
    \/ ReadLimit(d) \/ RemoveLimit(d) \/ BindCarrier(d) \/ BindFails(d)
    \/ SchedulerInit(d) \/ RegisterSigInt(d) \/ NullCall(d)
    \/ SigInt(d) \/ Restore(d) \/ Exit(d) \/ Die(d)

Spec == Init /\ [][Next]_vars

----------------------------------------------------------------------------
(* PROPERTIES *)

TypeOK ==
    /\ limit \in {Orig, Unlimited}
    /\ path \in Daemons \cup {None}
    /\ file \in Files
    /\ pc \in [Daemons -> Phases]
    /\ saved \in [Daemons -> {Orig, Unlimited, None}]
    /\ free \in [Daemons -> {0, Orig, RtPeriod}]
    /\ table = [d \in Daemons |-> table[d]]
    /\ \A d \in Daemons : table[d].loaded \subseteq 0 .. table[d].num - 1
    /\ clean \in BOOLEAN

(* As long as each daemon runs by itself and ends through the handler, the  *)
(* limit is removed exactly from the write at its start to the write at its *)
(* end, every daemon shares out the bandwidth the administrator set, and    *)
(* the one that serves is the one new clients reach ("They will be restored *)
(* at daemon execution end", rts_daemon.c:32).                              *)
CleanRoundTrip ==
    clean => /\ limit = Unlimited <=> \E d \in Daemons : pc[d] \in Holding \ {"read"}
             /\ \A d \in Daemons :
                  /\ pc[d] \in Holding => saved[d] = Orig
                  /\ pc[d] \in {"register", "loop", "term"} => free[d] = Orig
                  /\ pc[d] = "loop" => path = d

(* Some copy of the value the administrator set still exists: in the kernel *)
(* or in a daemon that will write it back.                                  *)
Kept == limit = Orig \/ \E d \in Daemons : pc[d] \in Holding /\ saved[d] = Orig

(* The value is lost only when a daemon that holds it dies, or when one     *)
(* that started while the limit was removed writes what it read; and once   *)
(* lost no later start or end of a daemon brings it back.                   *)
LossNeedsFault ==
    [][/\ Kept /\ ~Kept' =>
             \/ \E d \in Daemons : saved[d] = Orig /\ pc[d] \in Holding /\ pc'[d] = "off"
             \/ \E d \in Daemons : saved[d] = Unlimited /\ pc[d] \in {"read", "term"}
                                   /\ pc'[d] \in {"bind", "freeing"}
       /\ ~Kept => ~Kept']_vars

(* With a whole file - marked, without a newline behind the last line, and  *)
(* every object in place: the shipped one - the table a daemon serves with  *)
(* has exactly the plugins of the file and every one is loaded, so that no  *)
(* request calls through a null pointer.                                    *)
Whole(f) == f.present /\ f.marked /\ ~f.newline /\ f.libs = 0 .. f.lines - 1

WholeFileLoads ==
    Whole(file) => \A d \in Daemons : pc[d] \in {"register", "loop", "term"} =>
        table[d] = [num |-> file.lines, loaded |-> 0 .. file.lines - 1]
============================================================================
