------------------------------ MODULE Carrier ------------------------------
(***************************************************************************)
(* The request loop of the daemon (rts_daemon_loop in                      *)
(* daemon/lib/rts_daemon.c) over the carrier (daemon/lib/rts_channel.c)    *)
(* and the sockets under it (daemon/components/usocket.c), with the        *)
(* clients' side of a connection (lib/rts_lib.c).                          *)
(*                                                                         *)
(* A client is known by the descriptor the daemon accepts it on.  The      *)
(* daemon closes none, so descriptors are handed out in the order of       *)
(* connection and never again.  The k-th request of a client is the number *)
(* k, the reply to it is k as well: what a handler does is the business of *)
(* the module Scheduler.                                                   *)
(***************************************************************************)
EXTENDS Integers, Sequences

CONSTANTS Sock,       \* the descriptor of the listening socket
          MaxFd,      \* bound: the last descriptor a client gets
          Talkers,    \* bound: the clients that do more than connect
          IntSize,    \* sizeof(int)
          PipeKills,  \* the daemon was started with SIGPIPE at its default
          MaxAsk,     \* bound: the requests a client sends
          BufMax      \* the replies a client's socket holds before send waits

ASSUME CarrierAssumption ==
    /\ Sock \in Nat /\ MaxFd \in Nat /\ Sock < MaxFd
    /\ Talkers \subseteq Sock + 1 .. MaxFd
    /\ IntSize \in Nat \ {0}
    /\ PipeKills \in BOOLEAN
    /\ MaxAsk \in Nat /\ BufMax \in Nat \ {0}

Fds == Sock + 1 .. MaxFd

(* Values of `turn` that are no descriptor of a client. *)
Waits == Sock  \* in rts_carrier_update
Dead == -1     \* the process is gone

(* What a call gets instead of a reply when recv fails.                     *)
Failed == -1

VARIABLES conn,      \* the client's end: "none", "open" or "closed"
          asked,     \* the last request the client has sent
          waiting,   \* the client is in rts_access_recv
          got,       \* the reply the client's last call has taken for its own
          inbox,     \* the requests the daemon has yet to read
          outbox,    \* the replies the client has yet to read
          reset,     \* the client closed with replies unread: ECONNRESET
          conn_set, conn_set_max, last_n, last_req, state,
          turn,      \* the client rts_daemon_loop is about to visit
          purged     \* the clients rts_scheduler_delete has run for

client == <<conn, asked, waiting, got>>
wire == <<inbox, outbox, reset>>
carrier == <<conn_set, conn_set_max, last_n, last_req>>
vars == <<client, wire, carrier, state, turn, purged>>

Init ==
    /\ conn = [i \in Fds |-> "none"]
    /\ asked = [i \in Fds |-> 0]
    /\ waiting = [i \in Fds |-> FALSE]
    /\ got = [i \in Fds |-> 0]
    /\ inbox = [i \in Fds |-> <<>>]
    /\ outbox = [i \in Fds |-> <<>>]
    /\ reset = [i \in Fds |-> FALSE]
    /\ conn_set = {}
    /\ conn_set_max = Sock
    /\ last_n = [i \in Fds |-> 0]
    /\ last_req = [i \in Fds |-> 0]
    /\ state = [i \in Fds |-> "EMPTY"]
    /\ turn = Waits
    /\ purged = {}

----------------------------------------------------------------------------
(* CLIENTS *)

(* rts_daemon_connect up to connect(): the backlog takes the connection.    *)
Connect(i) ==
    /\ turn # Dead
    /\ conn[i] = "none" /\ \A j \in Fds : j < i => conn[j] # "none"
    /\ conn' = [conn EXCEPT ![i] = "open"]
    /\ UNCHANGED <<asked, waiting, got, wire, carrier, state, turn, purged>>

(* rts_access_send, the first half of every call of the library.            *)
Ask(i) ==
    /\ turn # Dead
    /\ i \in Talkers /\ conn[i] = "open" /\ ~waiting[i] /\ asked[i] < MaxAsk
    /\ asked' = [asked EXCEPT ![i] = @ + 1]
    /\ inbox' = [inbox EXCEPT ![i] = Append(@, asked'[i])]
    /\ waiting' = [waiting EXCEPT ![i] = TRUE]
    /\ UNCHANGED <<conn, got, outbox, reset, carrier, state, turn, purged>>

(* rts_access_recv, the second half: whatever reply comes first is taken.   *)
Take(i) ==
    /\ waiting[i] /\ outbox[i] # <<>>
    /\ got' = [got EXCEPT ![i] = Head(outbox[i])]
    /\ outbox' = [outbox EXCEPT ![i] = Tail(@)]
    /\ waiting' = [waiting EXCEPT ![i] = FALSE]
    /\ UNCHANGED <<conn, asked, inbox, reset, carrier, state, turn, purged>>

(* rts_access_recv when the daemon is gone.  At the end of the stream recv  *)
(* returns 0, which is not below 0: the reply of the previous call is taken *)
(* again.  Only a request the daemon never read makes recv fail.            *)
TakeNothing(i) ==
    /\ turn = Dead /\ waiting[i] /\ outbox[i] = <<>>
    /\ got' = [got EXCEPT ![i] = IF inbox[i] # <<>> THEN Failed ELSE @]
    /\ waiting' = [waiting EXCEPT ![i] = FALSE]
    /\ UNCHANGED <<conn, asked, wire, carrier, state, turn, purged>>

(* The client exits or crashes, in the middle of a call or not.             *)
Close(i) ==
    /\ i \in Talkers /\ conn[i] = "open"
    /\ conn' = [conn EXCEPT ![i] = "closed"]
    /\ waiting' = [waiting EXCEPT ![i] = FALSE]
    /\ reset' = [reset EXCEPT ![i] = outbox[i] # <<>>]
    /\ outbox' = [outbox EXCEPT ![i] = <<>>]
    /\ UNCHANGED <<asked, got, inbox, carrier, state, turn, purged>>

----------------------------------------------------------------------------
(* THE CARRIER *)

(* What select finds.                                                       *)
Knocking == conn_set_max < MaxFd /\ conn[conn_set_max + 1] # "none"
Readable == {i \in conn_set : inbox[i] # <<>> \/ conn[i] = "closed"}

(* What recv returns on a readable connection; 1 for a whole request.       *)
Received(i) == IF inbox[i] # <<>> THEN 1 ELSE IF reset[i] THEN -1 ELSE 0

(* A seeded fault of Kept: memset clears every entry.                       *)
KeptNone(i) == 0

(* What memset(last_n, 0, n + 1) leaves of entry i: the count is in bytes.  *)
(* The size of a request is in the low byte of its entry, -1 is in all.     *)
Kept(i) ==
    IF \/ IntSize * (i + 1) <= conn_set_max + 1
       \/ IntSize * i < conn_set_max + 1 /\ last_n[i] > 0
    THEN 0 ELSE last_n[i]

(* A seeded fault of Classify: the end of the stream is no reason to leave. *)
ClassifyLate(s, n) ==
    CASE s = "EMPTY"                -> IF n = 0 THEN "EMPTY" ELSE "CONNECTED"
      [] s = "CONNECTED" /\ n >= 0  -> "CONNECTED"
      [] OTHER                      -> "ERROR"

(* A seeded fault of Classify: silence loses an empty entry as well.        *)
ClassifySticky(s, n) ==
    CASE s = "EMPTY"               -> IF n > 0 THEN "CONNECTED" ELSE "DISCONNECTED"
      [] s = "CONNECTED" /\ n > 0  -> "CONNECTED"
      [] OTHER                     -> IF n < 0 THEN "ERROR" ELSE "DISCONNECTED"

(* The chain of conditions of rts_carrier_update.                           *)
Classify(s, n) ==
    CASE s = "EMPTY"               -> IF n = 0 THEN "EMPTY" ELSE "CONNECTED"
      [] s = "CONNECTED" /\ n > 0  -> "CONNECTED"
      [] OTHER                     -> IF n < 0 THEN "ERROR" ELSE "DISCONNECTED"

(* A seeded fault of Update: the request stays in the socket's queue.       *)
UpdatePeeks ==
    LET n == [i \in Fds |-> IF i \in Readable THEN Received(i) ELSE Kept(i)]
    IN  /\ turn = Waits
        /\ Knocking \/ Readable # {}
        /\ last_n' = n
        /\ last_req' = [i \in Fds |-> IF i \in Readable /\ n[i] > 0
                                        THEN Head(inbox[i]) ELSE last_req[i]]
        /\ conn_set' = (conn_set \ {i \in Readable : n[i] = 0})
                         \cup (IF Knocking THEN {conn_set_max + 1} ELSE {})
        /\ conn_set_max' = IF Knocking THEN conn_set_max + 1 ELSE conn_set_max
        /\ state' = [i \in Fds |-> IF i <= conn_set_max
                                     THEN Classify(state[i], n[i]) ELSE state[i]]
        /\ turn' = Sock + 1
        /\ UNCHANGED <<client, wire, purged>>

(* A seeded fault of Update: the accepted connection is not put into the    *)
(* set that select waits on.                                                *)
UpdateForgetsAccepted ==
    LET n == [i \in Fds |-> IF i \in Readable THEN Received(i) ELSE Kept(i)]
        read == {i \in Readable : n[i] > 0}
    IN  /\ turn = Waits
        /\ Knocking \/ Readable # {}
        /\ last_n' = n
        /\ last_req' = [i \in Fds |-> IF i \in read THEN Head(inbox[i]) ELSE last_req[i]]
        /\ inbox' = [i \in Fds |-> IF i \in read THEN Tail(inbox[i]) ELSE inbox[i]]
        /\ reset' = [i \in Fds |-> reset[i] /\ ~(i \in Readable /\ n[i] < 0)]
        /\ conn_set' = conn_set \ {i \in Readable : n[i] = 0}
        /\ conn_set_max' = IF Knocking THEN conn_set_max + 1 ELSE conn_set_max
        /\ state' = [i \in Fds |-> IF i <= conn_set_max
                                     THEN Classify(state[i], n[i]) ELSE state[i]]
        /\ turn' = Sock + 1
        /\ UNCHANGED <<client, outbox, purged>>

(* rts_carrier_update and usocket_recvall: one read from every readable     *)
(* connection, one accept, and a new state for every client there was.      *)
Update ==
    LET n == [i \in Fds |-> IF i \in Readable THEN Received(i) ELSE Kept(i)]
        read == {i \in Readable : n[i] > 0}
    IN  /\ turn = Waits
        /\ Knocking \/ Readable # {}
        /\ last_n' = n
        /\ last_req' = [i \in Fds |-> IF i \in read THEN Head(inbox[i]) ELSE last_req[i]]
        /\ inbox' = [i \in Fds |-> IF i \in read THEN Tail(inbox[i]) ELSE inbox[i]]
        /\ reset' = [i \in Fds |-> reset[i] /\ ~(i \in Readable /\ n[i] < 0)]
        /\ conn_set' = (conn_set \ {i \in Readable : n[i] = 0})
                         \cup (IF Knocking THEN {conn_set_max + 1} ELSE {})
        /\ conn_set_max' = IF Knocking THEN conn_set_max + 1 ELSE conn_set_max
        /\ state' = [i \in Fds |-> IF i <= conn_set_max
                                     THEN Classify(state[i], n[i]) ELSE state[i]]
        /\ turn' = Sock + 1
        /\ UNCHANGED <<client, outbox, purged>>

----------------------------------------------------------------------------
(* THE LOOP OVER THE CLIENTS *)

(* A seeded fault of After: the loop stops short of the last client.        *)
AfterOneLess(i) == IF i + 1 < conn_set_max THEN i + 1 ELSE Waits

(* Where the loop goes after client i.                                      *)
After(i) == IF i < conn_set_max THEN i + 1 ELSE Waits

Lost(i) == state[i] \in {"ERROR", "DISCONNECTED"}
Updated(i) == state[i] = "CONNECTED" /\ last_n[i] > 0

(* rts_daemon_check_for_fail: the reservations of a lost client go.         *)
Purge(i) ==
    /\ turn = i /\ Lost(i)
    /\ state' = [state EXCEPT ![i] = "EMPTY"]
    /\ purged' = purged \cup {i}
    /\ turn' = After(i)
    /\ UNCHANGED <<client, wire, carrier>>

(* rts_daemon_check_for_update says no.                                     *)
Skip(i) ==
    /\ turn = i /\ ~Lost(i) /\ ~Updated(i)
    /\ turn' = After(i)
    /\ UNCHANGED <<client, wire, carrier, state, purged>>

(* A seeded fault of Serve: a reply that does not fit is dropped.           *)
ServeDrops(i) ==
    /\ turn = i /\ Updated(i) /\ conn[i] # "closed"
    /\ outbox' = [outbox EXCEPT ![i] = IF @ = <<>> THEN <<last_req[i]>> ELSE @]
    /\ turn' = After(i)
    /\ UNCHANGED <<client, inbox, reset, carrier, state, purged>>

(* rts_daemon_process_req: the handler of the request runs and its reply is *)
(* sent; send waits while the client's socket is full.                      *)
Serve(i) ==
    /\ turn = i /\ Updated(i)
    /\ conn[i] # "closed" /\ Len(outbox[i]) < BufMax
    /\ outbox' = [outbox EXCEPT ![i] = Append(@, last_req[i])]
    /\ turn' = After(i)
    /\ UNCHANGED <<client, inbox, reset, carrier, state, purged>>

(* The client is gone when its reply is sent: SIGPIPE, which the daemon     *)
(* does not handle, or the error rts_daemon_set_fail is for.                *)
ServeFails(i) ==
    /\ turn = i /\ Updated(i)
    /\ conn[i] = "closed"
    /\ IF PipeKills
       THEN turn' = Dead /\ state' = state
       ELSE turn' = After(i) /\ state' = [state EXCEPT ![i] = "ERROR"]
    /\ UNCHANGED <<client, wire, carrier, purged>>

----------------------------------------------------------------------------
Daemon == Update \/ \E i \in Fds : Purge(i) \/ Skip(i) \/ Serve(i) \/ ServeFails(i)
Replied(i) == Take(i) \/ TakeNothing(i)

Next ==
    \/ Daemon
    \/ \E i \in Fds : Connect(i) \/ Ask(i) \/ Replied(i) \/ Close(i)

(* The loop never stops by itself, and a client that waits for a reply has  *)
(* nothing else to do.  Clients need not ask, and need not leave.           *)
Fairness == WF_vars(Daemon) /\ \A i \in Fds : WF_vars(Replied(i))

Spec == Init /\ [][Next]_vars /\ Fairness

----------------------------------------------------------------------------
(* The carrier has the types of struct rts_carrier, a client those of       *)
(* struct rts_access.                                                       *)
TypeOK ==
    /\ conn \in [Fds -> {"none", "open", "closed"}]
    /\ asked \in [Fds -> Nat]
    /\ waiting \in [Fds -> BOOLEAN]
    /\ got \in [Fds -> Nat \cup {Failed}]
    /\ inbox \in [Fds -> Seq(Nat)]
    /\ outbox \in [Fds -> Seq(Nat)]
    /\ reset \in [Fds -> BOOLEAN]
    /\ conn_set \subseteq Sock + 1 .. conn_set_max
    /\ conn_set_max \in Sock .. MaxFd
    /\ last_n \in [Fds -> {-1, 0, 1}]
    /\ last_req \in [Fds -> Nat]
    /\ state \in [Fds -> {"EMPTY", "CONNECTED", "DISCONNECTED", "ERROR"}]
    /\ turn \in (Sock .. conn_set_max) \cup {Dead}
    /\ purged \subseteq Fds

----------------------------------------------------------------------------
(* SAFETY *)

(* rts_scheduler_delete runs for clients that have gone and for no others.  *)
(* It holds only because the memset of rts_carrier_update stops short of    *)
(* the clients' entries: an idle client whose entry it clears is classified *)
(* DISCONNECTED.                                                            *)
OnlyTheGonePurged == \A i \in purged : conn[i] = "closed"

(* No request is lost between the sockets, the arrays of the carrier and    *)
(* the loop, however clients interleave: from the reply a client has taken  *)
(* last through those it has yet to read, no reply skips a request.         *)
NoRequestSkipped ==
    \A i \in Fds :
        LET s == <<got[i]>> \o outbox[i]
        IN  \A k \in 2 .. Len(s) : s[k - 1] # Failed => s[k] - s[k - 1] \in {0, 1}

(* A call returns the reply to its own request, or fails (rts_lib.c takes   *)
(* whatever rts_access_recv left in rep for it).                            *)
RepliesMatch ==
    \A i \in Fds : conn[i] = "open" /\ ~waiting[i] => got[i] \in {asked[i], Failed}

(* The same of a client that nobody ever shared the daemon with.            *)
RepliesMatchAlone ==
    \A i \in Fds :
        /\ \A j \in Fds \ {i} : conn[j] = "none"
        /\ conn[i] = "open" /\ ~waiting[i] /\ turn # Dead
        => got[i] = asked[i]

(* No call is forgotten: while a client waits, its reply is in its socket,  *)
(* or its request is where the daemon's next reads find it, or the loop     *)
(* under way is still to come to it.                                        *)
NoCallForgotten ==
    \A i \in Fds : waiting[i] /\ turn # Dead =>
        \/ outbox[i] # <<>>
        \/ inbox[i] # <<>> /\ (i \in conn_set \/ (i > conn_set_max /\ Knocking))
        \/ turn \in Sock + 1 .. i /\ Updated(i)

(* A client the daemon counts as connected is one whose socket it still     *)
(* listens to, so that its end is not missed.                               *)
ConnectedIsHeard == \A i \in Fds : state[i] = "CONNECTED" => i \in conn_set

(* The daemon, or client i with the answer to its call, can take a step.    *)
DaemonCan ==
    \/ turn = Waits /\ (Knocking \/ Readable # {})
    \/ \E i \in Fds : turn = i /\ (Updated(i) /\ conn[i] # "closed" => Len(outbox[i]) < BufMax)
RepliedCan(i) == waiting[i] /\ (outbox[i] # <<>> \/ turn = Dead)

(* The daemon visits a client that has let its socket fill up and asks      *)
(* nothing: a send to it waits for as long as this lasts.                   *)
SendBlocks == \E i \in Fds : turn = i /\ ~waiting[i] /\ Len(outbox[i]) >= BufMax

(* While a call is under way somebody can go on, unless the daemon is in    *)
(* the send to a client that has let its socket fill up and asks nothing.   *)
OnlyFullSocketsBlock ==
    (\E i \in Fds : waiting[i])
        => DaemonCan \/ (\E i \in Fds : RepliedCan(i)) \/ SendBlocks

(* A client is purged once: what is left of it in the carrier after         *)
(* rts_daemon_check_for_fail never makes it CONNECTED and lost again, if    *)
(* PipeKills; a daemon that goes on after a failed send can read -1 from a  *)
(* client it has purged and purge it again.                                 *)
PurgedOnce == [][\A i \in Fds : Purge(i) => i \notin purged]_vars

----------------------------------------------------------------------------
(* LIVENESS *)

(* Every call of the library returns, whatever the other clients do or      *)
(* leave undone, unless one of them lets its socket fill up for ever.       *)
CallsReturn == \A i \in Fds : waiting[i] ~> ~waiting[i] \/ []SendBlocks

(* A client the daemon has served and that goes is purged, unless the       *)
(* daemon is gone first, or stays in the send to another for ever.          *)
GoneArePurged ==
    \A i \in Fds : conn[i] = "closed" /\ state[i] = "CONNECTED"
                       ~> i \in purged \/ turn = Dead \/ []SendBlocks
=============================================================================
