----------------------------- MODULE MCCarrier -----------------------------
(***************************************************************************)
(* Instances of Carrier.  The listening socket has descriptor 3, as in a   *)
(* daemon started from a shell, and an int has four bytes.                 *)
(***************************************************************************)
EXTENDS Carrier

(* Every client that can connect talks. *)
AllTalk == Sock + 1 .. MaxFd
=============================================================================
