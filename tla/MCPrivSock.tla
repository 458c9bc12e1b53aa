----------------------------- MODULE MCPrivSock -----------------------------
(* PrivSock has one session and one bound: the configurations give it. *)
EXTENDS PrivSock, TLC
=============================================================================
