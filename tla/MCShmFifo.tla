----------------------------- MODULE MCShmFifo -----------------------------
(* Small instances of ShmFifo for TLC. *)
EXTENDS ShmFifo, TLC
=============================================================================
