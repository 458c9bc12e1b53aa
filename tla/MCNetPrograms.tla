--------------------------- MODULE MCNetPrograms ---------------------------
(* NetPrograms for TLC: the configuration gives every constant its value. *)
(* Symmetry is not used, since the run checks a liveness property.        *)
EXTENDS NetPrograms
=============================================================================
