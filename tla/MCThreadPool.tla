---------------------------- MODULE MCThreadPool ----------------------------
(* Small instances of ThreadPool for TLC. *)
EXTENDS ThreadPool, TLC

\* Thread identities are interchangeable, and so are destroyers.
Symmetric == Permutations(Threads) \cup Permutations(Destroyers)
=============================================================================
