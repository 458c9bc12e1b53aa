----------------------------- MODULE MCListener -----------------------------
(* Small instances of Listener for TLC. *)
EXTENDS Listener, TLC

\* Every program point.
AllPoints == MainPoints

\* All points but those inside handle_ip_count, between fork and the
\* hash_add_entry that records the child, and inside ++s_children.
OutsideWindows == MainPoints \ {"loadIp", "storeIp", "record", "storeChildren"}

\* What a load from a freed entry returns: the value that was there, or 0.
SomeGarbage == {0, 1}

\* Addresses and process ids are interchangeable.
Symmetric == Permutations(PIDs) \cup Permutations(IPs)
=============================================================================
