------------------------------ MODULE MCKVRaft ------------------------------
(* KVRaft for TLC: Clerks are interchangeable, and so are keys. *)
EXTENDS KVRaft, TLC

CONSTANT MaxFaults   \* bound: failed calls, snapshots and restarts in one behaviour

Symmetry == Permutations(Client) \cup Permutations(Key)

FewFaults == failures + snapshots + restarts <= MaxFaults
=============================================================================
