------------------------------- MODULE MCRaft -------------------------------
(* Raft for TLC: the peers are interchangeable, and so are the commands. *)
EXTENDS RaftRefinement, TLC

Symmetry == Permutations(Server) \cup Permutations(Command)
=============================================================================
