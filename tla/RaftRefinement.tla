--------------------------- MODULE RaftRefinement ---------------------------
(***************************************************************************)
(* A Raft peer group without crashes implements ReplicatedLog.             *)
(***************************************************************************)
EXTENDS Raft

\* The longest sequence some service has applied: what is decided so far.
Decided == LET i == CHOOSE i \in Server : \A j \in Server : Len(app[j]) <= Len(app[i])
           IN  app[i]

Abstract == INSTANCE ReplicatedLog WITH log <- Decided, Command <- Entry

=============================================================================
