--------------------------- MODULE RaftReplicates ---------------------------
(***************************************************************************)
(* Raft implements a replicated log: the commands its services have        *)
(* applied, taken by their index, are the decided sequence, and            *)
(* lastApplied is how far each server has come.                            *)
(***************************************************************************)
EXTENDS Raft

(* By index, the commands that any service has applied there: a gap shows  *)
(* as a missing index, a second command at an index as a larger set.       *)
Decided == [k \in {a[1] : a \in applied} |-> {a[2] : a \in {b \in applied : b[1] = k}}]

Abstract == INSTANCE ReplicatedLog WITH decided <- Decided, reached <- lastApplied

(***************************************************************************)
(* Every step of a peer, crashes and restarts included, is a step of the   *)
(* replicated log or leaves it alone: what a leader commits by counting    *)
(* extends what any peer has ever applied, and what followers and          *)
(* restarted peers apply was decided before.                               *)
(***************************************************************************)
Replicates == Abstract!Spec
=============================================================================
