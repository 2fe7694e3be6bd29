--------------------------- MODULE MCRaftThreads ---------------------------
(* The instances TLC checks of RaftThreads; every bound is in the .cfg. *)
EXTENDS RaftThreads
=============================================================================
