----------------------------- MODULE MCKVServer -----------------------------
(***************************************************************************)
(* Small instances of KVServer for TLC.                                    *)
(***************************************************************************)
EXTENDS KVServer, TLC

Symmetry == Permutations(Client)
=============================================================================
