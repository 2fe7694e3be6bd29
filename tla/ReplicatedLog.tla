--------------------------- MODULE ReplicatedLog ---------------------------
(***************************************************************************)
(* What Raft promises its service: there is one sequence of decided        *)
(* commands, which only ever grows at its end, and every server applies a  *)
(* prefix of it.  A server may start over from an earlier point when it    *)
(* restarts; no decision is ever taken back or replaced.                   *)
(***************************************************************************)
EXTENDS Naturals, Sequences

CONSTANT Server

VARIABLES
    decided,    \* the commands decided so far
    reached     \* per server, how many of them its service has applied

Init == decided = <<>> /\ reached = [i \in Server |-> 0]

(* Server i decides new commands, and is the first to apply them. *)
Decide(i) ==
    /\ Len(decided') > Len(decided)
    /\ SubSeq(decided', 1, Len(decided)) = decided
    /\ reached' = [reached EXCEPT ![i] = Len(decided')]

(* Server i applies commands decided before. *)
Learn(i) ==
    /\ \E n \in reached[i] .. Len(decided) : reached' = [reached EXCEPT ![i] = n]
    /\ UNCHANGED decided

(* Server i restarts and will apply again what follows its snapshot. *)
StartOver(i) ==
    /\ \E n \in 0 .. reached[i] : reached' = [reached EXCEPT ![i] = n]
    /\ UNCHANGED decided

Next == \E i \in Server : Decide(i) \/ Learn(i) \/ StartOver(i)

Spec == Init /\ [][Next]_<<decided, reached>>
=============================================================================
