---------------------------- MODULE MCPorcupine ----------------------------
(* Porcupine for TLC: histories in which the i-th operation to return      *)
(* writes the value i.                                                     *)
EXTENDS Porcupine

CONSTANTS k1, k2, MaxOps

Output == {<<>>, <<1>>}

(* The times of n operations, in the order in which they return. *)
Times(n) ==
    {t \in [call : [1 .. n -> 1 .. 2 * n], return : [1 .. n -> 1 .. 2 * n]] :
        /\ \A i \in 1 .. n : t.call[i] < t.return[i]
        /\ \A i \in 1 .. n - 1 : t.return[i] < t.return[i + 1]
        /\ Cardinality(Range(t.call) \cup Range(t.return)) = 2 * n}

(* What an operation does: [op, out]. *)
Does == {[op |-> op, out |-> <<>>] : op \in {"Put", "Append"}} \cup {[op |-> "Get", out |-> out] : out \in Output}

(* The keys: one for all, or one for the second operation alone. *)
KeysOf(n) == {[i \in 1 .. n |-> k1], [i \in 1 .. n |-> IF i = 2 THEN k2 ELSE k1]}

MCHistory ==
    UNION {{[i \in 1 .. n |-> [op |-> d[i].op, key |-> f[i], value |-> i, out |-> d[i].out,
                               call |-> t.call[i], return |-> t.return[i]]] :
                t \in Times(n), d \in [1 .. n -> Does], f \in KeysOf(n)} : n \in 0 .. MaxOps}
=============================================================================
