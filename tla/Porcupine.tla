----------------------------- MODULE Porcupine -----------------------------
(***************************************************************************)
(* The linearizability checker of src/porcupine, on histories of the       *)
(* key/value model of src/models/kv.go.  One goroutine per key searches    *)
(* for a linearization, in a doubly linked list of calls and returns out   *)
(* of which it lifts what it has linearized; checkParallel collects their  *)
(* results, and may give up on them after a timeout.                       *)
(*                                                                         *)
(* Call and return times are distinct: makeEntries sorts with an unstable  *)
(* sort.Sort, which may put equal times in any order.                      *)
(***************************************************************************)
EXTENDS Integers, FiniteSets, SequencesExt, Bitwise

CONSTANTS
    Key,
    History,        \* the histories that are checked: sequences of operations
    Word            \* bits of a word of a bitset, 64 in the code

ASSUME WordAssumption == Word \in Nat \ {0}

VARIABLES
    history, verbose, hasTimeout,   \* the arguments
    worker,         \* per partition, the goroutine that runs checkSingle
    results,        \* the channel on which they report
    kill,           \* the flag by which they are stopped
    main            \* checkParallel

vars == <<history, verbose, hasTimeout, worker, results, kill, main>>
args == <<history, verbose, hasTimeout>>

-----------------------------------------------------------------------------
(* models/kv.go *)

(* The operations on each key, in the order of the history; keys that do   *)
(* not occur have no partition.                                            *)
Keys == {history[k].key : k \in DOMAIN history}
Partition(key) == SelectSeq(history, LAMBDA o : o.key = key)

InitValue == <<>>

(* Whether the operation can return what it did, and the new state. *)
Step(state, o) ==
    CASE o.op = "Get"    -> [ok |-> o.out = state, state |-> state]
      [] o.op = "Put"    -> [ok |-> TRUE, state |-> <<o.value>>]
      [] o.op = "Append" -> [ok |-> TRUE, state |-> Append(state, o.value)]

-----------------------------------------------------------------------------
(* bitset.go *)

newBitset(bits) == [w \in 0 .. bits \div Word + (IF bits % Word # 0 THEN 1 ELSE 0) - 1 |-> 0]
Bit(pos) == 2 ^ (pos % Word)

set(b, pos) == [b EXCEPT ![pos \div Word] = @ | Bit(pos)]
clear(b, pos) == [b EXCEPT ![pos \div Word] = @ - (@ & Bit(pos))]
get(b, pos) == (b[pos \div Word] & Bit(pos)) # 0

-----------------------------------------------------------------------------
(* The linked list of entries *)

Head0 == 0          \* headEntry
NoNode == -1        \* nil

(* makeEntries: calls and returns by time.  An entry is known by its place *)
(* in this order, which is also the name of its node.                      *)
Entries(ops) ==
    LET times == {ops[k].call : k \in DOMAIN ops} \cup {ops[k].return : k \in DOMAIN ops}
        nth(e) == CHOOSE t \in times : Cardinality({u \in times : u < t}) = e - 1
    IN  [e \in 1 .. 2 * Len(ops) |->
            LET k == CHOOSE k \in DOMAIN ops : nth(e) \in {ops[k].call, ops[k].return}
            IN  [id |-> k - 1, ret |-> nth(e) = ops[k].return]]

(* The return of a call, nil for a return. *)
Match(entries, e) ==
    IF entries[e].ret THEN NoNode
    ELSE CHOOSE r \in DOMAIN entries : entries[r].ret /\ entries[r].id = entries[e].id

insertBefore(list, n, mark) ==
    IF mark = NoNode THEN list
    ELSE LET before == list.prev[mark]
             l == [list EXCEPT !.prev[mark] = n, !.next[n] = mark]
         IN  IF before = NoNode THEN l ELSE [l EXCEPT !.prev[n] = before, !.next[before] = n]

(* From the last entry to the first, and then the head. *)
makeLinkedEntries(n) ==
    LET nil == [e \in 0 .. n |-> NoNode]
        l[e \in 0 .. n + 1] ==
            IF e = n + 1 THEN [next |-> nil, prev |-> nil]
            ELSE insertBefore(l[e + 1], e, IF e = n THEN NoNode ELSE e + 1)
    IN  l[0]

Unlink(list, e) ==
    LET l == [list EXCEPT !.next[list.prev[e]] = list.next[e]]
    IN  IF l.next[e] = NoNode THEN l ELSE [l EXCEPT !.prev[l.next[e]] = l.prev[e]]
Relink(list, e) ==
    LET l == [list EXCEPT !.next[list.prev[e]] = e]
    IN  IF l.next[e] = NoNode THEN l ELSE [l EXCEPT !.prev[l.next[e]] = e]

lift(list, e, match) == Unlink(Unlink(list, e), match)
unlift(list, e, match) == Relink(Relink(list, match), e)

-----------------------------------------------------------------------------
(* checkSingle *)

(* The cache is a map from hashes to entries; equal sets have equal hashes. *)
cacheContains(cache, lin, state) == [linearized |-> lin, state |-> state] \in cache

(* The ids of the calls on the stack, which is the linearization so far. *)
Ids(w) == [k \in DOMAIN w.calls |-> w.entries[w.calls[k].entry].id]

(* Mutant: what was found first is kept. *)
Longer_First(w) ==
    LET seq == Ids(w)
    IN  [id \in DOMAIN w.longest |-> IF id \in Range(seq) /\ w.longest[id] = <<>> THEN seq ELSE w.longest[id]]

(* longest when the search is stuck: the linearization so far, for each    *)
(* entry in it that has no longer one; <<>> is nil.                        *)
Longer(w) ==
    LET seq == Ids(w)
    IN  [id \in DOMAIN w.longest |->
            IF id \in Range(seq) /\ Len(seq) > Len(w.longest[id]) THEN seq ELSE w.longest[id]]

(* The goroutine starts on its partition. *)
NewWorker(key) ==
    LET ops == Partition(key)
        n == Len(ops)
        list == makeLinkedEntries(2 * n)
    IN  [pc |-> "search", ops |-> ops, entries |-> Entries(ops), list |-> list, entry |-> list.next[Head0], calls |-> <<>>, state |-> InitValue,
         linearized |-> newBitset(n), cache |-> {}, longest |-> [id \in 0 .. n - 1 |-> <<>>], ok |-> FALSE]

Return(w, ok) == [w EXCEPT !.pc = "report", !.ok = ok]

(* A call is tried: linearized next if that is legal and new. *)
TryCall(w) ==
    LET id == w.entries[w.entry].id
        step == Step(w.state, w.ops[id + 1])
        lin == set(w.linearized, id)
        list == lift(w.list, w.entry, Match(w.entries, w.entry))
    IN  IF step.ok /\ ~cacheContains(w.cache, lin, step.state)
        THEN [w EXCEPT !.cache = @ \cup {[linearized |-> lin, state |-> step.state]},
                       !.calls = Append(@, [entry |-> w.entry, state |-> w.state]),
                       !.state = step.state, !.linearized = lin, !.list = list, !.entry = list.next[Head0]]
        ELSE [w EXCEPT !.entry = w.list.next[w.entry]]

(* Mutant: the bit stays. *)
Backtrack_Bit(w) ==
    LET top == Last(w.calls)
        list == unlift(w.list, top.entry, Match(w.entries, top.entry))
    IN  [w EXCEPT !.longest = IF verbose THEN Longer(w) ELSE @,
                  !.calls = Front(@), !.state = top.state, !.list = list, !.entry = list.next[top.entry]]

(* A return: the last call linearized is taken back. *)
Backtrack(w) ==
    LET top == Last(w.calls)
        list == unlift(w.list, top.entry, Match(w.entries, top.entry))
    IN  [w EXCEPT !.longest = IF verbose THEN Longer(w) ELSE @,
                  !.calls = Front(@), !.state = top.state, !.list = list, !.entry = list.next[top.entry],
                  !.linearized = clear(@, w.entries[top.entry].id)]

(* One turn of the loop, and the return after the last one. *)
Turn(key) ==
    LET w == worker[key]
    IN  /\ key \in Keys /\ w.pc = "search"
        /\ worker' = [worker EXCEPT ![key] =
              CASE w.list.next[Head0] = NoNode ->
                        Return([w EXCEPT !.longest = [id \in DOMAIN @ |-> Ids(w)]], TRUE)
                [] w.list.next[Head0] # NoNode /\ kill -> Return(w, FALSE)
                [] OTHER ->
                        IF ~w.entries[w.entry].ret THEN TryCall(w)
                        ELSE IF w.calls = <<>> THEN Return(w, FALSE)
                        ELSE Backtrack(w)]
        /\ UNCHANGED <<args, results, kill, main>>

Report(key) ==
    /\ key \in Keys /\ worker[key].pc = "report"
    /\ worker' = [worker EXCEPT ![key].pc = "done"]
    /\ results' = Append(results, worker[key].ok)
    /\ UNCHANGED <<args, kill, main>>

-----------------------------------------------------------------------------
(* checkParallel *)

Count == Cardinality(Keys)

(* Mutant: the count is compared before it is raised. *)
Receive_Before ==
    LET ok == main.ok /\ Head(results)
    IN  /\ main.pc = "loop" /\ results # <<>>
        /\ results' = Tail(results)
        /\ kill' = (kill \/ (~ok /\ ~verbose))
        /\ main' = [main EXCEPT !.count = @ + 1, !.ok = ok,
                                !.pc = IF (~ok /\ ~verbose) \/ main.count >= Count THEN "end" ELSE @]
        /\ UNCHANGED <<args, worker>>

(* A result; a bad one ends the check, unless partial linearizations are   *)
(* wanted.                                                                 *)
Receive ==
    LET ok == main.ok /\ Head(results)
    IN  /\ main.pc = "loop" /\ results # <<>>
        /\ results' = Tail(results)
        /\ kill' = (kill \/ (~ok /\ ~verbose))
        /\ main' = [main EXCEPT !.count = @ + 1, !.ok = ok,
                                !.pc = IF (~ok /\ ~verbose) \/ main.count + 1 >= Count THEN "end" ELSE @]
        /\ UNCHANGED <<args, worker>>

Timeout ==
    /\ main.pc = "loop" /\ hasTimeout
    /\ kill' = TRUE
    /\ main' = [main EXCEPT !.timedOut = TRUE, !.pc = IF verbose THEN "drain" ELSE "end"]
    /\ UNCHANGED <<args, worker, results>>

(* Mutant: a result that is only waited for counts. *)
Drain_Counted ==
    /\ main.pc = "drain" /\ main.count < Count /\ results # <<>>
    /\ results' = Tail(results)
    /\ main' = [main EXCEPT !.count = @ + 1, !.ok = @ /\ Head(results)]
    /\ UNCHANGED <<args, worker, kill>>

(* What is still to come is waited for and not looked at. *)
Drain ==
    /\ main.pc = "drain" /\ main.count < Count /\ results # <<>>
    /\ results' = Tail(results)
    /\ main' = [main EXCEPT !.count = @ + 1]
    /\ UNCHANGED <<args, worker, kill>>

Outcome(m) == IF ~m.ok THEN "Illegal" ELSE IF m.timedOut THEN "Unknown" ELSE "Ok"

(* With the partial linearizations, if they are wanted. *)
Finish ==
    /\ main.pc = "end" \/ (main.pc = "drain" /\ main.count >= Count)
    /\ main' = [main EXCEPT !.pc = "done", !.result = Outcome(main),
                            !.partial = IF verbose THEN [key \in Keys |-> Range(worker[key].longest) \ {<<>>}] ELSE @]
    /\ UNCHANGED <<args, worker, results, kill>>

-----------------------------------------------------------------------------
(* CheckOperations, CheckOperationsTimeout and CheckOperationsVerbose *)
Init ==
    /\ history \in History /\ verbose \in BOOLEAN /\ hasTimeout \in BOOLEAN
    /\ worker = [key \in Keys |-> NewWorker(key)]
    /\ results = <<>> /\ kill = FALSE
    /\ main = [pc |-> "loop", count |-> 0, ok |-> TRUE, timedOut |-> FALSE, result |-> "none", partial |-> <<>>]

WorkerNext(key) == Turn(key) \/ Report(key)
MainNext == Receive \/ Timeout \/ Drain \/ Finish

Next == (\E key \in Key : WorkerNext(key)) \/ MainNext

Spec == Init /\ [][Next]_vars

(* The goroutines get to run; select takes a result when there is one. *)
FairSpec == Spec /\ (\A key \in Key : WF_vars(WorkerNext(key))) /\ WF_vars(MainNext)

-----------------------------------------------------------------------------
(* Linearizability, by its definition *)

(* The replay of operations in an order: the contents of every key, and    *)
(* whether each operation could return what it did.                        *)
Replay(ops, order) ==
    FoldLeft(LAMBDA r, k : LET step == Step(r.store[ops[k].key], ops[k])
                           IN  [ok |-> r.ok /\ step.ok, store |-> [r.store EXCEPT ![ops[k].key] = step.state]],
             [ok |-> TRUE, store |-> [key \in Key |-> InitValue]], order)

(* The orders in which some of the operations can have taken effect: one   *)
(* that has returned before another was called goes first.                 *)
PartialLinearizations(ops) ==
    {order \in SetToAllKPermutations(DOMAIN ops) :
        /\ \A k \in DOMAIN order : \A j \in (DOMAIN ops) \ Range(SubSeq(order, 1, k)) :
              ops[order[k]].call < ops[j].return
        /\ Replay(ops, order).ok}

Linearizable(ops) == \E order \in PartialLinearizations(ops) : Len(order) = Len(ops)

-----------------------------------------------------------------------------
(* Properties *)

(* Every variable holds a value of its type. *)
TypeOK ==
    /\ verbose \in BOOLEAN /\ hasTimeout \in BOOLEAN /\ kill \in BOOLEAN
    /\ DOMAIN worker = Keys
    /\ \A key \in Keys :
          LET n == Len(worker[key].entries) IN
          /\ worker[key].pc \in {"search", "report", "done"}
          /\ worker[key].list.next \in [0 .. n -> NoNode .. n] /\ worker[key].list.prev \in [0 .. n -> NoNode .. n]
          /\ worker[key].pc = "search" /\ worker[key].list.next[Head0] # NoNode => worker[key].entry \in 1 .. n
    /\ results \in Seq(BOOLEAN) /\ main.count + Len(results) <= Count
    /\ main.pc \in {"loop", "drain", "end", "done"} /\ main.result \in {"none", "Ok", "Illegal", "Unknown"}

(* The verdict is right, for the whole history although each key is        *)
(* checked on its own (model.go: "a history is linearizable if an only if  *)
(* each partition is linearizable"), and whatever the timeout interrupts:  *)
(* a goroutine that was stopped reports false too.                         *)
VerdictRight ==
    /\ main.result = "Ok" => Linearizable(history)
    /\ main.result = "Illegal" => ~Linearizable(history)

(* The search undoes what it did: the list holds what is not linearized,   *)
(* in order and linked both ways, the bitset is the set of the calls on    *)
(* the stack, and the state is what they lead to.                          *)
SearchInStep ==
    \A key \in Keys :
        LET w == worker[key]
            ids == Ids(w)
            left == {e \in DOMAIN w.entries : w.entries[e].id \notin Range(ids)}
        IN  /\ \A e \in left \cup {Head0} :
                  LET after == {x \in left : x > e}
                      next == w.list.next[e]
                  IN  IF after = {} THEN next = NoNode
                      ELSE next \in after /\ w.list.prev[next] = e /\ \A x \in after : next <= x
            /\ {id \in DOMAIN w.longest : get(w.linearized, id)} = Range(ids)
            /\ w.state = Replay(w.ops, [k \in DOMAIN ids |-> ids[k] + 1]).store[key]

(* The partial linearizations of a verbose check are legal ones, and when  *)
(* the check was not cut short each operation that is in any has a longest *)
(* one (checker.go: "longest linearizable prefix that includes the given   *)
(* entry").                                                                *)
PartialsLongest ==
    main.pc = "done" /\ verbose =>
        \A key \in Keys :
            LET w == worker[key]
                legal == PartialLinearizations(w.ops)
                longest(k) == [n \in DOMAIN w.longest[k - 1] |-> w.longest[k - 1][n] + 1]
            IN  /\ main.partial[key] = Range(w.longest) \ {<<>>}
                /\ \A k \in DOMAIN w.ops :
                      /\ longest(k) \in legal
                      /\ longest(k) # <<>> => k \in Range(longest(k))
                      /\ ~main.timedOut => \A s \in legal : k \in Range(s) => Len(longest(k)) >= Len(s)

(* A check ends, and no goroutine stays behind, when there is something to *)
(* check or a timeout.                                                     *)
CheckEnds ==
    (history # <<>> \/ hasTimeout) ~> (main.pc = "done" /\ \A key \in Keys : worker[key].pc = "done")
=============================================================================
