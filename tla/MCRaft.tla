------------------------------- MODULE MCRaft -------------------------------
(***************************************************************************)
(* Small instances of Raft for TLC.  Besides Init, executions are started  *)
(* from states in which some elections are over, to spend the bounds on    *)
(* what comes after.  Each is reachable from Init: the remaining RPCs of   *)
(* the elections that led to it were handled or lost.                      *)
(***************************************************************************)
EXTENDS RaftReplicates, TLC

CONSTANTS s1, s2, s3

Symmetry == Permutations(Server)

(* A quiet state with the given terms, logs, votes and elections won, in   *)
(* which lead has won the last election and the others have just           *)
(* restarted.  match is the matchIndex of lead: nobody has answered yet    *)
(* when it is 0 everywhere; otherwise lead has committed by counting and   *)
(* has told nobody.  crashes is how many of the restarts the bound allows  *)
(* have been used up.                                                      *)
Unanswered == [j \in Server |-> 0]
Quiet(term, lg, voted, won, lead, match, crashes) ==
    LET last == term[lead]
        commit == MedianMatch(match)
        ballot(i, t) == {v[3] : v \in {w \in voted : w[1] = i /\ w[2] = t}}
        mine == {v[1] : v \in {w \in voted : w[2] = last /\ w[3] = lead}}
        fresh == match = Unanswered
        msgs == [k \in 1 .. commit |->
                    [CommandValid |-> TRUE, CommandIndex |-> k, Command |-> lg[lead][k]]]
    IN  /\ currentTerm = term
        /\ votedFor = [i \in Server |-> IF ballot(i, term[i]) = {} THEN Nil
                                        ELSE CHOOSE c \in ballot(i, term[i]) : TRUE]
        /\ tp = [i \in Server |-> IF i = lead THEN Leader ELSE Follower]
        /\ log = lg
        /\ snapshotIndex = [i \in Server |-> 0] /\ snapshotTerm = [i \in Server |-> 0]
        /\ voteCount = [i \in Server |-> IF i = lead THEN Cardinality(mine) ELSE 0]
        /\ tally = [i \in Server |-> IF i = lead THEN mine ELSE {}]
        /\ nextIndex = [i \in Server |-> [j \in Server |->
               IF i = lead /\ ~fresh /\ j # lead THEN match[j] + 1 ELSE Len(lg[i]) + 1]]
        /\ matchIndex = [i \in Server |->
               IF i = lead THEN match ELSE [Unanswered EXCEPT ![i] = Len(lg[i])]]
        /\ startAppend = [i \in Server |-> i = lead /\ ~fresh]
        /\ commitIndex = [i \in Server |-> IF i = lead THEN commit ELSE 0]
        /\ lastApplied = commitIndex
        /\ raftstate = [i \in Server |->
               [currentTerm |-> currentTerm[i], votedFor |-> votedFor[i], log |-> log[i]]]
        /\ snapshot = [i \in Server |-> [LastIndex |-> 0, LastTerm |-> 0]]
        /\ voters = [i \in Server |-> {}] /\ checked = [i \in Server |-> {}]
        /\ noops = [i \in Server |-> IF i = lead /\ fresh /\ Noop THEN {last} ELSE {}]
        /\ installs = [i \in Server |-> {}]
        /\ rvReq = {} /\ rvRep = {} /\ aeReq = {} /\ aeRep = {} /\ isReq = {} /\ isRep = {}
        /\ applyCh = [i \in Server |-> IF i = lead THEN msgs ELSE <<>>]
        /\ Ss = [i \in Server |-> 0]
        /\ restarts = crashes
        /\ votes = voted /\ leaders = won
        /\ applied = {<<k, lg[lead][k], last>> : k \in 1 .. commit}

(* s1 has won the election of term 2 with the vote of s2; no term and no   *)
(* restart is left, so it leads to the end.                                *)
LedInit ==
    Quiet((s1 :> 2) @@ (s2 :> 2) @@ (s3 :> 0), [i \in Server |-> <<>>],
          {<<s1, 1, s1>>, <<s1, 2, s1>>, <<s2, 2, s1>>}, {<<2, s1>>}, s1, Unanswered, MaxRestarts)

(* s1 has won the election of term 1, has replicated two commands to s3 and *)
(* one to s2, and there are elections and restarts to come.                *)
First == [Command |-> CHOOSE c \in Commands : TRUE, Term |-> 1]
CommittedInit ==
    Quiet([i \in Server |-> 1],
          (s1 :> <<First, First>>) @@ (s2 :> <<First>>) @@ (s3 :> <<First, First>>),
          {<<s1, 1, s1>>, <<s2, 1, s1>>}, {<<1, s1>>}, s1, (s1 :> 2) @@ (s2 :> 1) @@ (s3 :> 2), 0)

(* Snapshots under a leader that stays, and under one that does not. *)
SnapshotSpec == (LedInit \/ CommittedInit) /\ [][Next]_vars

(* Figure 8 of the Raft paper with three peers: s1 led term 1 and s3 led   *)
(* term 2, each elected by s2 and each alone with its entry; s1 has been   *)
(* elected again, in term 3, by s2.                                        *)
NoopOf(t) == [Command |-> "no-op", Term |-> t]
Figure8Init ==
    Quiet((s1 :> 3) @@ (s2 :> 3) @@ (s3 :> 2),
          (s1 :> <<NoopOf(1)>>) @@ (s2 :> <<>>) @@ (s3 :> <<NoopOf(2)>>),
          {<<s1, 1, s1>>, <<s2, 1, s1>>, <<s3, 2, s3>>, <<s2, 2, s3>>, <<s1, 3, s1>>, <<s2, 3, s1>>},
          {<<1, s1>>, <<2, s3>>, <<3, s1>>}, s1, Unanswered, 0)
Figure8Spec == Figure8Init /\ [][Next]_vars

(* s1 led term 1, brought its entry to s3, and has been elected again, in  *)
(* term 2, by s3.                                                          *)
ReelectedInit ==
    Quiet((s1 :> 2) @@ (s2 :> 1) @@ (s3 :> 2),
          (s1 :> <<NoopOf(1)>>) @@ (s2 :> <<>>) @@ (s3 :> <<NoopOf(1)>>),
          {<<s1, 1, s1>>, <<s2, 1, s1>>, <<s1, 2, s1>>, <<s3, 2, s1>>}, {<<1, s1>>, <<2, s1>>}, s1, Unanswered, 0)
ReelectedSpec == ReelectedInit /\ [][Next]_vars
=============================================================================
