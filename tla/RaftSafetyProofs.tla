-------------------------- MODULE RaftSafetyProofs --------------------------
(***************************************************************************)
(* What is proved of Raft: that what a peer must remember is on disk, that *)
(* a term has one leader, and, as long as nothing is compacted, that the   *)
(* logs agree, that what is applied stays, and that the peers together are *)
(* a replicated log.                                                       *)
(***************************************************************************)
EXTENDS RaftProofs, RaftLeaderProofs, RaftFollowerProofs

(* A leaf is left to Zenon unless it names another prover. *)
USE ZenonT(60)

-----------------------------------------------------------------------------
(* The step of the invariant *)

(* The facts about the data that the lemmas assume. *)
LEMMA FactsHold ==
    ASSUME PlainCluster
    PROVE  CountingFacts /\ MedianFacts /\ SearchFacts
BY CountingHolds, MedianHolds, SearchHolds DEF PlainCluster

(* Every step keeps the histories, or continues them. *)
LEMMA HistoryStep ==
    ASSUME PlainCluster, TypeOK, TypeOK', Durable, ElectionInv, ElectionSafety, ElectionSafety', SnapFree,
           NEW T, NEW W, History(T, W), [Next]_vars
    PROVE  HistoryInv'
<1>1. CountingFacts /\ MedianFacts /\ SearchFacts /\ AtomicCheck /\ InOrder
    BY FactsHold DEF PlainCluster
<1>2. CASE History(T, W)'
    BY <1>2 DEF HistoryInv
<1>3. CASE UNCHANGED vars
    BY <1>2, <1>3, QuietActions
<1>4. ASSUME NEW i \in Server, startElection(i) PROVE HistoryInv'
    BY <1>2, <1>4, startElectionHistory
<1>5. ASSUME NEW i \in Server, NEW g \in voters[i], sendRequestVote(i, g) PROVE HistoryInv'
    BY <1>2, <1>5, sendRequestVoteHistory
<1>6. ASSUME NEW m \in rvReq, RequestVote(m) PROVE HistoryInv'
    BY <1>2, <1>6, RequestVoteHistory
<1>7. ASSUME NEW r \in rvRep, VoteReply(r) PROVE HistoryInv'
    BY <1>2, <1>7, QuietActions
<1>8. ASSUME NEW i \in Server, ElectionCheck(i) \/ OfferSnapshot(i) PROVE HistoryInv'
    BY <1>2, <1>8, QuietActions
<1>9. ASSUME NEW i \in Server, NEW t, BecomeLeader(i, t) PROVE HistoryInv'
    BY <1>1, <1>9, BecomeLeaderHistory DEF HistoryInv
<1>10. ASSUME NEW i \in Server, NEW t \in noops[i], StartNoop(i, t) PROVE HistoryInv'
    <2>1. CASE tp[i] # Leader
        BY <1>2, <1>10, <2>1, QuietActions
    <2>2. CASE tp[i] = Leader
        <3>1. AppendToLog(i, "no-op") /\ UNCHANGED <<installs, voteNet, appendNet, serviceVars, votes, leaders>>
            BY <1>10, <2>2 DEF StartNoop
        <3>2. "no-op" \in Commands \cup {"no-op"}
            OBVIOUS
        <3> QED
            BY <1>1, <2>2, <3>1, <3>2, AppendHistory DEF HistoryInv
    <2> QED
        BY <2>1, <2>2
<1>11. ASSUME NEW i \in Server, NEW c \in Commands, Start(i, c) PROVE HistoryInv'
    <2>1. /\ tp[i] = Leader /\ AppendToLog(i, c) /\ UNCHANGED <<installs, voteNet, appendNet, serviceVars, votes, leaders>>
        BY <1>11 DEF Start
    <2>2. c \in Commands \cup {"no-op"}
        OBVIOUS
    <2> QED
        BY <1>1, <2>1, <2>2, AppendHistory DEF HistoryInv
<1>12. ASSUME NEW i \in Server, NEW j \in Server, SpawnInstall(i, j) PROVE HistoryInv'
    BY <1>2, <1>12, SpawnInstallHistory
<1>13. ASSUME NEW i \in Server, NEW j \in Server, sendAppendEntries(i, j) PROVE HistoryInv'
    BY <1>1, <1>2, <1>13, sendAppendEntriesHistory
<1>14. ASSUME NEW i \in Server, NEW g \in installs[i], sendSnapShot(i, g) PROVE HistoryInv'
    BY <1>2, <1>14, sendSnapShotHistory
<1>15. ASSUME NEW m \in aeReq, AppendEntries(m) PROVE HistoryInv'
    <2>1. \E V : History(T, V)'
        BY <1>1, <1>15, AppendEntriesHistory
    <2> QED
        BY <2>1 DEF HistoryInv
<1>16. ASSUME NEW r \in aeRep, AppendReply(r) PROVE HistoryInv'
    BY <1>1, <1>2, <1>16, AppendReplyHistory
<1>17. ASSUME NEW m \in isReq, InstallSnapshot(m) PROVE HistoryInv'
    BY <1>2, <1>17, InstallSnapshotHistory
<1>18. ASSUME NEW r \in isRep, SnapReply(r) PROVE HistoryInv'
    BY <1>2, <1>18, SnapReplyHistory
<1>19. ASSUME NEW x \in InFlight, LoseCall(x) PROVE HistoryInv'
    BY <1>2, <1>19, QuietActions
<1>20. ASSUME NEW i \in Server, persistV2(i) PROVE HistoryInv'
    <2>1. Ss[i] = 0 /\ ~(0 > 0)
        BY NatOrder DEF SnapFree
    <2> QED
        BY <1>20, <2>1 DEF persistV2
<1>21. ASSUME NEW i \in Server, Make(i) PROVE HistoryInv'
    BY <1>2, <1>21, CrashHistory
<1>22. ASSUME NEW m \in rvReq \cup aeReq \cup isReq, CrashAfterTermUpdate(m) PROVE HistoryInv'
    BY <1>2, <1>22, CrashHistory
<1>23. ASSUME NEW m \in isReq, CrashInInstall(m) PROVE HistoryInv'
    <2>1. m.to \in Server /\ m.LastIncludedIndex = 0 /\ snapshotIndex[m.to] = 0
        BY DEF TypeOK, AppendNetTypes, SnapRequest, SnapFree
    <2>2. ~(m.LastIncludedIndex > snapshotIndex[m.to])
        BY <2>1, NatOrder
    <2> QED
        BY <1>23, <2>2 DEF CrashInInstall
<1> QED
    BY <1>3, <1>4, <1>5, <1>6, <1>7, <1>8, <1>9, <1>10, <1>11, <1>12, <1>13, <1>14, <1>15, <1>16, <1>17, <1>18,
       <1>19, <1>20, <1>21, <1>22, <1>23 DEF Next

(* Every step keeps the invariant of the logs. *)
LEMMA LogStep ==
    ASSUME PlainCluster, TypeOK, TypeOK', DurableInv, ElectionInv, ElectionSafety, ElectionSafety', LogInv, [Next]_vars
    PROVE  LogInv'
<1>1. PICK T, W : History(T, W)
    BY DEF LogInv, HistoryInv
<1>2. Durable /\ SnapFree /\ Snapshots = {}
    BY DEF DurableInv, LogInv, PlainCluster
<1>3. HistoryInv'
    BY <1>1, <1>2, HistoryStep
<1>4. SnapFree'
    BY <1>2, SnapFreeStep
<1> QED
    BY <1>3, <1>4 DEF LogInv

(* What the steps do to the services and to commitIndex. *)
LEMMA CommitStep ==
    ASSUME PlainCluster, TypeOK, TypeOK', DurableInv, ElectionInv, ElectionSafety, LogInv, [Next]_vars
    PROVE  /\ ServiceStep
           /\ \A i \in Server :
                  tp[i] = Leader /\ tp'[i] = Leader /\ commitIndex'[i] > commitIndex[i]
                  /\ snapshotIndex'[i] = snapshotIndex[i] =>
                      EntryAt(i, commitIndex'[i]).Term = currentTerm[i]
<1>1. PICK T, W : History(T, W)
    BY DEF LogInv, HistoryInv
<1>2. Durable /\ SnapFree /\ CountingFacts /\ MedianFacts /\ SearchFacts
    BY FactsHold DEF DurableInv, LogInv
<1>3. ASSUME NEW m \in aeReq, AppendEntries(m) PROVE FollowerCommits
    BY <1>1, <1>2, <1>3, AppendEntriesHistory
<1>4. ServiceStep
    <2>1. \A m \in aeReq : AppendEntries(m) => commitIndex[m.to] <= commitIndex'[m.to]
        BY <1>3 DEF FollowerCommits, TypeOK, AppendNetTypes, AppendRequest
    <2> QED
        BY <1>2, <2>1, ServiceSteps
<1>5. ASSUME NEW i \in Server, tp[i] = Leader, tp'[i] = Leader, commitIndex'[i] > commitIndex[i],
             snapshotIndex'[i] = snapshotIndex[i]
      PROVE  EntryAt(i, commitIndex'[i]).Term = currentTerm[i]
    <2>1. commitIndex' # commitIndex /\ commitIndex'[i] # commitIndex[i] /\ tp'[i] # Follower
        BY <1>5, NatOrder, Roles DEF TypeOK, ServiceTypes
    <2>2. \A m \in aeReq : ~AppendEntries(m)
        BY <1>3, <2>1 DEF FollowerCommits
    <2>3. \A r \in aeRep : AppendReply(r) => EntryAt(i, commitIndex'[i]).Term = currentTerm[i]
        BY <1>1, <1>2, <1>5, CountedOwnTerm
    <2>4. ASSUME NEW m \in isReq, InstallSnapshot(m) PROVE FALSE
        <3>1. m.to \in Server /\ m.LastIncludedIndex = 0 /\ snapshotIndex[m.to] = 0
            BY <1>2 DEF TypeOK, AppendNetTypes, SnapRequest, SnapFree
        <3>2. ~(m.LastIncludedIndex > snapshotIndex[m.to])
            BY <3>1, NatOrder
        <3> QED
            BY <2>1, <2>4, <3>2 DEF InstallSnapshot, serviceVars
    <2>5. ASSUME NEW j \in Server, NEW disk, NEW H, Restart(j, disk, H) PROVE FALSE
        <3>1. tp' = [tp EXCEPT ![j] = Follower] /\ commitIndex' = [commitIndex EXCEPT ![j] = snapshot[j].LastIndex]
            BY <2>5 DEF Restart
        <3> QED
            BY <2>1, <3>1 DEF TypeOK, TermTypes, ServiceTypes
    <2>6. \A m \in rvReq \cup aeReq \cup isReq : m.to \in Server
        BY DEF TypeOK, VoteNetTypes, AppendNetTypes, VoteRequest, AppendRequest, SnapRequest
    <2>7. \A j \in Server : ~Make(j)
        BY <2>5 DEF Make
    <2>8. \A m \in rvReq \cup aeReq \cup isReq : ~CrashAfterTermUpdate(m) /\ ~CrashInInstall(m)
        BY <2>5, <2>6 DEF CrashAfterTermUpdate, CrashInInstall
    <2>9. \A m \in isReq : ~CrashInInstall(m)
        BY <2>8
    <2> QED
        BY <2>1, <2>2, <2>3, <2>4, <2>7, <2>8, <2>9
           DEF Next, vars, serviceVars, startElection, sendRequestVote, RequestVote, VoteReply, ElectionCheck,
               BecomeLeader, Start, StartNoop, SpawnInstall, sendAppendEntries, sendSnapShot, SnapReply, LoseCall,
               OfferSnapshot, persistV2
<1> QED
    BY <1>4, <1>5

(* What the invariant says of a state. *)
LEMMA LogsSafe ==
    ASSUME PlainCluster, TypeOK, LogInv
    PROVE  LogMatching /\ CommittedHeld /\ StateMachineSafety /\ MatchIsTrue /\ CommitUpToDate /\ NextInRange
<1>1. PICK T, W : History(T, W)
    BY DEF LogInv, HistoryInv
<1>2. SnapFree /\ CountingFacts
    BY FactsHold DEF LogInv
<1>3. LogMatching /\ CommittedHeld /\ StateMachineSafety
    BY <1>1, <1>2, HistoryMatches, HistoryHeld, HistoryApplies
<1>4. MatchIsTrue /\ CommitUpToDate /\ NextInRange
    BY <1>1, <1>2, HistoryMatched, HistoryNext DEF History
<1> QED
    BY <1>3, <1>4

(* A leader has what was applied in earlier terms. *)
LEMMA LeadersComplete ==
    ASSUME PlainCluster, TypeOK, LogInv, ToldInv
    PROVE  LeaderCompleteness
<1>1. PICK T, W : History(T, W)
    BY DEF LogInv, HistoryInv
<1>2. SnapFree /\ CountingFacts /\ applied \subseteq Nat \X Entry \X Nat
    BY FactsHold DEF LogInv, ToldInv
<1> QED
    BY <1>1, <1>2, HistoryComplete

-----------------------------------------------------------------------------
(* Elections *)

(* Whenever rf.mu is free the Persister holds the peer's term, vote, log   *)
(* and snapshot.                                                           *)
THEOREM DurableCorrect == Spec => []Durable
<1>1. DurableInv => Durable
    BY DEF DurableInv
<1> QED
    BY <1>1, TypeCorrect, DurableInvariant, PTL

(* A peer votes for at most one candidate per term, whatever crashes and   *)
(* restarts happen and in whatever order requests arrive.                  *)
THEOREM VoteOnceCorrect == Spec => []VoteOnce
<1>1. ElectionInv => VoteOnce
    BY DEF ElectionInv
<1> QED
    BY <1>1, TypeCorrect, ElectionInvariant, PTL

(* rf.voteCount counts distinct peers that voted for the candidate in its  *)
(* current term.                                                           *)
THEOREM VotesCountedOnceCorrect == Spec => []VotesCountedOnce
<1>1. ElectionInv => VotesCountedOnce
    BY DEF ElectionInv
<1> QED
    BY <1>1, TypeCorrect, ElectionInvariant, PTL

(* If nothing runs between the unlocked test of startElection's loop and   *)
(* its Lock(), no term has two leaders.                                    *)
THEOREM ElectionSafe == AtomicCheck => (Spec => []ElectionSafety)
<1> SUFFICES ASSUME AtomicCheck PROVE Spec => []ElectionSafety
    OBVIOUS
<1>1. Spec /\ []TypeOK => []ElectionSafety
    BY CountingHolds, ElectedInvariant
<1> QED
    BY <1>1, TypeCorrect, PTL

-----------------------------------------------------------------------------
(* Logs *)

(* The invariant of the logs holds throughout. *)
LEMMA LogInvariant ==
    ASSUME PlainCluster
    PROVE  Spec => [](TypeOK /\ DurableInv /\ ElectionInv /\ ElectionSafety /\ LogInv)
<1>1. AtomicCheck => (Spec => []ElectionSafety)
    BY ElectionSafe
<1>2. Spec => []ElectionSafety
    BY <1>1 DEF PlainCluster
<1>3. Init => LogInv
    BY HistoryInit DEF LogInv
<1>4. TypeOK /\ TypeOK' /\ DurableInv /\ ElectionInv /\ ElectionSafety /\ ElectionSafety' /\ LogInv /\ [Next]_vars => LogInv'
    BY LogStep
<1> QED
    BY <1>2, <1>3, <1>4, TypeCorrect, DurableInvariant, ElectionInvariant, PTL DEF Spec

(* So does that of what the services are told. *)
LEMMA ToldInvariant ==
    ASSUME PlainCluster
    PROVE  Spec => []ToldInv
<1>1. Init => ToldInv
    BY HistoryInit
<1>2. TypeOK /\ LogInv => CommittedHeld
    BY LogsSafe
<1>3. LogInv => SnapFree
    BY DEF LogInv
<1>4. /\ TypeOK /\ DurableInv /\ ElectionInv /\ ElectionSafety /\ LogInv /\ [Next]_vars
      /\ TypeOK' /\ SnapFree' /\ CommittedHeld' /\ ToldInv
      => ToldInv'
    BY CommitStep, ToldStep
<1> QED
    BY <1>1, <1>2, <1>3, <1>4, LogInvariant, PTL DEF Spec

(* Two logs with an entry of one term at one index agree up to there.      *)
THEOREM LogMatchingCorrect == PlainCluster => (Spec => []LogMatching)
<1> SUFFICES ASSUME PlainCluster PROVE Spec => []LogMatching
    OBVIOUS
<1>1. TypeOK /\ LogInv => LogMatching
    BY LogsSafe
<1> QED
    BY <1>1, LogInvariant, PTL

(* AppendEntries never cuts off what is committed.                         *)
THEOREM CommittedHeldCorrect == PlainCluster => (Spec => []CommittedHeld)
<1> SUFFICES ASSUME PlainCluster PROVE Spec => []CommittedHeld
    OBVIOUS
<1>1. TypeOK /\ LogInv => CommittedHeld
    BY LogsSafe
<1> QED
    BY <1>1, LogInvariant, PTL

(* No two peers, or lives of a peer, apply different commands at one index *)
(* (config.go: "commit index=%v server=%v %v != server=%v %v").            *)
THEOREM StateMachineSafe == PlainCluster => (Spec => []StateMachineSafety)
<1> SUFFICES ASSUME PlainCluster PROVE Spec => []StateMachineSafety
    OBVIOUS
<1>1. TypeOK /\ LogInv => StateMachineSafety
    BY LogsSafe
<1> QED
    BY <1>1, LogInvariant, PTL

(* A leader has every entry that was applied in an earlier term: the vote  *)
(* of RequestVote keeps candidates without them from winning.              *)
THEOREM LeaderCompletenessCorrect == PlainCluster => (Spec => []LeaderCompleteness)
<1> SUFFICES ASSUME PlainCluster PROVE Spec => []LeaderCompleteness
    OBVIOUS
<1>1. TypeOK /\ LogInv /\ ToldInv => LeaderCompleteness
    BY LeadersComplete
<1> QED
    BY <1>1, LogInvariant, ToldInvariant, PTL

(* matchIndex promises only what the follower has.                         *)
THEOREM MatchIsTrueCorrect == PlainCluster => (Spec => []MatchIsTrue)
<1> SUFFICES ASSUME PlainCluster PROVE Spec => []MatchIsTrue
    OBVIOUS
<1>1. TypeOK /\ LogInv => MatchIsTrue
    BY LogsSafe
<1> QED
    BY <1>1, LogInvariant, PTL

(* The updateCommit that follows a failed call, an outdated reply or a     *)
(* step down has nothing to commit.                                        *)
THEOREM CommitUpToDateCorrect == PlainCluster => (Spec => []CommitUpToDate)
<1> SUFFICES ASSUME PlainCluster PROVE Spec => []CommitUpToDate
    OBVIOUS
<1>1. TypeOK /\ LogInv => CommitUpToDate
    BY LogsSafe
<1> QED
    BY <1>1, LogInvariant, PTL

(* nextIndex never passes the end of a leader's log: Append2's slices are  *)
(* in range.                                                               *)
THEOREM NextInRangeCorrect == PlainCluster => (Spec => []NextInRange)
<1> SUFFICES ASSUME PlainCluster PROVE Spec => []NextInRange
    OBVIOUS
<1>1. TypeOK /\ LogInv => NextInRange
    BY LogsSafe
<1> QED
    BY <1>1, LogInvariant, PTL

(* The service of a peer sees no gap (config.go: "server %v apply out of   *)
(* order").                                                                *)
THEOREM ApplyInOrderCorrect == PlainCluster => (Spec => []ApplyInOrder)
<1> SUFFICES ASSUME PlainCluster PROVE Spec => []ApplyInOrder
    OBVIOUS
<1>1. LogInv /\ ToldInv => ApplyInOrder
    BY ToldInOrder DEF LogInv
<1> QED
    BY <1>1, LogInvariant, ToldInvariant, PTL

(* Figure 8: a leader moves commitIndex only to an entry of its own term,  *)
(* although updateCommit does not look at terms.                           *)
THEOREM CommitsOwnTermCorrect == PlainCluster => (Spec => CommitsOwnTerm)
<1> SUFFICES ASSUME PlainCluster PROVE Spec => CommitsOwnTerm
    OBVIOUS
<1>1. /\ TypeOK /\ TypeOK' /\ DurableInv /\ ElectionInv /\ ElectionSafety /\ LogInv /\ [Next]_vars
      => [\A i \in Server :
              tp[i] = Leader /\ tp'[i] = Leader /\ commitIndex'[i] > commitIndex[i]
              /\ snapshotIndex'[i] = snapshotIndex[i] =>
                  EntryAt(i, commitIndex'[i]).Term = currentTerm[i]]_vars
    BY CommitStep
<1> QED
    BY <1>1, LogInvariant, PTL DEF Spec, CommitsOwnTerm

(* commitIndex falls only when the peer restarts. *)
THEOREM CommitMonotoneCorrect == PlainCluster => (Spec => CommitMonotone)
<1> SUFFICES ASSUME PlainCluster PROVE Spec => CommitMonotone
    OBVIOUS
<1>1. /\ TypeOK /\ TypeOK' /\ DurableInv /\ ElectionInv /\ ElectionSafety /\ LogInv /\ [Next]_vars
      => [\A i \in Server : commitIndex'[i] >= commitIndex[i] \/ restarts' # restarts]_vars
    BY CommitStep, CommitsRise
<1> QED
    BY <1>1, LogInvariant, PTL DEF Spec, CommitMonotone

(* The peers together implement a replicated log: what is decided only     *)
(* grows at its end, and every service applies a prefix of it.             *)
THEOREM ReplicatesCorrect == PlainCluster => (Spec => Replicates)
<1> SUFFICES ASSUME PlainCluster PROVE Spec => Replicates
    OBVIOUS
<1>1. Init => Abstract!Init
    BY ReplicatesInit
<1>2. TypeOK /\ LogInv => StateMachineSafety
    BY LogsSafe
<1>3. /\ TypeOK /\ TypeOK' /\ DurableInv /\ ElectionInv /\ ElectionSafety /\ LogInv /\ [Next]_vars
      /\ ToldInv /\ ToldInv' /\ StateMachineSafety'
      => [Abstract!Next]_<<Decided, lastApplied>>
    BY CommitStep, ReplicatesStep
<1> QED
    BY <1>1, <1>2, <1>3, LogInvariant, ToldInvariant, PTL DEF Spec, Replicates, Abstract!Spec
=============================================================================
