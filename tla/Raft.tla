-------------------------------- MODULE Raft --------------------------------
(***************************************************************************)
(* The Raft peer of src/raft/raft.go: elections, log replication,          *)
(* commitment, log compaction, persistence and restart.  A step is one     *)
(* critical section of rf.mu (or one unlocked read that the code acts on   *)
(* later); RPCs are in flight between the step that sends them, the step   *)
(* that handles them and the step that handles the reply.                  *)
(*                                                                         *)
(* A log is the code's rf.log without its dummy entry 0, so that position  *)
(* k of the sequence is rf.log[k].  As in the code, nextIndex is relative  *)
(* to snapshotIndex, while commitIndex, matchIndex and every index carried *)
(* by a message are absolute.                                              *)
(***************************************************************************)
EXTENDS Integers, Sequences, FiniteSets

CONSTANTS
    Server,         \* the peers
    Nil,            \* votedFor = -1
    Commands,       \* what clients pass to Start
    Noop,           \* rf.Noop: a new leader starts a no-op (set by kvraft)
    Snapshots,      \* the peers whose service offers snapshots (kv.maxraftstate # -1)
    AtomicCheck,    \* schedules in which nothing runs between the unlocked
                    \* test of startElection's loop and its Lock()
    InOrder,        \* networks in which the AppendEntries and InstallSnapshot
                    \* calls of a pair do not overtake each other
    Timers,         \* bound: the peers whose election timer fires
    MaxTerm,        \* bound: no election is started from this term
    MaxElections,   \* bound: elections started, in total
    MaxLog,         \* bound: clients call Start below this last index
    MaxInFlight,    \* bound: those calls in flight at a time
    MaxRestarts     \* bound: crashes followed by a restart, in total

ASSUME ServerAssumption == IsFiniteSet(Server) /\ Server # {} /\ Nil \notin Server
ASSUME FlagAssumption ==
    /\ Noop \in BOOLEAN /\ AtomicCheck \in BOOLEAN /\ InOrder \in BOOLEAN
    /\ Snapshots \subseteq Server /\ Timers \subseteq Server
ASSUME BoundAssumption ==
    MaxTerm \in Nat /\ MaxElections \in Nat /\ MaxLog \in Nat /\ MaxInFlight \in Nat /\ MaxRestarts \in Nat

Follower  == 0
Candidate == 1
Leader    == 2

VARIABLES
    currentTerm, votedFor, tp,              \* rf.currentTerm, rf.votedFor, rf.tp
    log, snapshotIndex, snapshotTerm,       \* rf.log, rf.snapshotIndex, rf.snapshotTerm
    voteCount,                              \* rf.voteCount
    nextIndex, matchIndex, startAppend,     \* leader state
    commitIndex,
    raftstate, snapshot,                    \* the Persister: raft state, snapshot (index and term)
    voters,         \* vote goroutines that have not built their arguments yet
    checked,        \* terms of the startElection goroutines that have passed the
                    \* unlocked test of their loop and not taken the lock yet
    noops,          \* terms of those that have won and not called Start yet
    installs,       \* install goroutines spawned by Append2 that have not run yet
    rvReq, rvRep,   \* RequestVote calls: requests not handled, replies not handled
    aeReq, aeRep,   \* AppendEntries calls
    isReq, isRep,   \* InstallSnapshot calls
    applyCh,        \* ApplyMsgs the peer has sent to its service since Make
    lastApplied,    \* kv.lastApplied, the index the service has reached
    Ss,             \* rf.Ss: index of the snapshot the service offers, 0 if none
    restarts,       \* crashes so far
    votes,          \* history: <<voter, term, candidate>> of every vote given
    tally,          \* history: the voters counted in voteCount
    leaders,        \* history: <<term, server>> of every transition to leader
    applied         \* history: <<index, entry, term>> of every command ever applied,
                    \* term being the term of the peer that applied it

termVars    == <<currentTerm, votedFor, tp>>
logVars     == <<log, snapshotIndex, snapshotTerm>>
leaderVars  == <<nextIndex, matchIndex, startAppend>>
diskVars    == <<raftstate, snapshot>>
electVars   == <<voteCount, tally, voters, checked, noops>>
voteNet     == <<rvReq, rvRep>>
appendNet   == <<aeReq, aeRep, isReq, isRep>>
serviceVars == <<commitIndex, applyCh, lastApplied, applied>>
vars == <<termVars, logVars, leaderVars, diskVars, electVars, voteNet, appendNet,
          serviceVars, installs, Ss, restarts, votes, leaders>>

-----------------------------------------------------------------------------
(* Data *)

N == Cardinality(Server)
Entry == [Command : Commands \cup {"no-op"}, Term : Nat]

LastLogIndex(i) == Len(log[i]) + snapshotIndex[i]

(* Mutant: the term of the snapshot is forgotten. *)
LastLogTerm_NoSnapshot(i) == IF log[i] = <<>> THEN 0 ELSE log[i][Len(log[i])].Term

LastLogTerm(i) == IF log[i] = <<>> THEN snapshotTerm[i] ELSE log[i][Len(log[i])].Term
TermAt(l, k) == IF k = 0 THEN 0 ELSE l[k].Term

(* Mutant: the vote is not written. *)
persist_NoVote(i) ==
    raftstate' = [raftstate EXCEPT ![i] = [currentTerm |-> currentTerm'[i],
                                           votedFor |-> raftstate[i].votedFor, log |-> log'[i]]]

(* Mutant: the log is written before it is changed. *)
persist_OldLog(i) ==
    raftstate' = [raftstate EXCEPT ![i] = [currentTerm |-> currentTerm'[i],
                                           votedFor |-> votedFor'[i], log |-> log[i]]]

(* persist(): the Persister receives the values the peer has at that point. *)
persist(i) ==
    raftstate' = [raftstate EXCEPT ![i] = [currentTerm |-> currentTerm'[i],
                                           votedFor |-> votedFor'[i], log |-> log'[i]]]

(* termUpdate(newTerm, 0, -1), short of the persist() at its end. *)
termUpdate(i, newTerm) ==
    /\ currentTerm' = [currentTerm EXCEPT ![i] = newTerm]
    /\ tp' = [tp EXCEPT ![i] = Follower]
    /\ votedFor' = [votedFor EXCEPT ![i] = Nil]

(* Mutant: termUpdate without its persist(). *)
StepDown_Unsaved(i, newTerm) == termUpdate(i, newTerm) /\ UNCHANGED <<logVars, diskVars>>

StepDown(i, newTerm) == termUpdate(i, newTerm) /\ UNCHANGED logVars /\ persist(i) /\ UNCHANGED snapshot

(* Mutant: the term is not compared. *)
Outdated_Never(i, termTemp) == FALSE

(* A goroutine started in term termTemp finds that the term has moved on. *)
Outdated(i, termTemp) == termTemp < currentTerm[i]

(* Mutant: only the newest entry is sent. *)
CommandMsgs_Newest(l, snap, lo, hi, times) ==
    IF lo > hi THEN <<>>
    ELSE <<[CommandValid |-> TRUE, CommandIndex |-> hi, Command |-> l[hi - snap]]>>

(* The ApplyMsgs for the entries lo..hi of a log, each sent `times' times. *)
CommandMsgs(l, snap, lo, hi, times) ==
    [k \in 1 .. times * (hi - lo + 1) |->
        LET x == lo + ((k - 1) \div times)
        IN  [CommandValid |-> TRUE, CommandIndex |-> x, Command |-> l[x - snap]]]

(* The service of i, which is in term t, receives msgs in order; Applier   *)
(* sets kv.lastApplied to each command's index.                            *)
Apply(i, t, msgs) ==
    /\ applyCh' = [applyCh EXCEPT ![i] = @ \o msgs]
    /\ lastApplied' = [lastApplied EXCEPT ![i] =
                          IF msgs = <<>> THEN @ ELSE msgs[Len(msgs)].CommandIndex]
    /\ applied' = applied \cup {<<msgs[k].CommandIndex, msgs[k].Command, t>> : k \in DOMAIN msgs}

(* Mutant: the highest matchIndex. *)
MedianMatch_Highest(m) == CHOOSE v \in {m[j] : j \in Server} : \A j \in Server : m[j] <= v

(* updateCommit: the value at position N/2 of matchIndex in ascending order. *)
MedianMatch(m) ==
    CHOOSE v \in {m[j] : j \in Server} :
        /\ Cardinality({j \in Server : m[j] < v}) <= N \div 2
        /\ Cardinality({j \in Server : m[j] <= v}) > N \div 2

(* Mutant: it runs before the reply is recorded. *)
updateCommit_Early(i, match) ==
    LET pre == commitIndex[i]
        temp == MedianMatch(matchIndex[i])
        new == IF temp > pre THEN temp ELSE pre
    IN  /\ commitIndex' = [commitIndex EXCEPT ![i] = new]
        /\ Apply(i, currentTerm[i], CommandMsgs(log[i], snapshotIndex[i], pre + 1, new, 1))

updateCommit(i, match) ==
    LET pre == commitIndex[i]
        temp == MedianMatch(match)
        new == IF temp > pre THEN temp ELSE pre
    IN  /\ commitIndex' = [commitIndex EXCEPT ![i] = new]
        /\ Apply(i, currentTerm[i],
                 IF pre >= snapshotIndex[i]
                 THEN CommandMsgs(log[i], snapshotIndex[i], pre + 1, new, 1) ELSE <<>>)

(* findEntry: the first position of the run of equal terms that ends at p  *)
(* (position 0 holds a dummy entry of term 0).                             *)
findEntry(l, p) == CHOOSE k \in 0 .. p :
    /\ \A j \in k .. p : TermAt(l, j) = TermAt(l, p)
    /\ k > 0 => TermAt(l, k - 1) # TermAt(l, p)

(* findLast: the last position up to start with term t; -1 if there is none. *)
findLast(l, t, start) ==
    LET low == {k \in 0 .. start : TermAt(l, k) <= t}
        top == CHOOSE k \in low : \A j \in low : j <= k
    IN  IF low = {} THEN 0 ELSE IF TermAt(l, top) = t THEN top ELSE -1

-----------------------------------------------------------------------------
(* Elections *)

(* The oscillator starts startElection in a goroutine of its own; by the   *)
(* time that goroutine takes the lock tp may be anything, so the step is   *)
(* not guarded by tp.                                                      *)
startElection(i) ==
    LET t == currentTerm[i] + 1
    IN  /\ i \in Timers
        /\ currentTerm[i] < MaxTerm
        /\ Cardinality({v \in votes : v[1] = v[3]}) < MaxElections
        /\ currentTerm' = [currentTerm EXCEPT ![i] = t]
        /\ votedFor' = [votedFor EXCEPT ![i] = i]
        /\ tp' = [tp EXCEPT ![i] = Candidate]
        /\ voteCount' = [voteCount EXCEPT ![i] = 1]
        /\ voters' = [voters EXCEPT ![i] = @ \cup {[term |-> t, to |-> j] : j \in Server \ {i}}]
        /\ UNCHANGED logVars
        /\ persist(i)
        /\ votes' = votes \cup {<<i, t, i>>}
        /\ tally' = [tally EXCEPT ![i] = {i}]
        /\ UNCHANGED <<leaderVars, snapshot, checked, noops, installs, voteNet, appendNet, serviceVars, Ss,
                       restarts, leaders>>

(* A vote goroutine reads the log when it runs, not when it is spawned. *)
sendRequestVote(i, g) ==
    /\ voters' = [voters EXCEPT ![i] = @ \ {g}]
    /\ rvReq' = rvReq \cup {[from |-> i, to |-> g.to, Term |-> g.term, LastLogIndex |-> LastLogIndex(i),
                             LastLogTerm |-> LastLogTerm(i), live |-> TRUE]}
    /\ UNCHANGED <<termVars, logVars, leaderVars, diskVars, voteCount, tally, checked, noops, installs, rvRep,
                   appendNet, serviceVars, Ss, restarts, votes, leaders>>

UpToDate(i, m) ==
    \/ m.LastLogTerm > LastLogTerm(i)
    \/ m.LastLogTerm = LastLogTerm(i) /\ m.LastLogIndex >= LastLogIndex(i)

(* Mutant: votedFor is not looked at. *)
Grants_Again(i, m) == m.Term >= currentTerm[i] /\ UpToDate(i, m)

Grants(i, m) ==
    /\ m.Term >= currentTerm[i]
    /\ m.Term > currentTerm[i] \/ votedFor[i] \in {Nil, m.from}
    /\ UpToDate(i, m)

RequestVote(m) ==
    LET i == m.to
        newer == m.Term > currentTerm[i]
        grant == Grants(i, m)
    IN  /\ currentTerm' = [currentTerm EXCEPT ![i] = IF newer THEN m.Term ELSE @]
        /\ tp' = [tp EXCEPT ![i] = IF newer THEN Follower ELSE @]
        /\ votedFor' = [votedFor EXCEPT ![i] = IF grant THEN m.from ELSE IF newer THEN Nil ELSE @]
        /\ UNCHANGED logVars
        /\ IF newer \/ grant THEN persist(i) ELSE UNCHANGED raftstate
        /\ votes' = IF grant THEN votes \cup {<<i, m.Term, m.from>>} ELSE votes
        /\ rvReq' = rvReq \ {m}
        /\ rvRep' = IF m.live
                    THEN rvRep \cup {[from |-> m.from, to |-> i, termTemp |-> m.Term,
                                      Term |-> currentTerm[i], VoteGranted |-> grant]}
                    ELSE rvRep
        /\ UNCHANGED <<leaderVars, snapshot, electVars, installs, appendNet, serviceVars, Ss,
                       restarts, leaders>>

(* The end of a vote goroutine. *)
VoteReply(r) ==
    LET i == r.from
    IN  /\ rvRep' = rvRep \ {r}
        /\ \/ /\ ~Outdated(i, r.termTemp)
              /\ r.Term > currentTerm[i]
              /\ StepDown(i, r.Term)
              /\ UNCHANGED <<voteCount, tally>>
           \/ /\ ~Outdated(i, r.termTemp)
              /\ r.Term <= currentTerm[i]
              /\ r.VoteGranted
              /\ voteCount' = [voteCount EXCEPT ![i] = @ + 1]
              /\ tally' = [tally EXCEPT ![i] = @ \cup {r.to}]
              /\ UNCHANGED <<termVars, logVars, diskVars>>
           \/ /\ Outdated(i, r.termTemp) \/ (r.Term <= currentTerm[i] /\ ~r.VoteGranted)
              /\ UNCHANGED <<termVars, logVars, diskVars, voteCount, tally>>
        /\ UNCHANGED <<leaderVars, voters, checked, noops, installs, rvReq, appendNet, serviceVars, Ss, restarts,
                       votes, leaders>>

(* The loop of startElection tests currentTerm == termTemp and tp == 1     *)
(* without the lock, then takes the lock and looks only at voteCount; if   *)
(* the votes do not suffice yet it waits for a reply and starts over.  A   *)
(* turn that ends in waiting changes nothing, so the steps are the test    *)
(* (ElectionCheck) and the critical section of the turn that succeeds      *)
(* (BecomeLeader).  Under AtomicCheck they are one step.                   *)
ElectionCheck(i) ==
    /\ ~AtomicCheck
    /\ tp[i] = Candidate
    /\ currentTerm[i] \notin checked[i]
    /\ checked' = [checked EXCEPT ![i] = @ \cup {currentTerm[i]}]
    /\ UNCHANGED <<termVars, logVars, leaderVars, diskVars, voteCount, tally, voters, noops, installs,
                   voteNet, appendNet, serviceVars, Ss, restarts, votes, leaders>>

CheckPassed(i, t) == IF AtomicCheck THEN tp[i] = Candidate /\ currentTerm[i] = t ELSE t \in checked[i]

BecomeLeader(i, t) ==
    LET len == Len(log[i]) + 1      \* len(rf.log), with the entry that stands for the snapshot
    IN  /\ CheckPassed(i, t)
        /\ voteCount[i] > N \div 2
        /\ tp' = [tp EXCEPT ![i] = Leader]
        /\ nextIndex' = [nextIndex EXCEPT ![i] = [index \in Server |-> len]]
        /\ matchIndex' = [matchIndex EXCEPT ![i] = [index \in Server |-> 0]]
        /\ startAppend' = [startAppend EXCEPT ![i] = FALSE]
        /\ leaders' = leaders \cup {<<currentTerm[i], i>>}
        /\ checked' = [checked EXCEPT ![i] = @ \ {t}]
        /\ noops' = [noops EXCEPT ![i] = IF Noop THEN @ \cup {t} ELSE @]
        /\ UNCHANGED <<currentTerm, votedFor, logVars, diskVars, voteCount, tally, voters, installs, voteNet,
                       appendNet, serviceVars, Ss, restarts, votes>>

-----------------------------------------------------------------------------
(* The network (labrpc) *)

(* A request is handled at most once; it, or its reply, may be lost.  If   *)
(* InOrder, a call overtaken by a later call of the pair is lost: handling *)
(* the earlier call commutes with sending the later one, so a behaviour in *)
(* which both are handled in order is one in which the earlier is handled  *)
(* before the later is sent, and one call in flight per pair is enough.    *)
InFlight == aeReq \cup aeRep \cup isReq \cup isRep
Overtaken(S, i, j) == {x \in S : InOrder /\ x.from = i /\ x.to = j}
CanCall(i, j) == Cardinality(InFlight \ Overtaken(InFlight, i, j)) < MaxInFlight

(* Call returns false: the request or the reply was lost, or the network   *)
(* gave up waiting.  (The updateCommit that follows in the code has        *)
(* nothing to do: see CommitUpToDate.)                                     *)
LoseCall(x) ==
    /\ aeReq' = aeReq \ {x} /\ aeRep' = aeRep \ {x}
    /\ isReq' = isReq \ {x} /\ isRep' = isRep \ {x}
    /\ UNCHANGED <<termVars, logVars, leaderVars, diskVars, electVars, installs, voteNet, serviceVars, Ss,
                   restarts, votes, leaders>>

(* The reply of an AppendEntries (app) or InstallSnapshot (inst) call. *)
AnswerCall(m, app, inst) ==
    IF m.live
    THEN /\ aeRep' = (aeRep \ Overtaken(aeRep, m.from, m.to)) \cup app
         /\ isRep' = (isRep \ Overtaken(isRep, m.from, m.to)) \cup inst
    ELSE UNCHANGED <<aeRep, isRep>>

-----------------------------------------------------------------------------
(* Log replication: the leader *)

AppendToLog(i, command) ==
    /\ log' = [log EXCEPT ![i] = Append(@, [Command |-> command, Term |-> currentTerm[i]])]
    /\ matchIndex' = [matchIndex EXCEPT ![i][i] = LastLogIndex(i) + 1]
    /\ startAppend' = [startAppend EXCEPT ![i] = TRUE]
    /\ UNCHANGED <<termVars, snapshotIndex, snapshotTerm>>
    /\ persist(i)
    /\ UNCHANGED <<nextIndex, snapshot>>

(* Start called by the service for a client's command. *)
Start(i, command) ==
    /\ tp[i] = Leader
    /\ LastLogIndex(i) < MaxLog
    /\ AppendToLog(i, command)
    /\ UNCHANGED <<electVars, installs, voteNet, appendNet, serviceVars, Ss, restarts, votes, leaders>>

(* Start called by the goroutine that won an election, some time after it  *)
(* released the lock: the peer may have lost the leadership meanwhile.     *)
StartNoop(i, t) ==
    /\ noops' = [noops EXCEPT ![i] = @ \ {t}]
    /\ IF tp[i] = Leader
       THEN AppendToLog(i, "no-op")
       ELSE UNCHANGED <<termVars, logVars, leaderVars, diskVars>>
    /\ UNCHANGED <<voteCount, tally, voters, checked, installs, voteNet, appendNet, serviceVars, Ss, restarts,
                   votes, leaders>>

(* An Append2 goroutine serves peer j in a loop as long as the peer leads: *)
(* in each turn it spawns a goroutine for one call.  A loop left over from *)
(* an earlier leadership sends the same requests and ignores the replies,  *)
(* which a call whose reply is lost stands for.                            *)

(* The peer needs entries that the log has compacted: a goroutine will     *)
(* send the snapshot, without looking at tp again.                         *)
SpawnInstall(i, j) ==
    /\ tp[i] = Leader
    /\ nextIndex[i][j] <= 0
    /\ installs' = [installs EXCEPT ![i] = @ \cup {[to |-> j, termTemp |-> currentTerm[i]]}]
    /\ UNCHANGED <<termVars, logVars, leaderVars, diskVars, electVars, voteNet, appendNet, serviceVars, Ss,
                   restarts, votes, leaders>>

(* The goroutine spawned otherwise rechecks tp and nextIndex under the     *)
(* lock, so the turn and the goroutine's critical section are one step.  A *)
(* nextIndex past the end of the log would panic: see NextInRange.         *)
sendAppendEntries(i, j) ==
    LET next == nextIndex[i][j]
    IN  /\ i # j
        /\ tp[i] = Leader
        /\ next > 0 /\ next <= Len(log[i]) + 1
        /\ CanCall(i, j)
        /\ isReq' = isReq \ Overtaken(isReq, i, j)
        /\ aeReq' = (aeReq \ Overtaken(aeReq, i, j)) \cup
              {[from |-> i, to |-> j, live |-> TRUE, Term |-> currentTerm[i],
                PrevLogIndex |-> next - 1 + snapshotIndex[i],
                PrevLogTerm |-> IF next = 1 THEN snapshotTerm[i] ELSE log[i][next - 1].Term,
                Entries |-> SubSeq(log[i], next, Len(log[i])), LeaderCommit |-> commitIndex[i]]}
        /\ UNCHANGED <<termVars, logVars, leaderVars, diskVars, electVars, installs, voteNet, aeRep, isRep,
                       serviceVars, Ss, restarts, votes, leaders>>

sendSnapShot(i, g) ==
    /\ CanCall(i, g.to)
    /\ installs' = [installs EXCEPT ![i] = @ \ {g}]
    /\ aeReq' = aeReq \ Overtaken(aeReq, i, g.to)
    /\ isReq' = (isReq \ Overtaken(isReq, i, g.to)) \cup
          {[from |-> i, to |-> g.to, termTemp |-> g.termTemp, live |-> TRUE,
            Term |-> currentTerm[i], LastIncludedIndex |-> snapshotIndex[i],
            LastIncludedTerm |-> snapshotTerm[i], Data |-> snapshot[i]]}
    /\ UNCHANGED <<termVars, logVars, leaderVars, diskVars, electVars, voteNet, aeRep, isRep,
                   serviceVars, Ss, restarts, votes, leaders>>

(* nextIndex after a rejection. *)
NextAfterReject(i, r) ==
    LET index == findLast(log[i], r.TermConflict, r.PrevLogIndex - snapshotIndex[i])
    IN  IF r.Miss THEN r.Len - snapshotIndex[i]
        ELSE IF index # -1 THEN index ELSE r.TermStart - snapshotIndex[i]

Current(i, r) == nextIndex[i][r.to] + snapshotIndex[i] = r.PrevLogIndex + 1

(* matchIndex after a reply that reports success. *)
Matched(i, r) ==
    [matchIndex[i] EXCEPT ![r.to] =
        IF r.PrevLogIndex + r.Count > @ THEN r.PrevLogIndex + r.Count ELSE @]

(* Mutant: replies are handled as soon as the peer leads. *)
Counting_Always(i) == TRUE

(* A leader handles replies once it has called Start in its term. *)
Counting(i) == startAppend[i]

(* The end of an append goroutine.  The test of count that precedes it     *)
(* reads a variable other goroutines write without a lock, so it may let   *)
(* any reply through: every reply may be handled, or never be.             *)
AppendReply(r) ==
    LET i == r.from
    IN  /\ aeRep' = aeRep \ {r}
        /\ \/ /\ ~Counting(i)
              /\ UNCHANGED <<termVars, logVars, leaderVars, diskVars, serviceVars>>
           \/ /\ Counting(i) /\ ~Outdated(i, r.termTemp) /\ r.Term > currentTerm[i]
              /\ StepDown(i, r.Term)
              /\ updateCommit(i, matchIndex[i])
              /\ UNCHANGED leaderVars
           \/ /\ Counting(i) /\ ~Outdated(i, r.termTemp) /\ r.Term <= currentTerm[i]
              /\ ~r.Success /\ Current(i, r)
              /\ nextIndex' = [nextIndex EXCEPT ![i][r.to] = NextAfterReject(i, r)]
              /\ updateCommit(i, matchIndex[i])
              /\ UNCHANGED <<termVars, logVars, matchIndex, startAppend, diskVars>>
           \/ /\ Counting(i) /\ ~Outdated(i, r.termTemp) /\ r.Term <= currentTerm[i]
              /\ r.Success /\ Current(i, r) /\ r.Count > 0
              /\ matchIndex' = [matchIndex EXCEPT ![i] = Matched(i, r)]
              /\ nextIndex' = [nextIndex EXCEPT ![i][r.to] = @ + r.Count]
              /\ updateCommit(i, matchIndex'[i])
              /\ UNCHANGED <<termVars, logVars, startAppend, diskVars>>
           \/ /\ Counting(i)
              /\ \/ Outdated(i, r.termTemp)
                 \/ r.Term <= currentTerm[i] /\ (~Current(i, r) \/ (r.Success /\ r.Count = 0))
              /\ updateCommit(i, matchIndex[i])
              /\ UNCHANGED <<termVars, logVars, leaderVars, diskVars>>
        /\ UNCHANGED <<electVars, installs, voteNet, aeReq, isReq, isRep, Ss, restarts, votes, leaders>>

(* The end of an install goroutine. *)
SnapReply(r) ==
    LET i == r.from
    IN  /\ isRep' = isRep \ {r}
        /\ \/ /\ ~Outdated(i, r.termTemp) /\ r.Term > currentTerm[i]
              /\ StepDown(i, r.Term)
              /\ UNCHANGED leaderVars
           \/ /\ ~Outdated(i, r.termTemp) /\ r.Term <= currentTerm[i]
              /\ nextIndex' = [nextIndex EXCEPT ![i][r.to] = 1]
              /\ UNCHANGED <<termVars, logVars, diskVars, matchIndex, startAppend>>
           \/ /\ Outdated(i, r.termTemp)
              /\ UNCHANGED <<termVars, logVars, leaderVars, diskVars>>
        /\ UNCHANGED <<electVars, installs, voteNet, aeReq, aeRep, isReq, serviceVars, Ss, restarts,
                       votes, leaders>>

-----------------------------------------------------------------------------
(* Log replication: the follower *)

(* What AppendEntries and InstallSnapshot do on a term not older than theirs. *)
AcceptLeader(i, t) ==
    IF t > currentTerm[i]
    THEN termUpdate(i, t)
    ELSE /\ tp' = [tp EXCEPT ![i] = IF @ = Candidate THEN Follower ELSE @]
         /\ UNCHANGED <<currentTerm, votedFor>>

PrevPosition(i, m) == m.PrevLogIndex - snapshotIndex[i]
LastPosition(i, m) == PrevPosition(i, m) + Len(m.Entries)

(* Mutant: the term of the previous entry is not compared. *)
PrevMatches_NoTerm(i, m) == PrevPosition(i, m) <= Len(log[i])

PrevMatches(i, m) ==
    LET p == PrevPosition(i, m)
    IN  p > 0 => p <= Len(log[i]) /\ log[i][p].Term = m.PrevLogTerm

(* Mutant: a log as long as the request is kept. *)
AlreadyHave_ByLength(i, m) == LastPosition(i, m) <= Len(log[i])

(* The entries end inside the snapshot, or before the end of the log on an *)
(* entry of the sender's term: the log is left as it is.                   *)
AlreadyHave(i, m) ==
    LET last == LastPosition(i, m)
    IN  last <= 0 \/ (last < Len(log[i]) /\ log[i][last].Term = m.Term)

MergedLog(i, m) ==
    LET p == PrevPosition(i, m)
    IN  IF AlreadyHave(i, m) THEN log[i]
        ELSE IF p > 0 THEN SubSeq(log[i], 1, p) \o m.Entries
        ELSE SubSeq(m.Entries, 1 - p, Len(m.Entries))

AppendEntriesReply(m, success, miss, len, conflict, start) ==
    AnswerCall(m, {[from |-> m.from, to |-> m.to, termTemp |-> m.Term,
                    PrevLogIndex |-> m.PrevLogIndex, Count |-> Len(m.Entries), Term |-> currentTerm[m.to],
                    Success |-> success, Miss |-> miss, Len |-> len,
                    TermConflict |-> conflict, TermStart |-> start]}, {})

AppendEntriesStale(m) ==
    /\ m.Term < currentTerm[m.to]
    /\ AppendEntriesReply(m, FALSE, FALSE, 0, 0, 0)
    /\ UNCHANGED <<termVars, logVars, diskVars, serviceVars>>

AppendEntriesReject(m) ==
    LET i == m.to
        p == PrevPosition(i, m)
    IN  /\ m.Term >= currentTerm[i]
        /\ ~PrevMatches(i, m)
        /\ AcceptLeader(i, m.Term)
        /\ IF p > Len(log[i])
           THEN AppendEntriesReply(m, FALSE, TRUE, LastLogIndex(i) + 1, 0, 0)
           ELSE AppendEntriesReply(m, FALSE, FALSE, 0, log[i][p].Term, findEntry(log[i], p) + snapshotIndex[i])
        /\ UNCHANGED logVars
        /\ IF m.Term > currentTerm[i] THEN persist(i) ELSE UNCHANGED raftstate
        /\ UNCHANGED <<snapshot, serviceVars>>

(* Each entry that becomes committed is sent to applyCh twice. *)
AppendEntriesAccept(m) ==
    LET i == m.to
        snap == snapshotIndex[i]
        merged == MergedLog(i, m)
        end == Len(merged) + snap
        new == IF m.LeaderCommit <= commitIndex[i] THEN commitIndex[i]
               ELSE IF m.LeaderCommit <= end THEN m.LeaderCommit ELSE end
    IN  /\ m.Term >= currentTerm[i]
        /\ PrevMatches(i, m)
        /\ AcceptLeader(i, m.Term)
        /\ log' = [log EXCEPT ![i] = merged]
        /\ UNCHANGED <<snapshotIndex, snapshotTerm>>
        /\ IF m.Term > currentTerm[i] \/ m.PrevLogIndex <= snap \/ ~AlreadyHave(i, m)
           THEN persist(i) ELSE UNCHANGED raftstate
        /\ commitIndex' = [commitIndex EXCEPT ![i] = new]
        /\ Apply(i, m.Term, CommandMsgs(merged, snap, commitIndex[i] + 1, new, 2))
        /\ AppendEntriesReply(m, TRUE, FALSE, 0, 0, 0)
        /\ UNCHANGED snapshot

AppendEntries(m) ==
    /\ aeReq' = aeReq \ {m}
    /\ AppendEntriesStale(m) \/ AppendEntriesReject(m) \/ AppendEntriesAccept(m)
    /\ UNCHANGED <<leaderVars, electVars, installs, voteNet, isReq, Ss, restarts, votes, leaders>>

-----------------------------------------------------------------------------
(* Log compaction *)

(* The log has the last entry of the snapshot of index last and term lastTerm. *)
HasLast(i, last, lastTerm) ==
    LET p == last - snapshotIndex[i]
    IN  p <= Len(log[i]) /\ log[i][p].Term = lastTerm

(* Mutant: the entries after the snapshot are dropped. *)
LogAfterSnapshot_Empty(i, last, lastTerm) == <<>>

(* The log after that snapshot replaces its prefix. *)
LogAfterSnapshot(i, last, lastTerm) ==
    IF HasLast(i, last, lastTerm) THEN SubSeq(log[i], last - snapshotIndex[i] + 1, Len(log[i])) ELSE <<>>

InstallSnapshotReply(m) ==
    AnswerCall(m, {}, {[from |-> m.from, to |-> m.to, termTemp |-> m.termTemp, Term |-> currentTerm[m.to]]})

(* The handler keeps rf.mu until the service has replaced its state. *)
Install(i, m) ==
    /\ log' = [log EXCEPT ![i] = LogAfterSnapshot(i, m.LastIncludedIndex, m.LastIncludedTerm)]
    /\ snapshotIndex' = [snapshotIndex EXCEPT ![i] = m.LastIncludedIndex]
    /\ snapshotTerm' = [snapshotTerm EXCEPT ![i] = m.LastIncludedTerm]
    /\ persist(i)
    /\ snapshot' = [snapshot EXCEPT ![i] = m.Data]
    /\ commitIndex' = [commitIndex EXCEPT ![i] = IF @ < m.LastIncludedIndex THEN m.LastIncludedIndex ELSE @]
    /\ applyCh' = [applyCh EXCEPT ![i] =
           Append(@, [CommandValid |-> FALSE, CommandIndex |-> m.Data.LastIndex, Command |-> Nil])]
    /\ lastApplied' = [lastApplied EXCEPT ![i] = IF m.Data.LastIndex > @ THEN m.Data.LastIndex ELSE @]
    /\ UNCHANGED applied

InstallSnapshot(m) ==
    LET i == m.to
    IN  /\ isReq' = isReq \ {m}
        /\ InstallSnapshotReply(m)
        /\ \/ /\ m.Term < currentTerm[i]
              /\ UNCHANGED <<termVars, logVars, diskVars, serviceVars>>
           \/ /\ m.Term >= currentTerm[i]
              /\ m.LastIncludedIndex <= snapshotIndex[i]
              /\ AcceptLeader(i, m.Term)
              /\ UNCHANGED logVars
              /\ IF m.Term > currentTerm[i] THEN persist(i) ELSE UNCHANGED raftstate
              /\ UNCHANGED <<snapshot, serviceVars>>
           \/ /\ m.Term >= currentTerm[i]
              /\ m.LastIncludedIndex > snapshotIndex[i]
              /\ AcceptLeader(i, m.Term)
              /\ Install(i, m)
        /\ UNCHANGED <<leaderVars, electVars, installs, voteNet, aeReq, Ss, restarts, votes, leaders>>

(* The service copies its state and puts it, with the index it has         *)
(* reached, in the channel of capacity one.                                *)
OfferSnapshot(i) ==
    /\ i \in Snapshots
    /\ Ss[i] = 0
    /\ lastApplied[i] > 0
    /\ Ss' = [Ss EXCEPT ![i] = lastApplied[i]]
    /\ UNCHANGED <<termVars, logVars, leaderVars, diskVars, electVars, installs, voteNet, appendNet,
                   serviceVars, restarts, votes, leaders>>

(* Mutant: nextIndex stays. *)
ShiftedNext_Not(i, p) == nextIndex[i]

(* nextIndex counts from snapshotIndex, which moves by p. *)
ShiftedNext(i, p) == [j \in Server |-> nextIndex[i][j] - p]

persistV2(i) ==
    LET last == Ss[i]
        p == last - snapshotIndex[i]
    IN  /\ last > 0
        /\ Ss' = [Ss EXCEPT ![i] = 0]
        /\ IF p <= 0 \/ p > Len(log[i])
           THEN UNCHANGED <<termVars, logVars, nextIndex, diskVars>>
           ELSE /\ log' = [log EXCEPT ![i] = SubSeq(@, p + 1, Len(@))]
                /\ nextIndex' = [nextIndex EXCEPT ![i] = ShiftedNext(i, p)]
                /\ snapshotIndex' = [snapshotIndex EXCEPT ![i] = last]
                /\ snapshotTerm' = [snapshotTerm EXCEPT ![i] = log[i][p].Term]
                /\ UNCHANGED termVars
                /\ persist(i)
                /\ snapshot' = [snapshot EXCEPT ![i] = [LastIndex |-> last, LastTerm |-> log[i][p].Term]]
        /\ UNCHANGED <<matchIndex, startAppend, electVars, installs, voteNet, appendNet, serviceVars,
                       restarts, votes, leaders>>

-----------------------------------------------------------------------------
(* Crash and restart *)

(* The process dies and Make runs on what its Persister holds.  Requests   *)
(* it sent may still be handled, but nobody waits for their replies.       *)
Orphans(S, i) == {IF m.from = i THEN [m EXCEPT !.live = FALSE] ELSE m : m \in S}
NotTo(S, i) == {r \in S : r.from # i}

Restart(i, disk, handled) ==
    /\ restarts < MaxRestarts
    /\ restarts' = restarts + 1
    /\ currentTerm' = [currentTerm EXCEPT ![i] = disk.currentTerm]
    /\ votedFor' = [votedFor EXCEPT ![i] = IF disk.currentTerm = 0 THEN Nil ELSE disk.votedFor]
    /\ log' = [log EXCEPT ![i] = disk.log]
    /\ tp' = [tp EXCEPT ![i] = Follower]
    /\ persist(i)
    /\ nextIndex' = [nextIndex EXCEPT ![i] = [j \in Server |-> Len(disk.log) + 1]]
    /\ matchIndex' = [matchIndex EXCEPT ![i] = [j \in Server |-> IF j = i THEN Len(disk.log) ELSE 0]]
    /\ startAppend' = [startAppend EXCEPT ![i] = FALSE]
    /\ snapshotIndex' = [snapshotIndex EXCEPT ![i] = snapshot[i].LastIndex]
    /\ snapshotTerm' = [snapshotTerm EXCEPT ![i] = snapshot[i].LastTerm]
    /\ commitIndex' = [commitIndex EXCEPT ![i] = snapshot[i].LastIndex]
    /\ lastApplied' = [lastApplied EXCEPT ![i] = snapshot[i].LastIndex]
    /\ applyCh' = [applyCh EXCEPT ![i] = <<>>]
    /\ Ss' = [Ss EXCEPT ![i] = 0]
    /\ voteCount' = [voteCount EXCEPT ![i] = 0]
    /\ tally' = [tally EXCEPT ![i] = {}]
    /\ voters' = [voters EXCEPT ![i] = {}]
    /\ checked' = [checked EXCEPT ![i] = {}]
    /\ noops' = [noops EXCEPT ![i] = {}]
    /\ installs' = [installs EXCEPT ![i] = {}]
    /\ rvReq' = Orphans(rvReq \ handled, i) /\ rvRep' = NotTo(rvRep, i)
    /\ aeReq' = Orphans(aeReq \ handled, i) /\ aeRep' = NotTo(aeRep, i)
    /\ isReq' = Orphans(isReq \ handled, i) /\ isRep' = NotTo(isRep, i)
    /\ UNCHANGED <<snapshot, applied, votes, leaders>>

Make(i) == Restart(i, raftstate[i], {})

(* The crash may come in the middle of a handler, between two of its writes *)
(* to the Persister: after the persist() of termUpdate, ...                 *)
CrashAfterTermUpdate(m) ==
    /\ m.Term > currentTerm[m.to]
    /\ Restart(m.to, [raftstate[m.to] EXCEPT !.currentTerm = m.Term, !.votedFor = Nil], {m})

(* ... or after InstallSnapshot has emptied the log and called persist()    *)
(* and before it saves the snapshot.                                        *)
CrashInInstall(m) ==
    LET i == m.to
        newer == m.Term > currentTerm[i]
    IN  /\ m.Term >= currentTerm[i]
        /\ m.LastIncludedIndex > snapshotIndex[i]
        /\ ~HasLast(i, m.LastIncludedIndex, m.LastIncludedTerm)
        /\ Restart(i, [currentTerm |-> m.Term, votedFor |-> IF newer THEN Nil ELSE votedFor[i], log |-> <<>>], {m})

-----------------------------------------------------------------------------
Init ==
    /\ currentTerm = [i \in Server |-> 0] /\ votedFor = [i \in Server |-> Nil]
    /\ tp = [i \in Server |-> Follower]
    /\ log = [i \in Server |-> <<>>]
    /\ snapshotIndex = [i \in Server |-> 0] /\ snapshotTerm = [i \in Server |-> 0]
    /\ voteCount = [i \in Server |-> 0] /\ tally = [i \in Server |-> {}]
    /\ nextIndex = [i \in Server |-> [j \in Server |-> 1]]
    /\ matchIndex = [i \in Server |-> [j \in Server |-> 0]]
    /\ startAppend = [i \in Server |-> FALSE]
    /\ commitIndex = [i \in Server |-> 0] /\ lastApplied = [i \in Server |-> 0]
    /\ raftstate = [i \in Server |-> [currentTerm |-> 0, votedFor |-> Nil, log |-> <<>>]]
    /\ snapshot = [i \in Server |-> [LastIndex |-> 0, LastTerm |-> 0]]
    /\ voters = [i \in Server |-> {}] /\ checked = [i \in Server |-> {}]
    /\ noops = [i \in Server |-> {}] /\ installs = [i \in Server |-> {}]
    /\ rvReq = {} /\ rvRep = {} /\ aeReq = {} /\ aeRep = {} /\ isReq = {} /\ isRep = {}
    /\ applyCh = [i \in Server |-> <<>>]
    /\ Ss = [i \in Server |-> 0]
    /\ restarts = 0
    /\ votes = {} /\ leaders = {} /\ applied = {}

Next ==
    \/ \E i \in Server : startElection(i)
    \/ \E i \in Server : \E g \in voters[i] : sendRequestVote(i, g)
    \/ \E m \in rvReq : RequestVote(m)
    \/ \E r \in rvRep : VoteReply(r)
    \/ \E i \in Server : ElectionCheck(i)
    \/ \E i \in Server : \E t \in checked[i] \cup {currentTerm[i]} : BecomeLeader(i, t)
    \/ \E i \in Server : \E t \in noops[i] : StartNoop(i, t)
    \/ \E i \in Server, c \in Commands : Start(i, c)
    \/ \E i, j \in Server : SpawnInstall(i, j)
    \/ \E i, j \in Server : sendAppendEntries(i, j)
    \/ \E i \in Server : \E g \in installs[i] : sendSnapShot(i, g)
    \/ \E m \in aeReq : AppendEntries(m)
    \/ \E r \in aeRep : AppendReply(r)
    \/ \E m \in isReq : InstallSnapshot(m)
    \/ \E r \in isRep : SnapReply(r)
    \/ \E x \in InFlight : LoseCall(x)
    \/ \E i \in Server : OfferSnapshot(i)
    \/ \E i \in Server : persistV2(i)
    \/ \E i \in Server : Make(i)
    \/ \E m \in rvReq \cup aeReq \cup isReq : CrashAfterTermUpdate(m)
    \/ \E m \in isReq : CrashInInstall(m)

Spec == Init /\ [][Next]_vars

-----------------------------------------------------------------------------
(* Properties *)

(* The messages, the contents of a Persister, and the types of the variables. *)
VoteRequest == [from : Server, to : Server, Term : Nat, LastLogIndex : Nat, LastLogTerm : Nat, live : BOOLEAN]
VoteAnswer == [from : Server, to : Server, termTemp : Nat, Term : Nat, VoteGranted : BOOLEAN]
AppendRequest == [from : Server, to : Server, live : BOOLEAN, Term : Nat, PrevLogIndex : Nat,
                  PrevLogTerm : Nat, Entries : Seq(Entry), LeaderCommit : Nat]
AppendAnswer == [from : Server, to : Server, termTemp : Nat, PrevLogIndex : Nat, Count : Nat, Term : Nat,
                 Success : BOOLEAN, Miss : BOOLEAN, Len : Nat, TermConflict : Nat, TermStart : Nat]
SnapFile == [LastIndex : Nat, LastTerm : Nat]
SnapRequest == [from : Server, to : Server, termTemp : Nat, live : BOOLEAN, Term : Nat,
                LastIncludedIndex : Nat, LastIncludedTerm : Nat, Data : SnapFile]
SnapAnswer == [from : Server, to : Server, termTemp : Nat, Term : Nat]
RaftState == [currentTerm : Nat, votedFor : Server \cup {Nil}, log : Seq(Entry)]

TermTypes ==
    /\ currentTerm \in [Server -> Nat]
    /\ votedFor \in [Server -> Server \cup {Nil}]
    /\ tp \in [Server -> {Follower, Candidate, Leader}]
LogTypes == log \in [Server -> Seq(Entry)] /\ snapshotIndex \in [Server -> Nat] /\ snapshotTerm \in [Server -> Nat]
LeaderTypes ==
    /\ nextIndex \in [Server -> [Server -> Int]]
    /\ matchIndex \in [Server -> [Server -> Nat]]
    /\ startAppend \in [Server -> BOOLEAN]
DiskTypes == raftstate \in [Server -> RaftState] /\ snapshot \in [Server -> SnapFile]
ElectTypes ==
    /\ voteCount \in [Server -> Nat] /\ tally \in [Server -> SUBSET Server]
    /\ voters \in [Server -> SUBSET [term : Nat, to : Server]]
    /\ checked \in [Server -> SUBSET Nat] /\ noops \in [Server -> SUBSET Nat]
VoteNetTypes == rvReq \subseteq VoteRequest /\ rvRep \subseteq VoteAnswer
AppendNetTypes ==
    /\ aeReq \subseteq AppendRequest /\ aeRep \subseteq AppendAnswer
    /\ isReq \subseteq SnapRequest /\ isRep \subseteq SnapAnswer
ServiceTypes == commitIndex \in [Server -> Nat] /\ lastApplied \in [Server -> Nat]
OtherTypes ==
    /\ installs \in [Server -> SUBSET [to : Server, termTemp : Nat]]
    /\ Ss \in [Server -> Nat] /\ restarts \in Nat
    /\ votes \subseteq Server \X Nat \X Server /\ leaders \subseteq Nat \X Server

(* Every variable holds a value of its type: the state of a peer, its      *)
(* Persister, its goroutines and the calls in flight.  (What is in the     *)
(* messages of applyCh depends on CommittedHeld.)                          *)
TypeOK ==
    /\ TermTypes /\ LogTypes /\ LeaderTypes /\ DiskTypes /\ ElectTypes
    /\ VoteNetTypes /\ AppendNetTypes /\ ServiceTypes /\ OtherTypes

(* Whenever rf.mu is free, the Persister holds what the peer would need    *)
(* after a crash: term, vote, log and the snapshot the log starts from.    *)
Durable ==
    \A i \in Server :
        /\ raftstate[i] = [currentTerm |-> currentTerm[i], votedFor |-> votedFor[i], log |-> log[i]]
        /\ snapshot[i] = [LastIndex |-> snapshotIndex[i], LastTerm |-> snapshotTerm[i]]

(* RequestVote and startElection give at most one vote per term and peer,  *)
(* across crashes and restarts.                                            *)
VoteOnce == \A v, w \in votes : v[1] = w[1] /\ v[2] = w[2] => v[3] = w[3]

(* voteCount counts distinct peers, each of which voted for this candidate *)
(* in its current term.                                                    *)
VotesCountedOnce ==
    \A i \in Server :
        /\ voteCount[i] = Cardinality(tally[i])
        /\ tp[i] = Candidate => \A j \in tally[i] : <<j, currentTerm[i], i>> \in votes

(* No term has two leaders (config.go: "term %d has %d (>1) leaders"). *)
ElectionSafety == \A a, b \in leaders : a[1] = b[1] => a[2] = b[2]

Holds(i, k) == k > snapshotIndex[i] /\ k <= LastLogIndex(i)
EntryAt(i, k) == log[i][k - snapshotIndex[i]]

(* Two logs that have entries of one term at one index agree up to there, *)
(* wherever their snapshots have cut them.                                 *)
LogMatching ==
    \A i, j \in Server : \A k \in 1 .. LastLogIndex(i) :
        Holds(i, k) /\ Holds(j, k) /\ EntryAt(i, k).Term = EntryAt(j, k).Term =>
            \A h \in 1 .. k : Holds(i, h) /\ Holds(j, h) => EntryAt(i, h) = EntryAt(j, h)

(* No two peers (or lives of a peer) apply different commands at one index *)
(* (config.go: "commit index=%v server=%v %v != server=%v %v").            *)
StateMachineSafety == \A a, b \in applied : a[1] = b[1] => a[2] = b[2]

(* A leader has every entry that was applied anywhere in an earlier term,  *)
(* at its index or below its snapshot.                                     *)
LeaderCompleteness ==
    \A i \in Server : tp[i] = Leader =>
        \A a \in applied : a[3] < currentTerm[i] =>
            a[1] <= snapshotIndex[i] \/ (Holds(i, a[1]) /\ EntryAt(i, a[1]) = a[2])

(* A peer's log reaches its commitIndex and its snapshot does not pass it: *)
(* AppendEntries never cuts committed entries off.                         *)
CommittedHeld == \A i \in Server : snapshotIndex[i] <= commitIndex[i] /\ commitIndex[i] <= LastLogIndex(i)

(* While a peer leads a term, matchIndex promises only what the follower   *)
(* has: as long as the follower stays in that term its log agrees with the *)
(* leader's up to matchIndex.  What a crash inside InstallSnapshot makes   *)
(* it lose is committed.                                                   *)
MatchIsTrue ==
    \A i, j \in Server :
        tp[i] = Leader /\ currentTerm[j] = currentTerm[i] /\ j # i =>
            /\ matchIndex[i][j] <= LastLogIndex(j) \/ matchIndex[i][j] <= commitIndex[i]
            /\ \A k \in 1 .. matchIndex[i][j] : Holds(i, k) /\ Holds(j, k) => EntryAt(i, k) = EntryAt(j, k)

(* A peer that handles append replies has nothing left to commit by        *)
(* counting: the updateCommit that follows a failed call, an outdated      *)
(* reply or a step down changes nothing.                                   *)
CommitUpToDate == \A i \in Server : startAppend[i] => MedianMatch(matchIndex[i]) <= commitIndex[i]

(* The nextIndex of a leader never passes the end of its log, so the slices *)
(* and index expressions of Append2 are in range, however often the log is  *)
(* compacted.  A peer that has installed a snapshot from another since Make *)
(* is left out: InstallSnapshot moves the log and not nextIndex.            *)
NextInRange ==
    \A i, j \in Server :
        tp[i] = Leader /\ (\A k \in DOMAIN applyCh[i] : applyCh[i][k].CommandValid) =>
            nextIndex[i][j] <= Len(log[i]) + 1

(* The service sees no gap: each command has at most the index after the   *)
(* one before it, from the peer's snapshot on (config.go: "server %v apply *)
(* out of order").                                                         *)
ApplyInOrder ==
    \A i \in Server : \A k \in DOMAIN applyCh[i] :
        applyCh[i][k].CommandValid =>
            applyCh[i][k].CommandIndex <=
                1 + (IF k = 1 THEN snapshotIndex[i] ELSE applyCh[i][k - 1].CommandIndex)

(* Each committed entry is sent to the service once (raft.go: "each time a *)
(* new entry is committed to the log, each Raft peer should send an        *)
(* ApplyMsg to the service").                                              *)
ApplyOnce ==
    \A i \in Server : \A a, b \in DOMAIN applyCh[i] :
        applyCh[i][a].CommandValid /\ applyCh[i][b].CommandValid
        /\ applyCh[i][a].CommandIndex = applyCh[i][b].CommandIndex => a = b

(* commitIndex falls only when the peer restarts. *)
CommitMonotone ==
    [][\A i \in Server : commitIndex'[i] >= commitIndex[i] \/ restarts' # restarts]_vars

(* Figure 8: a leader moves commitIndex only to an entry of its own term   *)
(* (lab2_notes.txt, 5), although updateCommit does not look at terms; the  *)
(* other way for commitIndex to move is a snapshot of an earlier leader.   *)
CommitsOwnTerm ==
    [][\A i \in Server :
          tp[i] = Leader /\ tp'[i] = Leader /\ commitIndex'[i] > commitIndex[i]
          /\ snapshotIndex'[i] = snapshotIndex[i] =>
              EntryAt(i, commitIndex'[i]).Term = currentTerm[i]]_vars
=============================================================================
