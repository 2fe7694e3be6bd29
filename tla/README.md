# Verification of the 6.824 labs: MapReduce, Raft, and a key/value service on Raft

TLA+ models of the Go programs under `src/src`, the TLC configurations that
check them on small instances, and TLAPS proofs about the Raft peer, the cluster
the tests run it in, the key/value service and the MapReduce job. Line numbers refer to the files of the
repository. `PROJECT.json` lists every component, run, mutant, mapped
definition, finding, hazard and theorem; this file says how they fit together.

## 1. The system

| part | source | state | operations | modelled in |
|---|---|---|---|---|
| Raft peer: elections | `raft/raft.go` | term, vote, role, vote count | `startElection` and its vote goroutines, `RequestVote`, `termUpdate` | `Raft` |
| Raft peer: replication | `raft/raft.go` | log, `nextIndex`, `matchIndex`, `commitIndex`, `startAppend` | `Start`, `Append2`, `AppendEntries`, `updateCommit` | `Raft`, promises in `ReplicatedLog` |
| Raft peer: compaction | `raft/raft.go` | `snapshotIndex`, `snapshotTerm` | `persistV2`, `sendSnapShot`, `InstallSnapshot` | `Raft` |
| Raft peer: durability | `raft/raft.go`, `raft/persister.go` | raft state, snapshot | `persist`, `SaveStateAndSnapshot`, `readPersist`, `Make` | `Raft` |
| Raft peer: goroutines | `raft/raft.go` | `rf.mu`, timers, loops, the condition variable, `rf.apps` | `oscillator`, `startElection`, `Append2`, `Start`, `Kill` | `RaftThreads` |
| Network | `labrpc/labrpc.go` | ends, servers, calls | `Call`, `processReq`, `Enable`, `AddServer`, `DeleteServer`, `Cleanup` | `Labrpc` |
| Test harness | `raft/config.go`, `raft/persister.go` | instances, ends, saved Persisters | `start1`, `crash1`, `connect`, `disconnect`, `cleanup` | `Cluster` |
| Key/value server | `kvraft/server.go` | map, clients' numbers, `lastApplied`, channels by index | `Get`, `PutAppend`, `Applier`, snapshot goroutine, `StartKVServer` | `KVServer` |
| Clerk | `kvraft/client.go` | number, believed leader | `Get`, `Put`, `Append` with retries | `KVServer` |
| Linearizability checker | `porcupine/`, `models/kv.go` | entry list, bitset, cache, results | `CheckOperations`, `checkParallel`, `checkSingle` | `Porcupine` |
| MapReduce master | `mr/master.go` | task status, two rings of task nodes, pointers | `RequestHandler`, `assignTask`, `Done` | `MapReduce` |
| MapReduce worker | `mr/worker.go` | the task in hand, files | `Worker`, `mapTask`, `reduceTask` | `MapReduce` |

How the parts meet. Raft peers talk to each other through `labrpc`; each RPC is
issued by a goroutine of its own, so calls of one peer are in flight together
and their replies are handled in any order. A peer hands committed entries to
its service over an unbuffered channel while it holds `rf.mu`; the service's
Applier takes `mumap` and `mucli`, executes, and wakes the RPC handler that
waits for the index. The service hands snapshots back to Raft through a
goroutine of each. Clerks call one server after the other until one answers.
The tests crash and restart servers by cutting off an instance, copying its
Persister and making a new instance, while the old one runs on; the history of
the clerks' calls is given to the linearizability checker. MapReduce is a
separate program: workers call the master and share a file system with it.

Where it is hard: tests of a term or a role made without the lock or before an
RPC and used after it; replies of earlier elections and leaderships; the same
index seen relative to a snapshot and absolute; crashes between two writes of
one handler; two servers that both believe they lead and give one index to
two commands; a retry of a command that was executed; locks held across channel
operations; handlers of a crashed instance that still answer; a search that has
to undo what it tried; a search with the lock held over a linked list whose
nodes have been deleted. `PROJECT.json` has one hazard per line where one of
these bites.

## 2. Modules

**`Raft`, `MCRaft`.** One step is one critical section of `rf.mu`, or one
unlocked read on which the code acts later. A request or reply is in flight
between the step that sends it and the step that handles it.

| action | code |
|---|---|
| `startElection`, `sendRequestVote`, `VoteReply`, `ElectionCheck`, `BecomeLeader` | `startElection` (999-1166) up to the unlock, each vote goroutine before and after the call, the loop's unlocked test, the election won |
| `RequestVote` | `RequestVote` (361-424) |
| `Start`, `StartNoop` | `Start` (474-532), the no-op of a new leader |
| `SpawnInstall`, `sendSnapShot`, `SnapReply` | `Append2`'s install goroutine: spawned, before and after the call |
| `sendAppendEntries`, `AppendReply` | `Append2`'s append goroutine before and after the call, with `updateCommit` |
| `AppendEntries`, `InstallSnapshot` | the handlers (790-987, 1888-1993), with what they send to `applyCh` |
| `OfferSnapshot`, `persistV2` | the service offers a snapshot, `persistV2` (197-261) |
| `LoseCall` | a call whose request or reply is lost |
| `Make`, `CrashAfterTermUpdate`, `CrashInInstall` | crash and restart, between handlers and between two `Persister` writes of one |

**`ReplicatedLog`, `RaftReplicates`.** What the peers promise their services
together: one sequence of decided commands that only grows at its end, of which
every server applies a prefix; a server that restarts may start over.
`RaftReplicates` maps `Raft` to it: what any service has applied, by index, is the
decided sequence, and `lastApplied` is how far a server has come. A gap, a second
command at an index and a decision taken back are no steps of the abstract log.

**`RaftThreads`, `MCRaftThreads`.** One peer's goroutines, without the log: the
oscillators, the elections (which test their loop's condition without the lock and
wait on a condition variable), the `Append2` loops, and the callers of `Start`,
which send on the channels `rf.apps` outside the lock. Three sections return with
the mutex locked if the peer was killed (`abandoned`).

**`Labrpc`, `Cluster`, `MCCluster`.** `Labrpc` has the network: an end, the registry
and, for each call, the caller, `processReq` and the handler's thread, each looking
at the registry at its own time. `Cluster` composes it with the test harness: the
goroutine of the test takes `start1` and `crash1` step by step, while instances that
are alive or crashed call, execute and answer.

**`KVServer`, `MCKVServer`.** The service over Raft peers that are abstracted to
what `Raft` shows of them (each has a log, one leads the latest term, others may
believe they lead, the leader's log contains what was chosen). One step is one
critical section of `mucli`, `mumap` or `rf.mu`, or one channel operation;
guards `RaftBusy`, `mumapFree` and `mucliFree` say who holds which lock. The
install path, which takes no lock, writes `mp`, `CliMap` and `lastApplied` in
three steps, and the snapshot goroutine reads them in three. A value is the
sequence of the writes it was built from, `<<>>` a missing key. `Init` has server 0
elected and its no-op applied.

**`Porcupine`, `MCPorcupine`.** `checkSingle` step by step on the doubly linked list
of call and return entries, with `lift`, `unlift`, the bitset in words, the cache and
the backtracking stack; `checkParallel` with one goroutine per key, its result
channel, the kill flag and the timeout. `VerdictRight` compares it with the
definition of linearizability over permutations.

**`MapReduce`, `MCMapReduce`.** `RequestHandler` with `assignTask` is one step (it
holds `m.mu`); the task rings are modelled link by link. A worker creates and
fills each file in separate steps and may crash between any two.

**`RaftInvariants`, `RaftProofs`, `RaftHistoryProofs`, `RaftLeaderProofs`,
`RaftFollowerProofs`, `RaftSafetyProofs`, `RuntimeProofs`, `KVServerProofs`,
`MapReduceProofs`.** The inductive invariants of `Raft`, and the proofs of section 6.
`RuntimeProofs` extends both `RaftThreads` and `Cluster`, whose names therefore differ
(`ThreadsInit`, `ThreadsNext`, `threadVars`, ...).

Operators named `Definition_Name` in front of a definition are mutants: wrong
versions that a check of the named property must reject. They are not used by
the specifications.

### Abstractions, and why they are safe

* Election timers, heartbeat intervals and `RaftStateSize` are nondeterministic
  choices: the models have every timing the code has. In `RaftThreads` the sleep and
  the tick of an oscillator are one turn, which may find the timeout passed.
* The `count` variable that `Append2` uses to skip calls is read without a lock;
  every reply may be handled or not.
* The `Append2` loops of an earlier leadership can only send with the current
  term if the peer leads again; their calls are those of the current one, or
  calls whose reply is lost. That a lost reply changes nothing rests on
  `CommitUpToDate`.
* With `InOrder`, the calls of one pair do not overtake each other; it suffices to
  keep one of them in flight, since handling one before the next is sent
  commutes with everything between.
* A crash in `Raft` is a restart from what the disk holds at that moment; the
  requests the peer had sent stay in flight, without anyone to take their reply.
  That the tests' way to crash a server amounts to this is what `Cluster` is about.
* `MCRaft` starts some runs from states after an election or two, all of which
  `Init` reaches.
* Identical goroutines of `RaftThreads` are counted, not named.
* Delays of `labrpc` are arbitrary lateness of each step. `connect` and `disconnect`
  switch the ends in one step: each `Enable` concerns one end, and a call has one. One
  call in flight is enough, since the properties speak of one call and calls meet
  only in the Persister. The copy that `crash1` makes before the kill is replaced
  by the one it makes after it, before anyone reads it, and is left out.
* A snapshot reaches a `KVServer` in one step with the leader's current one; that
  older snapshots arrive late is part of `Raft`.
* Histories of `Porcupine` have distinct times (the sort is not stable, so the order
  of equal times is not determined). The cache, a hash table with equality tests in
  each bucket, is a set.
* MapReduce: the pairs, their hashing, sorting and text are left out. A file is
  known by whether it is complete and by the map tasks it was made from. A crashed
  worker is replaced by a fresh process. That `RequestHandler` is one step rests on
  `SearchEnds`: its search ends.

Schedule and network assumptions of the runs are Boolean constants, so that
the same model gives the runs that pass and what happens without the assumption:

| constant | when TRUE |
|---|---|
| `AtomicCheck` (Raft) | nothing runs between the unlocked test of `startElection`'s loop and its `Lock()` |
| `InOrder` (Raft) | `AppendEntries` and `InstallSnapshot` calls of a pair do not overtake each other |
| `AtomicRegister` (KVServer) | nothing runs between a handler's `Start` and its entry in `ClientCh` |
| `FreshInstalls` (KVServer) | a snapshot only goes to a server that has not applied what it contains |
| `LateRequests` (KVServer) | (when FALSE) a request is not delivered after its `Call` has failed |

## 3. Runs that pass

Bounds are named constants (`Max...`, `Slot`, `Timers`, `Word`). They are chosen so
that each run reaches the case it is about; that they are not too small is shown by
the mutants, each of which is rejected under the run's own bounds.

| run | instance | properties | distinct states |
|---|---|---|---|
| `RaftElection` | 3 peers, first boot, 1 command, 3 elections, 1 restart | `Durable`, `VoteOnce`, `VotesCountedOnce`, `ElectionSafety` | 286,831 |
| `RaftFigure8` | 3 peers in the state of Figure 8 of the Raft paper, no-ops, 1 restart, the unlocked test free to race | `LogMatching`, `LeaderCompleteness`, `MatchIsTrue`, `CommitUpToDate`, `CommitsOwnTerm`, `Replicates` | 352,582 |
| `RaftSnapshot` | 3 peers, a led cluster that compacts, 1 election, 1 restart | `StateMachineSafety`, `CommittedHeld`, `NextInRange`, `ApplyInOrder` | 686,213 |
| `RaftThreads` | 1 of 2 peers, 2 terms, a caller of `Start` beside the no-ops, fair | `TimerKept`, `PeersServed`, `MajorityLeads`, `LoopsRetire`, `StartReturns` | 62,044 |
| `Network` | 2 servers, 2 instances of each, 1 call, fair | `AckedKept`, `OneWriter`, `CrashedSilent`, `CallReturns` | 624,240 |
| `KVService` | 2 servers, 2 clerks, Get, Put and Append, 1 election, 1 lost call | `ReplicaState`, `Acknowledged`, `ReadsCurrent`, `NoStaleChannels` | 1,839,583 |
| `KVSnapshot` | 2 servers that take snapshots, 1 clerk, 1 election, 1 restart | `ReplicaState`, `SnapshotState`, `Acknowledged` | 2,496,549 |
| `KVStable` | 2 servers, one leader, 1 clerk, 2 lost calls, fair | `CallsReturn` | 76,713 |
| `Porcupine` | all histories of up to 3 operations on 2 keys, with and without timeout and partial results, words of 2 bits, fair | `VerdictRight`, `SearchInStep`, `PartialsLongest`, `CheckEnds` | 535,294 |
| `MRJob` | 2 processes, 3 map and 2 reduce tasks, 1 crash, fair | `JobComplete`, `FilesReady`, `SearchEnds`, `RingsSound`, `JobEnds` | 218,767 |

What they show:

* `RaftElection`: a peer that crashes at any write votes once per term, no vote is
  counted twice however late its reply is, and a term has one leader, if nothing
  runs between the vote loop's test and its `Lock()`.
* `RaftFigure8`: three peers, the last with a newer entry that nobody else has.
  `startAppend` keeps a leader from committing entries of earlier terms by counting
  them, and the peers implement the replicated log.
* `RaftSnapshot`: relative indices stay in range, no committed entry is dropped and
  no service sees a gap, although appends, installs and compactions of two leaders
  overlap and a crash may fall between the two writes of `InstallSnapshot`.
* `RaftThreads`: a peer that does not lead keeps an election timer, also when it
  wins and loses leadership faster than its old loops notice; every peer is served;
  no wake-up of an election is missed; loops of lost leaderships end; `Start`
  returns while the peer leads with nobody to send a snapshot to. With two peers
  there is one channel and one loop per leadership; the two safety properties are
  proved for any number.
* `Network`: nothing a caller was told has happened is lost by a crash, although the
  handlers of crashed instances run on, and `Call` returns.
* `KVService`, `KVSnapshot`: duplicates are executed once, an acknowledged write was
  chosen, a read is current, torn copies are thrown away by `persistV2`'s test of
  the index. `KVStable`: every call of a clerk returns under a stable leader.
* `Porcupine`: the verdict is right for every small history. Two words of bits are
  needed for three operations, so that word boundaries are crossed.
* `MRJob`: the job ends with complete outputs, and the search with the lock held ends.

These hold on the same instances but are in no run: `CommitMonotone` of `Raft`
(Figure 8; proved), `ExecuteOnce` of `KVServer` (`KVService`; proved), `NoMissedWakeup`
of `KVServer` (`KVService`), `MapInTurn` of `MapReduce` (`MRJob`), and the type invariants of all modules; those of
`Raft`, `RaftThreads` and `MapReduce` are proved.

Deadlock is not checked: every model stops when its bounds are used up, and a
check, a network and a MapReduce job end.

Fairness. The Go scheduler runs every runnable goroutine, and its mutex starves
nobody, so goroutines that can go on have weak fairness: the elections, loops and
callers of `RaftThreads`, the goroutines of a call and its handler in `Cluster`,
those of the service and the clerks in `KVServer`, with the leader's replication and
commitment, since a leader sends heartbeats for good; the workers and
`checkParallel` in `Porcupine`; the worker processes and the master's exit in
`MapReduce`. One step has strong fairness: the receive from `rf.apps` in
`Append2`'s select, which is ready again and again; `select` takes each of its ready
cases with the same probability. No fairness is assumed of timers, elections,
votes, lost calls, snapshots, crashes, kills or restarts. `Raft` claims no liveness.

## 4. Runs that end in a violation

Each one checks a property that a comment or a test states against what the code
does. The finding in `PROJECT.json` quotes the line.

| run | property | what TLC shows |
|---|---|---|
| `RaftElectionRace` | `ElectionSafety` | the vote loop tests term and role before `Lock()` (raft.go:1105): two leaders in a term |
| `RaftStaleHeartbeat` | `StateMachineSafety` | a request that was overtaken removes acknowledged entries (`AppendEntries`, raft.go:854) |

## 5. What the runs' assumptions leave out

The passing runs are made under the assumptions of section 2. Where the code does
not guarantee one, TLC finds the following, with the configuration of a run changed
as said. Each was reproduced with the modules as they are.

| configuration | property refuted | what happens |
|---|---|---|
| `RaftSnapshot` | `ApplyOnce` | `AppendEntries` sends each committed entry twice (raft.go:974); services must drop repetitions, as `KVServer` does |
| `RaftSnapshot`, `NextInRange` also for peers that have installed a snapshot | `NextInRange` | a deposed leader's install goroutine sends its snapshot under the new leader's term (raft.go:1412), and the leader's log shrinks below `nextIndex` |
| `KVSnapshot` | `NoStaleChannels` | channels of handlers an install has woken stay in `ClientCh` (server.go:578) |
| `KVService`, `AtomicRegister = FALSE` | `NoMissedWakeup` | a handler registers for an index that has been applied since its `Start` (server.go:279) |
| `KVService`, one clerk, `MaxNum = 3`, `MaxLosses = 2` | `ReadsAbsence` | a `Get` takes the `ErrNoKey` of another command at its index for its own (server.go:353) |
| `KVStable`, `MaxElections = 2`, `MaxLosses = 0`, `Kinds = {2}`, `Slot = {1}`, `MaxLog = 5`, `AtomicRegister = TRUE` | `CallsReturn` | a deposed leader's handler waits for an index that is never applied there (server.go:325) |
| `KVStable` as `Spec`, `Kinds = {0, 2}`, `AtomicRegister = TRUE`, `LateRequests = TRUE`, `MaxNum = 2`, `MaxLog = 5` | `ExecuteOnce` | a `Get` that arrives late lowers the client's number (server.go:646), and a duplicate write is executed again |
| `KVSnapshot`, `Snapshots = {0}`, `AtomicRegister = TRUE`, `FreshInstalls = FALSE`, no election, no restart | `ReplicaState` | a snapshot behind `lastApplied` replaces the map (server.go:559) |
| `MRJob` | `ReduceInTurn` | after a reduce task `MapPointer` is moved instead of `ReducePointer` (master.go:156): the first unfinished reduce task is handed out until it is done |

Three more follow from the models directly. After `Kill`, a call of `Start` returns
with `rf.mu` locked (raft.go:483), and the next call waits for good, although the
comment at raft.go:466 says that `Start` should return gracefully; `RaftThreads`
has this as `abandoned`, and its liveness properties speak of living peers. Every
`Append2` loop of a lost leadership starts an oscillator, so a peer may have several
(raft.go:1380); `TimerKept` asks for one at least. `checkParallel` waits for a result
before it compares their number (checker.go:297), so a history without operations and
without timeout is waited for for good; `CheckEnds` leaves it out.

## 6. Proofs

TLAPS checks the proofs for every value of the constants. Those about `Raft` are for
any finite set of peers and any bounds, with or without no-ops, from
`ServerAssumption`, `FlagAssumption` and `BoundAssumption`. `RaftInvariants` has the
inductive invariants, `RaftSafetyProofs` the theorems except the first two; the other
modules have the lemmas.

* `TypeCorrect` (`RaftProofs`): `Spec => []TypeOK`. The lemmas `findEntryType`,
  `findLastType`, `MedianExists` show that each CHOOSE the model uses for a search of
  the code has a value to choose.
* `MedianIsMajority` (`RaftProofs`): what `updateCommit` takes from the sorted
  `matchIndex` is held by more than half the peers if their number is odd.
* `DurableCorrect` (lemmas in `RaftProofs`): `Spec => []Durable`. Not inductive
  alone: a peer that installs a snapshot writes the received data and takes its
  index and term from the message, so `DurableInv` adds `SnapshotsLabelled`, that
  a snapshot travels with its own index and term.
* `VoteOnceCorrect`, `VotesCountedOnceCorrect` (lemmas in `RaftProofs`): a peer
  votes for one candidate per term, and a candidate counts distinct voters, across
  delays, losses and restarts. The inductive invariant `ElectionInv` adds that a vote is
  for a term its voter has reached and is remembered by `votedFor` in that term
  (`VotesKnown`), and that between a candidate and a peer there is one goroutine,
  request or reply per term at most, none once the vote was counted (`SpawnedOnce`,
  `AskedOnce`, `AnsweredOnce`). Restarts use `Durable`. Steps that give no vote are
  handled together (`Calm`).
* `ElectionSafe`: `AtomicCheck => (Spec => []ElectionSafety)`. A leader was elected by a
  majority of votes of its term (`Elected`); two majorities share a voter, who voted
  once. `RaftElectionRace` shows that the hypothesis is needed.
* The logs: `LogMatchingCorrect`, `LeaderCompletenessCorrect`, `StateMachineSafe`,
  `CommittedHeldCorrect`, `MatchIsTrueCorrect`, `CommitUpToDateCorrect`,
  `NextInRangeCorrect`, `ApplyInOrderCorrect`, the action properties
  `CommitsOwnTermCorrect` and `CommitMonotoneCorrect`, and the refinement
  `ReplicatesCorrect`, each as `PlainCluster => (Spec => ...)`. See below.
* `TimerKeptCorrect`, `PeersServedCorrect`, `ThreadTypeCorrect` (`RuntimeProofs`,
  from `ThreadsAssumption`): for any number of peers, callers and terms. `ThreadInv` is
  the two properties and the types they need: a peer that starts to lead has a loop for
  everyone, and a loop ends on a living peer only by starting a timer.
* `OneWriterCorrect`, `AckedKeptCorrect`, `CrashedSilentCorrect` (`RuntimeProofs`, from
  `NetworkAssumption`): for any servers, calls and number of restarts. `ClusterInv` says that the saved
  Persister is the last one made and only the last instance can have it (`Files`), what
  `start1` and `crash1` have established at each step (`Progress`), that a registered
  instance writes to the saved Persister (`Registered`), and where a call's write is
  (`Calls`): in the Persister of the instance that executed it, and in the saved one
  once the call was answered. The last look at the registry before a reply is what
  carries a call from the one to the other.
* `ReplicasAgree`, `WritesOnce`, `OKIsChosen`, `GetsAreCurrent`, `ChannelsHaveReceivers`
  (`KVServerProofs`, from `ServiceAssumption`): `ReplicaState`, `ExecuteOnce`,
  `Acknowledged`, `ReadsCurrent` and `NoStaleChannels`, each as
  `PlainService => (Spec => []...)`, for any number of servers, clerks, keys, commands,
  elections, lost calls and restarts. See below.
* `ReducersReadCompleteFiles`, `JobDoneIsComplete`, `TypeCorrect` (`MapReduceProofs`,
  from `JobAssumption`): `FilesReady`, `JobComplete` and the types, for any number of
  tasks, workers and crashes. See below.

In the modules about `Raft`, `KVServer` and `MapReduce`, `USE ZenonT(60)` leaves a leaf to
Zenon; the leaves that need arithmetic name `SMT`.

### The logs

`PlainCluster` says what these theorems assume:

* `AtomicCheck` and `InOrder`. The code ensures neither. Without the first a term can
  have two leaders (`RaftElectionRace`), without the second `AppendEntries` removes
  committed entries when it handles a request that was overtaken
  (`RaftStaleHeartbeat`); the properties are false then.
* `Snapshots = {}`: no service offers a snapshot, as in labs 2 and 3A, where
  `maxraftstate` is -1. `SnapFree` is the invariant that follows. Install goroutines
  and calls still exist, because `Append2` spawns one whenever `nextIndex` is not
  positive; `InstallSnapshot` answers them.
* An odd number of at least three peers, as in all tests. The median of an even number
  is held by only half of them.

Requests may be lost, and delayed without bound; peers crash at any write and restart,
and any number of terms, leaders and commands is possible. The bounds of the runs
(`MaxTerm`, `MaxLog`, ...) are constants of the specification without an upper limit.

The invariant has to say why an entry that a majority acknowledged is in every later
leader's log, after the logs that were compared are gone. So it speaks of the past:
`T[t]` is the log the leader of term `t` had when it last led, and `<<j, t, n>> \in W`
says that `j` accepted an `AppendEntries` of term `t` up to index `n`. They are not
variables. `HistoryInv` says that such `T` and `W` exist, and the proof of each step
says what they become: `Start` and `BecomeLeader` change `T`, `AppendEntries` adds to
`W`, every other step leaves both alone. The conjuncts of `History(T, W)`:

| conjunct | says |
|---|---|
| `LedInv` | who led a term has that log as long as the term lasts, also after a restart |
| `SoundInv` | up to each of its entries, a log is that of the leader which made the entry: log matching |
| `SentInv`, `AnswerInv` | a request is a slice of its leader's log that covers all older entries and no less than the receiver has accepted; a reply tells what was accepted |
| `AcceptInv`, `KeptInv` | who has acknowledged an entry has it, or a later leader did not |
| `AskInv`, `VotedInv`, `WonInv` | a candidate has what its voters acknowledged, and so has the leader it becomes, unless a leader before it did not |
| `LeadInv`, `InstallsInv`, `CommitUpToDate` | `nextIndex`, `matchIndex` and `startAppend`: before the first `Start` of a term nothing is counted, afterwards what is counted is of that term |
| `CommitInv`, `AppliedInv` | what is committed, sent as committed or applied is a prefix of what a majority acknowledged in the term that made it |

`WonInv` is what carries the argument. "Unless a leader before it did not" is ruled out
by taking the least term whose leader lacks the entry: that leader won a majority, which
shares a peer with the majority that acknowledged the entry. `CountingFacts` gives both
that peer and the least term. `MedianFacts` is what is used of `updateCommit`'s median,
`SearchFacts` of `findEntry`. They are hypotheses of the lemmas, so that these need no
theory of finite sets, and are proved in `RaftProofs` (`CountingHolds`, `MedianHolds`,
`SearchHolds`).

`RaftLeaderProofs` has the steps that elect a leader and that a leader takes (with
`CountedOwnTerm`, the reason that counting stays within a term), `RaftFollowerProofs`
`AppendEntries`, crashes and restarts, `RaftHistoryProofs` the other steps and what
`History` implies. It also has a second invariant, `ToldInv`: a service was told the
commands from the first on without a gap up to `commitIndex`, and the services together
were told those from 1 to some `n`. `ServiceSteps` shows that every step tells one
service the next commands of its log, starts one over, or changes nothing of this. With
`StateMachineSafety` that is a step of `ReplicatedLog` (`ReplicatesStep`).

### The key/value service

`PlainService` says what these theorems assume: `Snapshots = {}` (lab 3A) and
`~LateRequests`. The code does not ensure the second, and without it `ExecuteOnce` is false
(section 5). Nothing is assumed of `AtomicRegister`: a handler may register long
after its `Start`. The Raft peers are those of the model, as in section 2; that they agree
on what was chosen is what `RaftSafetyProofs` proves of `Raft`.

The argument is that of exactly-once execution. A command enters a log only while its
clerk waits for it, so in every log the numbers of a client never go down. The Applier
executes a command if its number is above the client's last one; with ordered numbers
that is so exactly for the first copy of the command. So a server holds what the first
copies up to `lastApplied` produce, however often entries are delivered, and after a
restart from nothing. A command that a handler finds applied, or receives from the
Applier, while its clerk waits was not chosen before the clerk issued it; so what a `Get`
returns is not older than that. `ServiceInv`:

| conjunct | says |
|---|---|
| `Types` | the shapes of the state, without snapshots |
| `OpsInv` | a client has one command of each number, none above the one its clerk is at |
| `OrderInv` | in each log, and in what was chosen, the numbers of a client never go down; the leader's log starts with what was chosen |
| `ApplyInv` | what is on its way to the Applier leads from `lastApplied` to `commitIndex` without a gap, each index once or more |
| `StoreInv` | the map and the clients' numbers are those of the chosen commands up to `lastApplied` |
| `HandInv` | what the Applier hands out is the result of the entry it has just applied |
| `ClerkInv`, `CallInv` | a clerk waits for one call, which is of its current command; what the call has found at each of its steps |
| `SinceInv` | the current command of a clerk is not among what was chosen when the clerk issued it |
| `ChannelInv` | who is in `ClientCh` waits there |

What the first copies produce (`ContentsOf`) is a recursive function of the index. That
it depends only on the commands up to there, that a later command adds to it what the
Applier does, and that no write is in it twice, is shown by looking at the least index
where it would not hold.

### The MapReduce job

Neither property is inductive: that a reduce task finds complete files depends on who
wrote them, on who else might, and on when the task was handed out. `JobInv` says

| conjunct | says |
|---|---|
| `IdsInv` | no two processes have the same id, and ids do not run out: those given out and the processes still without one are no more than the processes there have been |
| `RingKinds` | links lead from map nodes to map nodes and from reduce nodes to reduce nodes, so that a search that starts in a ring stays there |
| `CountInv` | `MapFinished` and `ReduceFinished` are the numbers of open tasks, although late and repeated reports arrive |
| `WorkInv` | a worker that maps has filled the files before the one it is at, and they are not those the master has recorded; one that reduces was given its task after the last map task was done; one that reports has complete files |
| `DoneInv` | the recorded files of a finished map task, and the output of a finished reduce task, are complete |

`RequestHandler` is the step that takes work: it takes a report, searches a ring that it
repairs on the way, and hands out a task. The lemmas follow the three in this order.
What the search keeps (`SearchKeeps`) is shown of the recursive function `Walk` by
looking at the least number of nodes after which it would not hold.

## 7. Only model-checked

* The logs of peers that compact them (`RaftSnapshot`), and of schedules in which the
  unlocked test races without electing two leaders (`RaftFigure8`). With snapshots a log
  no longer holds what its peer has acknowledged, and the invariant would have to follow
  the discarded part through `InstallSnapshot` and a crash between its two writes.
* The key/value service with snapshots (`KVSnapshot`): the copy in three steps and the
  installation in three would each need an invariant of what is torn at every point.
* `NoMissedWakeup`, the type invariant of `KVServer`, of which `Types` is the part the
  other proofs need, and those of `Cluster` and `Porcupine`.
* Of `MapReduce`, that the search ends (`SearchEnds`) and that the rings hold the open
  tasks (`RingsSound`). The proofs about the job use only that a search stays in its
  ring. That it ends needs the order of the nodes along the rings, from deleted nodes too.
* `Porcupine`, which uses `Bitwise`; the prover does not take it.
* All liveness, which the prover does not reach.

## 8. Not modelled

* `labgob`: reflection over Go types, without state.
* `shardmaster` and `shardkv`: skeletons with empty handlers.
* `labrpc`: the counters of RPCs and bytes, and the dispatch by reflection in `Service`.
* The checks of `raft/config.go` (`checkOneLeader`, `nCommitted`, `one`, `wait`) only
  observe; they are where `ElectionSafety`, `StateMachineSafety` and `ApplyInOrder` come
  from. The harnesses of `kvraft`, `shardmaster` and `shardkv` take the same steps.
* `porcupine`: `CheckEvents`, which makes the entries from another form of history, and
  the HTML visualization.
* The MapReduce applications, the mains, and the old versions kept as `*_go` files.
* Code of `raft.go` that nothing calls any more: `Append` and `heartbeat` (1169-1334) and
  `Start2` (534, commented out); `checkSnapBytes` of `kvraft/server.go`.
* The array that `rf.log[nextIndex:]` shares with the log while a request is encoded
  (raft.go:1518): it needs the capacities of slices. Requests are copied in the model.
* Changes of leader together with liveness in `KVServer`: see section 5.
