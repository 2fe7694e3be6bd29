---------------------------- MODULE RuntimeProofs ----------------------------
(***************************************************************************)
(* Proofs about what a Raft peer runs on: its goroutines (RaftThreads),    *)
(* and the network and the harness it is tested in (Cluster).              *)
(*                                                                         *)
(* For any number of servers, of terms and of callers, a peer never loses  *)
(* its election timer, and a leader never the loops that serve its         *)
(* followers.  Neither fact is inductive alone: a timer stops because the  *)
(* peer leads, and what brings it back are the loops every leader has; a   *)
(* step-down keeps the loops, and so keeps what will restart the timer.    *)
(*                                                                         *)
(* For any servers, calls and number of restarts, no Persister has two     *)
(* writers, what a caller was told has happened is in the Persister that   *)
(* the server will be restarted from, and no request of an instance that   *)
(* has crashed gets past the registry.                                     *)
(***************************************************************************)
EXTENDS RaftThreads, Cluster, TLAPS

-----------------------------------------------------------------------------
(* The goroutines of a peer *)

(* The types of the counters both properties speak of. *)
ThreadType ==
    /\ timers \in Nat
    /\ loops \in [Peer -> [lock : Nat, select : Nat]]

(* The inductive invariant. *)
ThreadInv == ThreadType /\ TimerKept /\ PeersServed

(* There is another peer: the servers are at least two. *)
LEMMA SomePeer == 1 \in Peer
BY ThreadsAssumption DEF Peer

(* Initially the peer follows and Make's oscillator runs. *)
LEMMA ThreadInit == ThreadsInit => ThreadInv
BY DEF ThreadsInit, ThreadInv, ThreadType, TimerKept, PeersServed

(* A step that leaves role, life, timers and loops alone keeps the invariant. *)
LEMMA ThreadsIdle ==
    ASSUME ThreadInv, UNCHANGED <<dead, timers, loops>>, tp' = tp \/ tp' # 2
    PROVE  ThreadInv'
<1>1. ThreadType'
  BY DEF ThreadInv, ThreadType
<1>2. \A j \in Peer : Loops(j)' = Loops(j)
  BY DEF Loops
<1>3. QED
  BY <1>1, <1>2, SomePeer DEF ThreadInv, TimerKept, PeersServed

(* Killing the peer makes both properties hold at once. *)
LEMMA DeadInv ==
    ASSUME ThreadType', dead'
    PROVE  ThreadInv'
BY DEF ThreadInv, TimerKept, PeersServed

(* A turn of the timer stops it only for a peer that leads. *)
LEMMA oscillatorInv ==
    ASSUME ThreadInv, oscillator
    PROVE  ThreadInv'
<1>1. timers \in Nat /\ timers > 0 /\ UNCHANGED <<dead, tp, loops>>
  BY DEF ThreadInv, ThreadType, oscillator, peerVars
<1>2. ThreadType'
  BY <1>1 DEF ThreadInv, ThreadType, oscillator
<1>3. \A j \in Peer : Loops(j)' = Loops(j)
  BY <1>1 DEF Loops
<1>4. CASE dead
  BY <1>1, <1>2, <1>4, DeadInv
<1>5. CASE ~dead /\ tp = 2
  BY <1>1, <1>2, <1>3, <1>5 DEF ThreadInv, TimerKept, PeersServed
<1>6. CASE ~dead /\ tp # 2
  <2>1. timers' = timers
    BY <1>6 DEF oscillator, Stops
  <2>2. QED
    BY <1>1, <1>2, <1>3, <1>6, <2>1 DEF ThreadInv, TimerKept, PeersServed
<1>7. QED
  BY <1>4, <1>5, <1>6

(* A peer that wins gets one loop more for every other peer. *)
LEMMA ElectionTurnInv ==
    ASSUME ThreadInv, NEW t \in Term, ElectionTurn(t)
    PROVE  ThreadInv'
<1>1. UNCHANGED <<dead, timers>>
  BY DEF ElectionTurn
<1>2. CASE UNCHANGED <<tp, loops>>
  BY <1>1, <1>2, ThreadsIdle
<1>3. CASE /\ tp' = 2
           /\ loops' = [j \in Peer |-> IF j \in Spawned
                                       THEN [loops[j] EXCEPT !.lock = @ + 1]
                                       ELSE loops[j]]
  <2>1. loops \in [Peer -> [lock : Nat, select : Nat]] /\ timers \in Nat
    BY DEF ThreadInv, ThreadType
  <2>2. ThreadType'
    BY <1>1, <1>3, <2>1 DEF ThreadType, Spawned
  <2>3. \A j \in Peer : Loops(j)' > 0
    <3> TAKE j \in Peer
    <3>1. loops[j].lock \in Nat /\ loops[j].select \in Nat
      BY <2>1
    <3>2. loops'[j] = [loops[j] EXCEPT !.lock = @ + 1]
      BY <1>3 DEF Spawned
    <3>3. loops'[j].lock = loops[j].lock + 1
      BY <2>1, <3>2
    <3>4. loops'[j].select = loops[j].select
      BY <2>1, <3>2
    <3>5. QED
      BY <3>1, <3>3, <3>4 DEF Loops
  <2>4. QED
    BY <1>3, <2>2, <2>3 DEF ThreadInv, TimerKept, PeersServed
<1>4. QED
  BY <1>2, <1>3 DEF ElectionTurn

(* A loop that gives up starts a timer, and only a peer that no longer leads *)
(* loses a loop.                                                             *)
LEMMA Append2Inv ==
    ASSUME ThreadInv, NEW k \in Peer, Append2(k)
    PROVE  ThreadInv'
<1>1. loops \in [Peer -> [lock : Nat, select : Nat]] /\ timers \in Nat
  BY DEF ThreadInv, ThreadType
<1>2. loops[k].lock \in Nat /\ loops[k].select \in Nat /\ loops[k].lock > 0
  BY <1>1 DEF Append2
<1>3. UNCHANGED <<dead, tp>>
  BY DEF Append2, peerVars
<1>4. loops[k].lock - 1 \in Nat /\ loops[k].select + 1 \in Nat
  BY <1>2
<1>5. CASE loops' = [loops EXCEPT ![k].lock = @ - 1] /\ (dead \/ (GivesUp(tp) /\ timers' = timers + 1))
  <2>1. loops' \in [Peer -> [lock : Nat, select : Nat]]
    BY <1>1, <1>4, <1>5
  <2>2. timers' \in Nat
    BY <1>1 DEF Append2
  <2>3. ThreadType'
    BY <2>1, <2>2 DEF ThreadType
  <2>4. CASE dead
    BY <1>3, <2>3, <2>4, DeadInv
  <2>5. CASE GivesUp(tp) /\ timers' = timers + 1
    BY <1>1, <1>3, <2>3, <2>5 DEF GivesUp, ThreadInv, TimerKept, PeersServed
  <2>6. QED
    BY <1>5, <2>4, <2>5
<1>6. CASE /\ loops' = [loops EXCEPT ![k] = [lock |-> @.lock - 1, select |-> @.select + 1]]
           /\ timers' = timers
  <2>1. loops' \in [Peer -> [lock : Nat, select : Nat]]
    BY <1>1, <1>4, <1>6
  <2>2. \A j \in Peer : Loops(j)' = Loops(j)
    BY <1>1, <1>2, <1>6 DEF Loops
  <2>3. QED
    BY <1>1, <1>3, <1>6, <2>1, <2>2 DEF ThreadInv, ThreadType, TimerKept, PeersServed
<1>7. QED
  BY <1>5, <1>6 DEF Append2

(* A loop whose select ends is back at the lock. *)
LEMMA TurnsInv ==
    ASSUME ThreadInv, NEW k \in Peer, loops[k].select > 0, Turns(k),
           UNCHANGED <<dead, tp, timers>>
    PROVE  ThreadInv'
<1>1. loops \in [Peer -> [lock : Nat, select : Nat]] /\ timers \in Nat
  BY DEF ThreadInv, ThreadType
<1>2. loops[k].lock + 1 \in Nat /\ loops[k].select - 1 \in Nat
  BY <1>1
<1>3. loops' \in [Peer -> [lock : Nat, select : Nat]]
  BY <1>1, <1>2 DEF Turns
<1>4. \A j \in Peer : Loops(j)' = Loops(j)
  BY <1>1, <1>2 DEF Loops, Turns
<1>5. QED
  BY <1>1, <1>3, <1>4 DEF ThreadInv, ThreadType, TimerKept, PeersServed

(* Every step keeps the invariant, one case per action. *)
LEMMA ThreadNext == ThreadInv /\ [ThreadsNext]_threadVars => ThreadInv'
<1> SUFFICES ASSUME ThreadInv, [ThreadsNext]_threadVars
             PROVE  ThreadInv'
  OBVIOUS
<1>1. CASE Kill
  BY <1>1, DeadInv DEF Kill, ThreadInv, ThreadType
<1>2. CASE oscillator
  BY <1>2, oscillatorInv
<1>3. CASE startElection
  BY <1>3, ThreadsIdle DEF startElection
<1>4. CASE StepDown
  BY <1>4, ThreadsIdle DEF StepDown
<1>5. CASE HeardLeader
  BY <1>5, ThreadsIdle DEF HeardLeader
<1>6. ASSUME NEW t \in Term, ElectionNext(t)
      PROVE  ThreadInv'
  <2>1. CASE ElectionTest(t)
    BY <2>1, ThreadsIdle DEF ElectionTest, peerVars
  <2>2. CASE ElectionTurn(t)
    BY <2>2, ElectionTurnInv
  <2>3. QED
    BY <1>6, <2>1, <2>2 DEF ElectionNext
<1>7. ASSUME NEW t \in Term, NEW j \in Peer, VoteReply(t, j)
      PROVE  ThreadInv'
  <2>1. UNCHANGED <<dead, timers, loops>>
    BY <1>7 DEF VoteReply
  <2>2. tp' = tp \/ tp' = 0
    BY <1>7 DEF VoteReply, peerVars
  <2>3. QED
    BY <2>1, <2>2, ThreadsIdle
<1>8. ASSUME NEW j \in Peer, Append2Timer(j) \/ Append2Woken(j)
      PROVE  ThreadInv'
  BY <1>8, TurnsInv DEF Append2Timer, Append2Woken, peerVars
<1>9. ASSUME NEW j \in Peer, FallsBehind(j) \/ Installed(j)
      PROVE  ThreadInv'
  BY <1>9, ThreadsIdle DEF FallsBehind, Installed, peerVars
<1>10. ASSUME NEW c \in Caller, CallStart(c) \/ StartNext(c)
       PROVE  ThreadInv'
  BY <1>10, ThreadsIdle
     DEF CallStart, StartNext, StartLocked, StartTest, StartSend, peerVars
<1>11. CASE UNCHANGED threadVars
  BY <1>11, ThreadsIdle DEF threadVars
<1>12. QED
  BY <1>1, <1>2, <1>3, <1>4, <1>5, <1>6, <1>7, <1>8, <1>9, <1>10, <1>11,
     Append2Inv DEF ThreadsNext

(* In every behaviour of the peer a living non-leader has a timer, or a loop *)
(* of its last leadership that will start one (oscillator, Append2).         *)
THEOREM TimerKeptCorrect == ThreadsSpec => []TimerKept
<1>1. ThreadInv => TimerKept
  BY DEF ThreadInv
<1>2. QED
  BY <1>1, ThreadInit, ThreadNext, PTL DEF ThreadsSpec

(* In every behaviour of the peer a living leader has an Append2 loop for    *)
(* every other peer (startElection, Append2).                                *)
THEOREM PeersServedCorrect == ThreadsSpec => []PeersServed
<1>1. ThreadInv => PeersServed
  BY DEF ThreadInv
<1>2. QED
  BY <1>1, ThreadInit, ThreadNext, PTL DEF ThreadsSpec

-----------------------------------------------------------------------------
(* Types of the goroutines *)

(* The types hold initially. *)
LEMMA TypeInit == ThreadsInit => ThreadsTypeOK
<1> SUFFICES ASSUME ThreadsInit
             PROVE  ThreadsTypeOK
  OBVIOUS
<1> USE ThreadsAssumption DEF ThreadsInit
<1>1. dead \in BOOLEAN /\ abandoned \in BOOLEAN
  OBVIOUS
<1>2. term \in 0..MaxTerm /\ tp \in 0..2 /\ voteCount \in Nat /\ timers \in Nat /\ starting \in Nat
  OBVIOUS
<1>3. election \in [Term -> Election]
  BY DEF Election
<1>4. loops \in [Peer -> [lock : Nat, select : Nat]] /\ apps \in [Peer -> 0..1]
  OBVIOUS
<1>5. start \in [Caller -> Starting]
  BY DEF Starting, Peer
<1>6. QED
  BY <1>1, <1>2, <1>3, <1>4, <1>5 DEF ThreadsTypeOK

(* Every step keeps the types, one case per action. *)
LEMMA TypeNext == ThreadsTypeOK /\ [ThreadsNext]_threadVars => ThreadsTypeOK'
<1> SUFFICES ASSUME ThreadsTypeOK, [ThreadsNext]_threadVars
             PROVE  ThreadsTypeOK'
  OBVIOUS
<1> USE ThreadsAssumption DEF ThreadsTypeOK
<1>1. CASE Kill
  BY <1>1 DEF Kill, peerVars
<1>2. CASE oscillator
  BY <1>2 DEF oscillator, peerVars
<1>3. CASE startElection
  <2>1. term + 1 \in Term
    BY <1>3 DEF startElection, Term
  <2>2. election' \in [Term -> Election]
    BY <1>3, <2>1 DEF startElection, Election
  <2>3. QED
    BY <1>3, <2>2 DEF startElection
<1>4. CASE StepDown \/ HeardLeader
  BY <1>4 DEF StepDown, HeardLeader
<1>5. ASSUME NEW t \in Term, ElectionTest(t)
      PROVE  ThreadsTypeOK'
  <2>1. election' \in [Term -> Election]
    BY <1>5 DEF ElectionTest, Election
  <2>2. QED
    BY <1>5, <2>1 DEF ElectionTest, peerVars
<1>6. ASSUME NEW t \in Term, ElectionTurn(t)
      PROVE  ThreadsTypeOK'
  <2>1. election' \in [Term -> Election]
    BY <1>6, SMTT(30) DEF ElectionTurn, Election
  <2>2. start' \in [Caller -> Starting]
    BY <1>6, SMTT(30) DEF ElectionTurn, Starting, Caller
  <2>3. loops' \in [Peer -> [lock : Nat, select : Nat]]
    BY <1>6 DEF ElectionTurn
  <2>4. dead' \in BOOLEAN /\ abandoned' \in BOOLEAN
    BY <1>6, Zenon DEF ElectionTurn
  <2>5. tp' \in 0..2 /\ lagging' \in SUBSET Peer
    BY <1>6 DEF ElectionTurn
  <2>6. QED
    BY <1>6, <2>1, <2>2, <2>3, <2>4, <2>5 DEF ElectionTurn
<1>7. ASSUME NEW t \in Term, NEW j \in Peer, VoteReply(t, j)
      PROVE  ThreadsTypeOK'
  <2>1. election[t] \in Election
    OBVIOUS
  <2>2. [election[t] EXCEPT !.asked = @ \ {j}] \in Election
    BY <2>1 DEF Election
  <2>3. \A e \in Election : Broadcast(e) \in Election
    BY DEF Election, Broadcast
  <2>4. election' \in [Term -> Election]
    BY <1>7, <2>2, <2>3 DEF VoteReply
  <2>5. QED
    BY <1>7, <2>4 DEF VoteReply, peerVars
<1>8. ASSUME NEW j \in Peer, Append2(j)
      PROVE  ThreadsTypeOK'
  <2>1. loops[j].lock - 1 \in Nat /\ loops[j].select + 1 \in Nat
    BY <1>8 DEF Append2
  <2>2. loops' \in [Peer -> [lock : Nat, select : Nat]]
    BY <1>8, <2>1 DEF Append2
  <2>3. dead' \in BOOLEAN /\ abandoned' \in BOOLEAN
    BY <1>8, Zenon DEF Append2
  <2>4. timers' \in Nat
    BY <1>8 DEF Append2
  <2>5. QED
    BY <1>8, <2>2, <2>3, <2>4 DEF Append2, peerVars
<1>9. ASSUME NEW j \in Peer, Append2Timer(j) \/ Append2Woken(j)
      PROVE  ThreadsTypeOK'
  <2>1. loops[j].lock + 1 \in Nat /\ loops[j].select - 1 \in Nat
    BY <1>9 DEF Append2Timer, Append2Woken
  <2>2. loops' \in [Peer -> [lock : Nat, select : Nat]]
    BY <1>9, <2>1 DEF Append2Timer, Append2Woken, Turns
  <2>3. apps' \in [Peer -> 0..1]
    BY <1>9 DEF Append2Timer, Append2Woken
  <2>4. QED
    BY <1>9, <2>2, <2>3 DEF Append2Timer, Append2Woken, peerVars
<1>10. ASSUME NEW j \in Peer, FallsBehind(j) \/ Installed(j)
       PROVE  ThreadsTypeOK'
  BY <1>10 DEF FallsBehind, Installed, peerVars
<1>11. \A c \in Caller : Onward(start[c]) \in Starting
  BY DEF Onward, Starting, Peer
<1>12. ASSUME NEW c \in Caller, CallStart(c) \/ StartNext(c)
       PROVE  ThreadsTypeOK'
  <2>1. start[c] \in Starting /\ start[c].at \in Peer
    BY DEF Starting
  <2>2. start' \in [Caller -> Starting]
    BY <1>11, <1>12, <2>1 DEF CallStart, StartNext, StartLocked, StartTest, StartSend, Starting
  <2>3. apps' \in [Peer -> 0..1]
    BY <1>12, <2>1 DEF CallStart, StartNext, StartLocked, StartTest, StartSend, Room
  <2>4. QED
    BY <1>12, <2>2, <2>3 DEF CallStart, StartNext, StartLocked, StartTest, StartSend, peerVars
<1>13. CASE UNCHANGED threadVars
  BY <1>13 DEF threadVars
<1>14. QED
  BY <1>1, <1>2, <1>3, <1>4, <1>5, <1>6, <1>7, <1>8, <1>9, <1>10, <1>12, <1>13
     DEF ThreadsNext, ElectionNext

(* In every behaviour the peer's state is well typed; in particular a wake-up *)
(* channel never holds more than one element (Start, Append2).                *)
THEOREM ThreadTypeCorrect == ThreadsSpec => []ThreadsTypeOK
BY TypeInit, TypeNext, PTL DEF ThreadsSpec

-----------------------------------------------------------------------------
(* The invariant of the cluster *)

CallRecord ==
    [st : {"none", "calling", "accepted", "delivering", "waiting", "handled", "answered", "done"},
     end : End \cup {<<>>}, hangs : BOOLEAN, server : Nat, reliable : BOOLEAN,
     handler : {"none", "running", "executed", "returned"}, ok : BOOLEAN]

CfgRecord ==
    [step : {"delete", "save", "ends", "make", "add"}, i : Server, restart : BOOLEAN]

Types ==
    /\ reliable \in BOOLEAN
    /\ servers \in [Server -> Nat] /\ lives \in [Server -> Nat] /\ saved \in [Server -> Nat]
    /\ heap \in [Server -> Seq(SUBSET Call)]
    /\ persister \in [Server \X Life -> Nat]
    /\ call \in [Call -> CallRecord]
    /\ cfg \in {Idle} \cup CfgRecord

(* Persisters are made in order, the saved one is the last that was made,  *)
(* and of the instances only the last can have it.                         *)
Files ==
    \A i \in Server :
        /\ saved[i] = Len(heap[i])
        /\ \A l \in Life : l <= lives[i] =>
              /\ 1 <= persister[<<i, l>>] /\ persister[<<i, l>>] <= saved[i]
              /\ persister[<<i, l>>] = saved[i] => l = lives[i]
              /\ \A k \in Life : k < l => persister[<<i, k>>] < persister[<<i, l>>]

(* What start1 and crash1 have established when they reach each step. *)
Progress ==
    cfg # Idle =>
        /\ cfg.step \in {"ends", "make"} \/ (cfg.step # "add" /\ cfg.restart) =>
              lives[cfg.i] < MaxLives
        /\ cfg.step # "delete" => servers[cfg.i] = 0
        /\ cfg.step = "make" =>
              /\ saved[cfg.i] # 0
              /\ \A l \in Life : l <= lives[cfg.i] => persister[<<cfg.i, l>>] < saved[cfg.i]
        /\ cfg.step = "add" =>
              /\ lives[cfg.i] \in Life
              /\ persister[<<cfg.i, lives[cfg.i]>>] = saved[cfg.i]

(* A registered instance is the last one and writes to the saved Persister. *)
Registered ==
    \A i \in Server : servers[i] # 0 =>
        /\ servers[i] = lives[i] /\ lives[i] \in Life
        /\ persister[<<i, lives[i]>>] = saved[i]

(* A call that was delivered has an instance; one whose handler has done   *)
(* its work is in the Persister of that instance; one that was answered    *)
(* with success is in the saved Persister.                                 *)
CallInv(c, r) ==
    LET i == r.end[3]
    IN  /\ r.st # "none" => r.end \in End
        /\ r.st \in {"none", "calling", "accepted", "delivering"} => r.handler = "none"
        /\ r.st \notin {"answered", "done"} => ~r.ok
        /\ r.st \in {"delivering", "waiting", "handled"} \/ r.handler # "none" =>
              r.end \in End /\ r.server \in Life /\ r.server <= lives[i]
        /\ r.st = "handled" => r.handler = "returned"
        /\ r.handler \in {"executed", "returned"} => c \in heap[i][persister[<<i, r.server>>]]
        /\ r.ok => saved[i] # 0 /\ c \in heap[i][saved[i]]

Calls == \A c \in Call : CallInv(c, call[c])

ClusterInv == Types /\ Files /\ Progress /\ Registered /\ Calls

-----------------------------------------------------------------------------
(* Initial states *)

(* Before the first start1 there is no instance, no Persister and no call. *)
LEMMA ClusterInit == Init => ClusterInv
<1> SUFFICES ASSUME Init
             PROVE  ClusterInv
  OBVIOUS
<1> USE NetworkAssumption DEF Init, MakeNetwork
<1>1. NoCall \in CallRecord
  BY DEF NoCall, CallRecord
<1>2. Types
  BY <1>1 DEF Types, Life
<1>3. Files
  <2>1. \A i \in Server : saved[i] = 0 /\ lives[i] = 0 /\ heap[i] = <<>>
    OBVIOUS
  <2>2. Len(<<>>) = 0 /\ \A l \in Life : ~(l <= 0)
    BY DEF Life
  <2>3. QED
    BY <2>1, <2>2 DEF Files
<1>4. Progress /\ Registered
  BY DEF Progress, Registered
<1>5. Calls
  BY DEF Calls, CallInv, NoCall
<1>6. QED
  BY <1>2, <1>3, <1>4, <1>5 DEF ClusterInv

-----------------------------------------------------------------------------
(* Steps of a call *)

(* A step that changes one call, to a record that satisfies its part of    *)
(* the invariant, keeps all of it.                                         *)
LEMMA OneCall ==
    ASSUME ClusterInv, NEW c \in Call, NEW r \in CallRecord, CallInv(c, r),
           call' = [call EXCEPT ![c] = r],
           UNCHANGED <<reliable, servers, cfgVars>>
    PROVE  ClusterInv'
<1> USE DEF ClusterInv
<1>1. Types'
  BY DEF Types, cfgVars
<1>2. Files' /\ Progress' /\ Registered'
  BY DEF Files, Progress, Registered, cfgVars
<1>3. ASSUME NEW d \in Call
      PROVE  CallInv(d, call[d])' 
  <2>1. call'[d] = IF d = c THEN r ELSE call[d]
    BY DEF Types
  <2>2. CallInv(d, call'[d])
    BY <2>1 DEF Calls
  <2>3. QED
    BY <2>2 DEF CallInv, cfgVars
<1>4. QED
  BY <1>1, <1>2, <1>3 DEF Calls

(* Call and processReq keep the invariant. *)
LEMMA CallStepInv ==
    ASSUME ClusterInv, NEW c \in Call, CallStep(c), UNCHANGED cfgVars
    PROVE  ClusterInv'
<1> DEFINE old == call[c]
<1>1. old \in CallRecord /\ CallInv(c, old)
  BY DEF ClusterInv, Types, Calls
<1>2. ASSUME NEW st, Move(c, st), UNCHANGED <<reliable, servers>>,
             st \in {"accepted", "done", "handled"},
             [old EXCEPT !.st = st] \in CallRecord => CallInv(c, [old EXCEPT !.st = st])
      PROVE  ClusterInv'
  <2>1. [old EXCEPT !.st = st] \in CallRecord
    BY <1>1, <1>2 DEF CallRecord
  <2>2. call' = [call EXCEPT ![c] = [old EXCEPT !.st = st]]
    BY <1>2 DEF Move
  <2>3. QED
    BY <1>2, <2>1, <2>2, OneCall
<1>3. ASSUME NEW ok \in BOOLEAN, Answer(c, ok), UNCHANGED <<reliable, servers>>,
             old.st # "none",
             ok => saved[To(c)] # 0 /\ c \in heap[To(c)][saved[To(c)]]
      PROVE  ClusterInv'
  <2> DEFINE r == [old EXCEPT !.st = "answered", !.ok = ok]
  <2>1. r \in CallRecord
    BY <1>1 DEF CallRecord
  <2>2. r.st = "answered" /\ r.ok = ok /\ r.end = old.end /\ r.server = old.server
        /\ r.handler = old.handler
    BY <1>1 DEF CallRecord
  <2>3. CallInv(c, r)
    BY <1>1, <1>3, <2>2 DEF CallInv, To
  <2>4. call' = [call EXCEPT ![c] = r]
    BY <1>3 DEF Answer
  <2>5. QED
    BY <1>3, <2>1, <2>3, <2>4, OneCall
<1>4. CASE Accept(c)
  <2>1. CallInv(c, [old EXCEPT !.st = "accepted"])
    BY <1>1, <1>4 DEF Accept, CallInv, CallRecord
  <2>2. QED
    BY <1>2, <1>4, <2>1 DEF Accept
<1>5. CASE NetworkDestroyed(c) \/ Return(c)
  <2>1. CallInv(c, [old EXCEPT !.st = "done"])
    BY <1>1, <1>5 DEF NetworkDestroyed, Return, CallInv, CallRecord
  <2>2. QED
    BY <1>2, <1>5, <2>1 DEF NetworkDestroyed, Return
<1>6. CASE readEndnameInfo(c)
  <2>1. CASE old.end \in enabled /\ servers[To(c)] # 0
    <3> DEFINE r == [old EXCEPT !.st = "delivering", !.server = servers[To(c)], !.reliable = reliable]
    <3>1. To(c) \in Server
      BY <1>1, <1>6 DEF readEndnameInfo, CallInv, To, End
    <3>2. servers[To(c)] \in Life /\ servers[To(c)] = lives[To(c)] /\ reliable \in BOOLEAN
      BY <2>1, <3>1 DEF ClusterInv, Registered, Types
    <3>3. r \in CallRecord
      <4>1. \A n \in Nat, yes \in BOOLEAN :
               [old EXCEPT !.st = "delivering", !.server = n, !.reliable = yes] \in CallRecord
        BY <1>1 DEF CallRecord
      <4>2. servers[To(c)] \in Nat
        BY <3>2 DEF Life
      <4>3. QED
        BY <3>2, <4>1, <4>2, Zenon
    <3>4. r.st = "delivering" /\ r.ok = old.ok /\ r.end = old.end /\ r.server = servers[To(c)]
          /\ r.handler = old.handler
      BY <1>1 DEF CallRecord
    <3>5. old.handler = "none" /\ ~old.ok /\ old.end \in End
      BY <1>1, <1>6 DEF readEndnameInfo, CallInv
    <3>6. lives[To(c)] <= lives[To(c)]
      BY <3>1 DEF ClusterInv, Types
    <3>7. CallInv(c, r)
      BY <3>2, <3>4, <3>5, <3>6 DEF CallInv, To
    <3>8. call' = [call EXCEPT ![c] = r]
      BY <1>6, <2>1 DEF readEndnameInfo
    <3>9. QED
      BY <1>6, <3>3, <3>7, <3>8, OneCall DEF readEndnameInfo
  <2>2. CASE ~(old.end \in enabled /\ servers[To(c)] # 0)
    BY <1>3, <1>6, <2>2 DEF readEndnameInfo
  <2>3. QED
    BY <2>1, <2>2
<1>7. CASE DropRequest(c) \/ PollServer(c)
  BY <1>3, <1>7 DEF DropRequest, PollServer
<1>8. CASE Dispatch(c)
  <2> DEFINE r == [old EXCEPT !.st = "waiting", !.handler = "running"]
  <2>1. r \in CallRecord
    BY <1>1 DEF CallRecord
  <2>2. CallInv(c, r)
    BY <1>1, <1>8 DEF Dispatch, CallInv, CallRecord
  <2>3. call' = [call EXCEPT ![c] = r]
    BY <1>8 DEF Dispatch
  <2>4. QED
    BY <1>8, <2>1, <2>2, <2>3, OneCall DEF Dispatch
<1>9. CASE HandlerReturns(c)
  <2> DEFINE r == [old EXCEPT !.handler = "returned"]
  <2>1. r \in CallRecord
    BY <1>1 DEF CallRecord
  <2>2. CallInv(c, r)
    BY <1>1, <1>9 DEF HandlerReturns, CallInv, CallRecord
  <2>3. call' = [call EXCEPT ![c] = r]
    BY <1>9 DEF HandlerReturns
  <2>4. QED
    BY <1>9, <2>1, <2>2, <2>3, OneCall DEF HandlerReturns
<1>10. CASE HandlerDone(c)
  <2>1. CallInv(c, [old EXCEPT !.st = "handled"])
    BY <1>1, <1>10 DEF HandlerDone, CallInv, CallRecord
  <2>2. QED
    BY <1>2, <1>10, <2>1 DEF HandlerDone
<1>11. CASE Reply(c)
  <2>1. old.handler = "returned" /\ old.end \in End /\ old.server \in Life
        /\ c \in heap[To(c)][persister[<<To(c), old.server>>]]
    BY <1>1, <1>11 DEF Reply, CallInv, To
  <2>2. To(c) \in Server
    BY <2>1 DEF To, End
  <2>3. ~isServerDead(c) => saved[To(c)] # 0 /\ c \in heap[To(c)][saved[To(c)]]
    <3> SUFFICES ASSUME servers[To(c)] = old.server
                 PROVE  saved[To(c)] # 0 /\ c \in heap[To(c)][saved[To(c)]]
      BY DEF isServerDead
    <3>1. old.server # 0
      BY <2>1 DEF Life
    <3>2. old.server = lives[To(c)] /\ persister[<<To(c), old.server>>] = saved[To(c)]
      BY <2>2, <3>1 DEF ClusterInv, Registered
    <3>3. 1 <= persister[<<To(c), old.server>>]
      BY <2>1, <2>2, <3>2 DEF ClusterInv, Files, Life
    <3>4. QED
      BY <2>1, <3>2, <3>3
  <2>4. QED
    BY <1>3, <1>11, <2>3 DEF Reply
<1>12. QED
  BY <1>4, <1>5, <1>6, <1>7, <1>8, <1>9, <1>10, <1>11 DEF CallStep

(* A new call has done nothing yet. *)
LEMMA InstanceCallsInv ==
    ASSUME ClusterInv, NEW c \in Call, NEW i \in Server, NEW j \in Server, NEW l \in Life,
           NEW hangs \in BOOLEAN, InstanceCalls(c, i, l, j, hangs)
    PROVE  ClusterInv'
<1> DEFINE r == [NoCall EXCEPT !.st = "calling", !.end = <<i, l, j>>, !.hangs = hangs]
<1>1. r \in CallRecord
  BY DEF NoCall, CallRecord, End
<1>2. CallInv(c, r)
  BY DEF NoCall, CallInv, End
<1>3. call' = [call EXCEPT ![c] = r] /\ UNCHANGED <<reliable, servers, cfgVars>>
  BY DEF InstanceCalls, StartCall
<1>4. QED
  BY <1>1, <1>2, <1>3, OneCall

(* An instance that was made has one of the Persisters made for its server. *)
LEMMA InstancePersister ==
    ASSUME ClusterInv, NEW k \in Server, NEW l \in Life, l <= lives[k]
    PROVE  persister[<<k, l>>] \in 1..Len(heap[k])
<1>1. persister[<<k, l>>] \in Nat /\ heap[k] \in Seq(SUBSET Call)
  <2>1. <<k, l>> \in Server \X Life
    OBVIOUS
  <2>2. QED
    BY <2>1 DEF ClusterInv, Types
<1>2. 1 <= persister[<<k, l>>] /\ persister[<<k, l>>] <= saved[k] /\ saved[k] = Len(heap[k])
  BY DEF ClusterInv, Files
<1>3. QED
  BY <1>1, <1>2

(* So has a server for which one was saved. *)
LEMMA SavedPersister ==
    ASSUME ClusterInv, NEW k \in Server, saved[k] # 0
    PROVE  saved[k] \in 1..Len(heap[k])
<1>1. saved[k] \in Nat /\ saved[k] = Len(heap[k])
  BY DEF ClusterInv, Types, Files
<1>2. QED
  BY <1>1

(* A handler writes: Persisters keep what they hold, and only the call     *)
(* that executes changes.                                                  *)
LEMMA ExecuteInv ==
    ASSUME ClusterInv, NEW c \in Call, Execute(c)
    PROVE  ClusterInv'
<1> DEFINE i == To(c)
           ps == persister[<<i, call[c].server>>]
<1> USE DEF ClusterInv
<1>1. call[c] \in CallRecord /\ CallInv(c, call[c])
  BY DEF Types, Calls
<1>2. call[c].end \in End /\ call[c].server \in Life /\ call[c].server <= lives[i]
  BY <1>1 DEF Execute, CallInv, To
<1>3. i \in Server
  BY <1>2 DEF To, End
<1>4. ps \in 1..Len(heap[i]) /\ heap[i] \in Seq(SUBSET Call)
  BY <1>2, <1>3, InstancePersister DEF Types
<1>5. heap' = [heap EXCEPT ![i] = [heap[i] EXCEPT ![ps] = heap[i][ps] \cup {c}]]
  BY DEF Execute
<1>6. [heap[i] EXCEPT ![ps] = heap[i][ps] \cup {c}] \in Seq(SUBSET Call)
      /\ Len([heap[i] EXCEPT ![ps] = heap[i][ps] \cup {c}]) = Len(heap[i])
  BY <1>4
<1>7. heap' \in [Server -> Seq(SUBSET Call)] /\ \A k \in Server : Len(heap'[k]) = Len(heap[k])
  BY <1>3, <1>5, <1>6 DEF Types
<1>8. \A k \in Server : \A n \in 1..Len(heap[k]) : heap[k][n] \subseteq heap'[k][n]
  BY <1>3, <1>4, <1>5 DEF Types
<1>9. c \in heap'[i][ps]
  BY <1>3, <1>4, <1>5 DEF Types
<1> DEFINE r == [call[c] EXCEPT !.handler = "executed"]
<1>10. r \in CallRecord /\ r.handler = "executed" /\ r.st = call[c].st /\ r.end = call[c].end
       /\ r.server = call[c].server /\ r.ok = call[c].ok
  BY <1>1 DEF CallRecord
<1>11. call' = [call EXCEPT ![c] = r]
  BY DEF Execute
<1>12. UNCHANGED <<reliable, servers, lives, saved, persister, cfg>>
  BY DEF Execute
<1>13. Types'
  BY <1>7, <1>10, <1>11, <1>12 DEF Types
<1>14. Files' /\ Progress' /\ Registered'
  BY <1>7, <1>12 DEF Files, Progress, Registered
<1>15. ASSUME NEW d \in Call
       PROVE  CallInv(d, call[d])'
  <2>1. CASE d = c
    <3>1. call'[d] = r
      BY <1>11, <2>1 DEF Types
    <3>2. ~call[c].ok \/ (saved[i] # 0 /\ c \in heap[i][saved[i]])
      BY <1>1 DEF CallInv, To
    <3>3. saved[i] = Len(heap[i]) /\ saved[i] \in Nat
      BY <1>3 DEF Files, Types
    <3>4. call[c].ok => saved[i] # 0 /\ c \in heap'[i][saved[i]]
      BY <1>3, <1>8, <3>2, <3>3
    <3>5. call[c].st \notin {"none", "calling", "accepted", "delivering", "handled"}
          /\ (call[c].st \notin {"answered", "done"} => ~call[c].ok)
      BY <1>1 DEF Execute, CallInv
    <3>6. QED
      BY <1>2, <1>9, <1>10, <1>12, <2>1, <3>1, <3>4, <3>5 DEF CallInv, To
  <2>2. CASE d # c
    <3> DEFINE k == call[d].end[3]
    <3>1. call'[d] = call[d] /\ CallInv(d, call[d]) /\ call[d] \in CallRecord
      BY <1>11, <2>2 DEF Types, Calls
    <3>2. call[d].end \in End => k \in Server
      BY DEF End
    <3>3. call[d].handler \in {"executed", "returned"} => d \in heap'[k][persister[<<k, call[d].server>>]]
      <4> SUFFICES ASSUME call[d].handler \in {"executed", "returned"}
                   PROVE  d \in heap'[k][persister[<<k, call[d].server>>]]
        OBVIOUS
      <4>1. call[d].end \in End /\ call[d].server \in Life /\ call[d].server <= lives[k]
            /\ d \in heap[k][persister[<<k, call[d].server>>]]
        BY <3>1 DEF CallInv
      <4>2. persister[<<k, call[d].server>>] \in 1..Len(heap[k])
        BY <3>2, <4>1, InstancePersister
      <4>3. QED
        BY <1>8, <3>2, <4>1, <4>2
    <3>4. call[d].ok => saved[k] # 0 /\ d \in heap'[k][saved[k]]
      <4> SUFFICES ASSUME call[d].ok
                   PROVE  saved[k] # 0 /\ d \in heap'[k][saved[k]]
        OBVIOUS
      <4>1. call[d].end \in End /\ saved[k] # 0 /\ d \in heap[k][saved[k]]
        BY <3>1 DEF CallInv
      <4>2. saved[k] \in 1..Len(heap[k])
        BY <3>2, <4>1, SavedPersister
      <4>3. QED
        BY <1>8, <3>2, <4>1, <4>2
    <3>5. QED
      BY <1>12, <3>1, <3>3, <3>4 DEF CallInv
  <2>3. QED
    BY <2>1, <2>2
<1>16. QED
  BY <1>13, <1>14, <1>15 DEF Calls

-----------------------------------------------------------------------------
(* Steps of the test's goroutine *)

(* A fresh Persister with the contents of the saved one, for a server that *)
(* is not registered: it has no writer yet, and nothing is lost.           *)
LEMMA FreshPersister ==
    ASSUME ClusterInv, NEW i \in Server, NEW contents \in SUBSET Call, MakePersister(i, contents),
           saved[i] # 0 => contents = heap[i][saved[i]],
           servers[i] = 0, UNCHANGED <<servers, lives, persister, call>>
    PROVE  /\ heap' \in [Server -> Seq(SUBSET Call)] /\ saved' \in [Server -> Nat]
           /\ Files' /\ Registered' /\ Calls'
           /\ saved'[i] # 0
           /\ \A l \in Life : l <= lives[i] => persister[<<i, l>>] < saved'[i]
<1> USE DEF ClusterInv
<1>1. heap[i] \in Seq(SUBSET Call) /\ saved[i] = Len(heap[i]) /\ Len(heap[i]) \in Nat
  BY DEF Types, Files
<1>2. heap' = [heap EXCEPT ![i] = Append(heap[i], contents)]
      /\ saved' = [saved EXCEPT ![i] = Len(heap[i]) + 1]
  BY DEF MakePersister
<1>3. Append(heap[i], contents) \in Seq(SUBSET Call)
      /\ Len(Append(heap[i], contents)) = Len(heap[i]) + 1
      /\ Append(heap[i], contents)[Len(heap[i]) + 1] = contents
      /\ \A n \in 1..Len(heap[i]) : Append(heap[i], contents)[n] = heap[i][n]
  BY <1>1
<1>4. heap' \in [Server -> Seq(SUBSET Call)] /\ saved' \in [Server -> Nat]
  BY <1>1, <1>2, <1>3 DEF Types
<1>5. /\ saved'[i] = saved[i] + 1 /\ heap'[i] = Append(heap[i], contents)
      /\ \A k \in Server : k # i => heap'[k] = heap[k] /\ saved'[k] = saved[k]
  BY <1>1, <1>2 DEF Types
<1>6. saved'[i] # 0 /\ \A l \in Life : l <= lives[i] => persister[<<i, l>>] < saved'[i]
  BY <1>1, <1>5 DEF Files, Types
<1>7. \A k \in Server : saved'[k] = Len(heap'[k])
  BY <1>1, <1>3, <1>5 DEF Files
<1>8. \A k \in Server : saved[k] <= saved'[k] /\ saved[k] \in Nat /\ saved'[k] \in Nat
  <2>1. \A k \in Server : saved[k] \in Nat /\ saved'[k] \in Nat
    BY <1>4 DEF Types
  <2>2. \A k \in Server : saved'[k] = saved[k] \/ saved'[k] = saved[k] + 1
    BY <1>5
  <2>3. QED
    BY <2>1, <2>2
<1>9. Files'
  <2>1. ASSUME NEW k \in Server, NEW l \in Life, l <= lives[k]
        PROVE  /\ 1 <= persister[<<k, l>>] /\ persister[<<k, l>>] <= saved'[k]
               /\ persister[<<k, l>>] = saved'[k] => l = lives[k]
               /\ \A m \in Life : m < l => persister[<<k, m>>] < persister[<<k, l>>]
    <3>1. persister[<<k, l>>] \in Nat
      BY DEF Types
    <3>2. k = i => persister[<<k, l>>] < saved'[k]
      BY <1>6, <2>1
    <3>3. QED
      BY <1>5, <1>8, <2>1, <3>1, <3>2 DEF Files
  <2>2. QED
    BY <1>7, <2>1 DEF Files
<1>10. Registered'
  BY <1>5 DEF Registered
<1>11. \A k \in Server : \A n \in 1..Len(heap[k]) : heap'[k][n] = heap[k][n]
  BY <1>3, <1>5
<1>12. \A k \in Server : saved[k] # 0 => saved'[k] # 0 /\ heap'[k][saved'[k]] = heap[k][saved[k]]
  BY <1>1, <1>3, <1>5
<1>13. ASSUME NEW d \in Call
       PROVE  CallInv(d, call[d])'
  <2> DEFINE k == call[d].end[3]
  <2>1. CallInv(d, call[d]) /\ call[d] \in CallRecord
    BY DEF Types, Calls
  <2>2. call[d].end \in End => k \in Server
    BY DEF End
  <2>3. call[d].handler \in {"executed", "returned"} => d \in heap'[k][persister[<<k, call[d].server>>]]
    <3> SUFFICES ASSUME call[d].handler \in {"executed", "returned"}
                 PROVE  d \in heap'[k][persister[<<k, call[d].server>>]]
      OBVIOUS
    <3>1. call[d].end \in End /\ call[d].server \in Life /\ call[d].server <= lives[k]
          /\ d \in heap[k][persister[<<k, call[d].server>>]]
      BY <2>1 DEF CallInv
    <3>2. persister[<<k, call[d].server>>] \in 1..Len(heap[k])
      BY <2>2, <3>1, InstancePersister
    <3>3. QED
      BY <1>11, <2>2, <3>1, <3>2
  <2>4. call[d].ok => saved'[k] # 0 /\ d \in heap'[k][saved'[k]]
    <3> SUFFICES ASSUME call[d].ok
                 PROVE  saved'[k] # 0 /\ d \in heap'[k][saved'[k]]
      OBVIOUS
    <3>1. call[d].end \in End /\ saved[k] # 0 /\ d \in heap[k][saved[k]]
      BY <2>1 DEF CallInv
    <3>2. QED
      BY <1>12, <2>2, <3>1
  <2>5. QED
    BY <2>1, <2>3, <2>4 DEF CallInv
<1>14. QED
  BY <1>4, <1>6, <1>9, <1>10, <1>13 DEF Calls

(* The copy that crash1 and start1 make of a saved Persister is one. *)
LEMMA SavedContents ==
    ASSUME ClusterInv, NEW i \in Server, saved[i] # 0
    PROVE  heap[i][saved[i]] \in SUBSET Call
<1>1. heap[i] \in Seq(SUBSET Call) /\ saved[i] \in 1..Len(heap[i])
  BY DEF ClusterInv, Types, Files
<1>2. QED
  BY <1>1

(* Steps that only enable ends, or change the network's flags. *)
LEMMA SwitchInv ==
    ASSUME ClusterInv, reliable' \in BOOLEAN,
           UNCHANGED <<servers, call, cfg, lives, heap, saved, persister>>
    PROVE  ClusterInv'
<1>1. Types'
  BY DEF ClusterInv, Types
<1>2. Files' /\ Progress' /\ Registered' /\ Calls'
  BY DEF ClusterInv, Files, Progress, Registered, Calls, CallInv
<1>3. QED
  BY <1>1, <1>2 DEF ClusterInv

(* crash1 begins: the server is cut off. *)
LEMMA CrashInv ==
    ASSUME ClusterInv, NEW i \in Server, NEW restart \in BOOLEAN, crash1(i, restart)
    PROVE  ClusterInv'
<1> DEFINE new == [step |-> "delete", i |-> i, restart |-> restart]
<1>1. cfg' = new /\ UNCHANGED <<reliable, servers, call, lives, heap, saved, persister>>
      /\ (restart => lives[i] < MaxLives)
  BY DEF crash1
<1>2. new \in CfgRecord /\ new.step = "delete" /\ new.i = i /\ new.restart = restart
  BY DEF CfgRecord
<1>3. Types'
  BY <1>1, <1>2 DEF ClusterInv, Types
<1>4. Progress'
  BY <1>1, <1>2 DEF Progress
<1>5. Files' /\ Registered' /\ Calls'
  BY <1>1 DEF ClusterInv, Files, Registered, Calls, CallInv
<1>6. QED
  BY <1>3, <1>4, <1>5 DEF ClusterInv

(* Inside start1 or crash1 there is a server at hand, and moving on only   *)
(* changes the step.                                                       *)
LEMMA Underway ==
    ASSUME ClusterInv, cfg.step # "idle"
    PROVE  /\ cfg # Idle /\ cfg \in CfgRecord /\ cfg.i \in Server
           /\ \A step \in {"delete", "save", "ends", "make", "add"} :
                 LET new == [cfg EXCEPT !.step = step]
                 IN  new \in CfgRecord /\ new.step = step /\ new.i = cfg.i
                     /\ new.restart = cfg.restart
<1>1. cfg # Idle
  BY DEF Idle
<1>2. cfg \in CfgRecord
  BY <1>1 DEF ClusterInv, Types
<1>3. QED
  BY <1>1, <1>2 DEF CfgRecord

(* The server is deleted from the registry. *)
LEMMA CrashDeleteInv ==
    ASSUME ClusterInv, CrashDelete
    PROVE  ClusterInv'
<1> DEFINE i == cfg.i
<1> USE DEF ClusterInv
<1>1. cfg.step = "delete" /\ servers' = [servers EXCEPT ![i] = 0]
      /\ cfg' = [cfg EXCEPT !.step = "save"]
      /\ UNCHANGED <<reliable, call, lives, heap, saved, persister>>
  BY DEF CrashDelete, At, Go, DeleteServer
<1>2. cfg # Idle /\ i \in Server /\ cfg' \in CfgRecord /\ cfg'.step = "save" /\ cfg'.i = i
      /\ cfg'.restart = cfg.restart
  BY <1>1, Underway
<1>3. servers'[i] = 0 /\ \A k \in Server : servers'[k] # 0 => servers'[k] = servers[k]
  BY <1>1, <1>2 DEF Types
<1>4. Types'
  BY <1>1, <1>2 DEF Types
<1>5. Progress'
  BY <1>1, <1>2, <1>3 DEF Progress
<1>6. Registered'
  BY <1>1, <1>3 DEF Registered
<1>7. Files' /\ Calls'
  BY <1>1 DEF Files, Calls, CallInv
<1>8. QED
  BY <1>4, <1>5, <1>6, <1>7

(* The saved Persister is replaced by a copy, if there is one. *)
LEMMA CrashSaveInv ==
    ASSUME ClusterInv, CrashSave
    PROVE  ClusterInv'
<1> DEFINE i == cfg.i
<1> USE DEF ClusterInv
<1>1. cfg.step = "save" /\ UNCHANGED <<reliable, servers, call, lives, persister>>
  BY DEF CrashSave, At, netVars
<1>2. cfg # Idle /\ i \in Server /\ servers[i] = 0 /\ (cfg.restart => lives[i] < MaxLives)
  BY <1>1, Underway DEF Progress
<1>3. heap' \in [Server -> Seq(SUBSET Call)] /\ saved' \in [Server -> Nat]
      /\ Files' /\ Registered' /\ Calls'
  <2>1. CASE saved[i] = 0
    <3>1. heap' = heap /\ saved' = saved
      BY <2>1 DEF CrashSave
    <3>2. Files' /\ Registered' /\ Calls'
      BY <1>1, <3>1 DEF Files, Registered, Calls, CallInv
    <3>3. QED
      BY <3>1, <3>2 DEF Types
  <2>2. CASE saved[i] # 0
    <3>1. MakePersister(i, heap[i][saved[i]])
      BY <2>2 DEF CrashSave, Copy
    <3>2. QED
      BY <1>1, <1>2, <2>2, <3>1, SavedContents, FreshPersister
  <2>3. QED
    BY <2>1, <2>2
<1>4. cfg' \in {Idle} \cup CfgRecord /\ Progress'
  <2>1. CASE cfg.restart
    <3>1. cfg' \in CfgRecord /\ cfg'.step = "ends" /\ cfg'.i = i
      BY <1>1, <2>1, Underway DEF CrashSave, Go
    <3>2. QED
      BY <1>1, <1>2, <2>1, <3>1 DEF Progress
  <2>2. CASE ~cfg.restart
    BY <2>2 DEF CrashSave, Progress
  <2>3. QED
    BY <2>1, <2>2
<1>5. Types'
  BY <1>1, <1>3, <1>4 DEF Types
<1>6. QED
  BY <1>3, <1>4, <1>5

(* start1 makes the Persister that the new instance gets. *)
LEMMA StartEndsInv ==
    ASSUME ClusterInv, StartEnds
    PROVE  ClusterInv'
<1> DEFINE i == cfg.i
<1> USE DEF ClusterInv
<1>1. cfg.step = "ends" /\ cfg' = [cfg EXCEPT !.step = "make"]
      /\ UNCHANGED <<reliable, servers, call, lives, persister>>
  BY DEF StartEnds, At, Go, netVars
<1>2. cfg # Idle /\ i \in Server /\ servers[i] = 0 /\ lives[i] < MaxLives
      /\ cfg' \in CfgRecord /\ cfg'.step = "make" /\ cfg'.i = i
  BY <1>1, Underway DEF Progress
<1>3. PICK contents \in SUBSET Call :
          MakePersister(i, contents) /\ (saved[i] # 0 => contents = heap[i][saved[i]])
  <2>1. CASE saved[i] = 0
    BY <2>1 DEF StartEnds
  <2>2. CASE saved[i] # 0
    BY <1>2, <2>2, SavedContents DEF StartEnds, Copy
  <2>3. QED
    BY <2>1, <2>2
<1>4. /\ heap' \in [Server -> Seq(SUBSET Call)] /\ saved' \in [Server -> Nat]
      /\ Files' /\ Registered' /\ Calls'
      /\ saved'[i] # 0
      /\ \A l \in Life : l <= lives[i] => persister[<<i, l>>] < saved'[i]
  BY <1>1, <1>2, <1>3, FreshPersister
<1>5. Types'
  BY <1>1, <1>2, <1>4 DEF Types
<1>6. Progress'
  BY <1>1, <1>2, <1>4 DEF Progress
<1>7. QED
  BY <1>4, <1>5, <1>6

(* The new instance takes the saved Persister, which nobody else has. *)
LEMMA StartMakeInv ==
    ASSUME ClusterInv, StartMake
    PROVE  ClusterInv'
<1> DEFINE i == cfg.i
           new == lives[i] + 1
<1> USE DEF ClusterInv
<1>1. /\ cfg.step = "make" /\ cfg' = [cfg EXCEPT !.step = "add"]
      /\ lives' = [lives EXCEPT ![i] = new]
      /\ persister' = [persister EXCEPT ![<<i, new>>] = saved[i]]
      /\ UNCHANGED <<reliable, servers, call, heap, saved>>
  BY DEF StartMake, At, Go, netVars
<1>2. /\ cfg # Idle /\ i \in Server /\ servers[i] = 0 /\ lives[i] < MaxLives /\ saved[i] # 0
      /\ \A l \in Life : l <= lives[i] => persister[<<i, l>>] < saved[i]
      /\ cfg' \in CfgRecord /\ cfg'.step = "add" /\ cfg'.i = i
  BY <1>1, Underway DEF Progress
<1>3. lives[i] \in Nat /\ saved[i] \in Nat /\ new \in Life /\ new \in Nat
  BY <1>2, NetworkAssumption DEF Types, Life
<1>4. /\ lives'[i] = new /\ persister'[<<i, new>>] = saved[i]
      /\ \A k \in Server : k # i => lives'[k] = lives[k]
      /\ \A k \in Server, l \in Life : k # i \/ l # new => persister'[<<k, l>>] = persister[<<k, l>>]
  BY <1>1, <1>2, <1>3 DEF Types
<1>5. lives' \in [Server -> Nat] /\ persister' \in [Server \X Life -> Nat]
  BY <1>1, <1>2, <1>3 DEF Types
<1>6. Types'
  BY <1>1, <1>2, <1>5 DEF Types
<1>7. Progress'
  BY <1>1, <1>2, <1>3, <1>4 DEF Progress
<1>8. Registered'
  BY <1>1, <1>2, <1>4 DEF Registered
<1>9. Files'
  <2>1. ASSUME NEW k \in Server, NEW l \in Life, l <= lives'[k]
        PROVE  /\ 1 <= persister'[<<k, l>>] /\ persister'[<<k, l>>] <= saved[k]
               /\ persister'[<<k, l>>] = saved[k] => l = lives'[k]
               /\ \A m \in Life : m < l => persister'[<<k, m>>] < persister'[<<k, l>>]
    <3>1. l \in Int /\ \A m \in Life : m \in Int
      BY NetworkAssumption DEF Life
    <3>2. CASE k # i
      <4>1. lives'[k] = lives[k] /\ \A m \in Life : persister'[<<k, m>>] = persister[<<k, m>>]
        BY <1>4, <3>2
      <4>2. l <= lives[k]
        BY <2>1, <4>1
      <4>3. /\ 1 <= persister[<<k, l>>] /\ persister[<<k, l>>] <= saved[k]
            /\ persister[<<k, l>>] = saved[k] => l = lives[k]
            /\ \A m \in Life : m < l => persister[<<k, m>>] < persister[<<k, l>>]
        BY <4>2 DEF Files
      <4>4. QED
        BY <4>1, <4>3
    <3>3. CASE k = i /\ l = new
      <4>1. \A m \in Life : m < l => m <= lives[i] /\ m # new
        BY <1>3, <3>1, <3>3
      <4>2. \A m \in Life : m < l => persister'[<<i, m>>] < saved[i]
        BY <1>2, <1>4, <4>1
      <4>3. persister'[<<k, l>>] = saved[k] /\ l = lives'[k] /\ 1 <= saved[k] /\ saved[k] <= saved[k]
        BY <1>2, <1>3, <1>4, <3>3
      <4>4. QED
        BY <3>3, <4>2, <4>3
    <3>4. CASE k = i /\ l # new
      <4>1. l <= lives[i] /\ persister'[<<i, l>>] = persister[<<i, l>>]
        BY <1>3, <1>4, <2>1, <3>1, <3>4
      <4>2. \A m \in Life : m < l => persister'[<<i, m>>] = persister[<<i, m>>]
        BY <1>2, <1>3, <1>4, <3>1, <4>1
      <4>3. persister[<<i, l>>] < saved[i] /\ persister[<<i, l>>] \in Nat
        BY <1>2, <4>1 DEF Types
      <4>4. QED
        BY <1>2, <1>3, <3>4, <4>1, <4>2, <4>3 DEF Files
    <3>5. QED
      BY <3>2, <3>3, <3>4
  <2>2. QED
    BY <1>1, <2>1 DEF Files
<1>10. ASSUME NEW d \in Call
       PROVE  CallInv(d, call[d])'
  <2> DEFINE k == call[d].end[3]
  <2>1. CallInv(d, call[d]) /\ call[d] \in CallRecord
    BY DEF Types, Calls
  <2>2. call[d].end \in End /\ call[d].server \in Life /\ call[d].server <= lives[k] =>
           /\ call[d].server <= lives'[k]
           /\ persister'[<<k, call[d].server>>] = persister[<<k, call[d].server>>]
    <3> SUFFICES ASSUME call[d].end \in End, call[d].server \in Life, call[d].server <= lives[k]
                 PROVE  /\ call[d].server <= lives'[k]
                        /\ persister'[<<k, call[d].server>>] = persister[<<k, call[d].server>>]
      OBVIOUS
    <3>1. k \in Server /\ call[d].server \in Nat
      BY <2>1 DEF End, CallRecord
    <3>2. QED
      BY <1>3, <1>4, <3>1
  <2>3. QED
    BY <1>1, <2>1, <2>2 DEF CallInv
<1>11. QED
  BY <1>6, <1>7, <1>8, <1>9, <1>10 DEF Calls

(* The new instance is registered. *)
LEMMA StartAddInv ==
    ASSUME ClusterInv, StartAdd
    PROVE  ClusterInv'
<1> DEFINE i == cfg.i
<1> USE DEF ClusterInv
<1>1. cfg.step = "add" /\ cfg' = Idle /\ servers' = [servers EXCEPT ![i] = lives[i]]
      /\ UNCHANGED <<reliable, call, lives, heap, saved, persister>>
  BY DEF StartAdd, At, AddServer
<1>2. i \in Server /\ lives[i] \in Life /\ persister[<<i, lives[i]>>] = saved[i]
  BY <1>1, Underway DEF Progress
<1>3. servers'[i] = lives[i] /\ \A k \in Server : k # i => servers'[k] = servers[k]
  BY <1>1, <1>2 DEF Types
<1>4. Types'
  BY <1>1, <1>2 DEF Types
<1>5. Progress'
  BY <1>1 DEF Progress
<1>6. Registered'
  BY <1>1, <1>2, <1>3 DEF Registered
<1>7. Files' /\ Calls'
  BY <1>1 DEF Files, Calls, CallInv
<1>8. QED
  BY <1>4, <1>5, <1>6, <1>7

-----------------------------------------------------------------------------
(* The theorems *)

(* Every step of the cluster keeps the invariant. *)
LEMMA ClusterNext == ClusterInv /\ [Next]_vars => ClusterInv'
<1> SUFFICES ASSUME ClusterInv, [Next]_vars
             PROVE  ClusterInv'
  OBVIOUS
<1>1. reliable \in BOOLEAN
  BY DEF ClusterInv, Types
<1>2. CASE \E c \in Call, i, j \in Server, l \in Life, hangs \in BOOLEAN : InstanceCalls(c, i, l, j, hangs)
  BY <1>2, InstanceCallsInv
<1>3. CASE \E c \in Call : CallNext(c)
  BY <1>3, ExecuteInv, CallStepInv DEF CallNext
<1>4. CASE \E i \in Server : connect(i) \/ disconnect(i)
  BY <1>1, <1>4, SwitchInv DEF connect, disconnect
<1>5. CASE \E i \in Server, restart \in BOOLEAN : crash1(i, restart)
  BY <1>5, CrashInv
<1>6. CASE CfgNext
  BY <1>6, CrashDeleteInv, CrashSaveInv, StartEndsInv, StartMakeInv, StartAddInv DEF CfgNext
<1>7. CASE \E yes \in BOOLEAN : Reliable(yes) /\ UNCHANGED cfgVars
  BY <1>7, SwitchInv DEF Reliable, cfgVars
<1>8. CASE cleanup \/ (LoopExits /\ UNCHANGED cfgVars)
  BY <1>1, <1>8, SwitchInv DEF cleanup, Cleanup, LoopExits, cfgVars
<1>9. CASE UNCHANGED vars
  BY <1>1, <1>9, SwitchInv DEF vars, netVars, cfgVars
<1>10. QED
  BY <1>2, <1>3, <1>4, <1>5, <1>6, <1>7, <1>8, <1>9 DEF Next

(* In every behaviour no two instances of a server share a Persister, and  *)
(* a crashed one never has the Persister of the next (crash1, start1).     *)
THEOREM OneWriterCorrect == Spec => []OneWriter
<1>1. ClusterInv => OneWriter
  <2> SUFFICES ASSUME ClusterInv
               PROVE  OneWriter
    OBVIOUS
  <2>1. \A i \in Server, k, l \in Life :
            k <= lives[i] /\ l <= lives[i] /\ persister[<<i, k>>] = persister[<<i, l>>] => k = l
    <3> SUFFICES ASSUME NEW i \in Server, NEW k \in Life, NEW l \in Life,
                        k <= lives[i], l <= lives[i], persister[<<i, k>>] = persister[<<i, l>>]
                 PROVE  k = l
      OBVIOUS
    <3>1. k \in Nat /\ l \in Nat /\ persister[<<i, k>>] \in Nat /\ persister[<<i, l>>] \in Nat
      BY NetworkAssumption DEF ClusterInv, Types, Life
    <3>2. ~(k < l) /\ ~(l < k)
      BY <3>1 DEF ClusterInv, Files
    <3>3. QED
      BY <3>1, <3>2
  <2>2. \A x \in Instance : x[1] \in Server /\ x[2] \in Life /\ x[2] <= lives[x[1]] /\ x = <<x[1], x[2]>>
    BY DEF Instance
  <2>3. \A x, y \in Instance : x[1] = y[1] /\ persister[x] = persister[y] => x = y
    BY <2>1, <2>2
  <2>4. \A x \in Instance : saved[x[1]] = persister[x] => x[2] = lives[x[1]]
    BY <2>2 DEF ClusterInv, Files
  <2>5. QED
    BY <2>3, <2>4 DEF OneWriter
<1>2. QED
  BY <1>1, ClusterInit, ClusterNext, PTL DEF Spec

(* In every behaviour, what a Call that returned true made its handler     *)
(* write is in the Persister the server will be restarted from, however    *)
(* crashes, restarts and calls interleave (processReq, crash1, start1).    *)
THEOREM AckedKeptCorrect == Spec => []AckedKept
<1>1. ClusterInv => AckedKept
  BY DEF ClusterInv, Calls, CallInv, AckedKept, To
<1>2. QED
  BY <1>1, ClusterInit, ClusterNext, PTL DEF Spec

-----------------------------------------------------------------------------
(* Ends *)

EndTypes ==
    /\ running \in [Server -> BOOLEAN] /\ connected \in [Server -> BOOLEAN]
    /\ endnames \in [Server -> Nat]

(* An end that is enabled is one of those cfg knows, between two servers   *)
(* that are connected.                                                     *)
EnabledInv ==
    \A e \in enabled :
        /\ e \in Server \X (Nat \ {0}) \X Server
        /\ connected[e[1]] /\ connected[e[3]] /\ e[2] = endnames[e[1]]

(* A server that is connected is running, and a running one has the ends   *)
(* of its last instance; the server that start1 or crash1 is at is cut off *)
(* and, while there are ends without an instance, not running.             *)
RunningInv ==
    /\ \A i \in Server : (connected[i] => running[i]) /\ (running[i] => endnames[i] = lives[i])
    /\ cfg # Idle =>
          /\ ~connected[cfg.i]
          /\ cfg.step \in {"ends", "make"} => ~running[cfg.i]
          /\ cfg.step = "make" => endnames[cfg.i] = lives[cfg.i] + 1

EndsInv == EndTypes /\ EnabledInv /\ RunningInv

(* One of a and b is i, the other is in J. *)
Between(a, b, i, J) == (a = i /\ b \in J) \/ (a \in J /\ b = i)

(* What Ends selects. *)
LEMMA EndsMember ==
    ASSUME NEW i \in Server, NEW J \in SUBSET Server
    PROVE  /\ \A e \in Ends(i, J) :
                 \E a, b \in Server : e = <<a, endnames[a], b>> /\ endnames[a] # 0 /\ Between(a, b, i, J)
           /\ \A a, b \in Server :
                 endnames[a] # 0 /\ Between(a, b, i, J) =>
                     <<a, endnames[a], b>> \in Ends(i, J)
<1>1. ASSUME NEW e \in Ends(i, J)
      PROVE  \E a, b \in Server : e = <<a, endnames[a], b>> /\ endnames[a] # 0 /\ Between(a, b, i, J)
  <2>1. PICK p \in ({i} \X J) \cup (J \X {i}) :
            endnames[p[1]] # 0 /\ e = <<p[1], endnames[p[1]], p[2]>>
    BY DEF Ends
  <2>2. p[1] \in Server /\ p[2] \in Server /\ Between(p[1], p[2], i, J)
    BY DEF Between
  <2>3. QED
    BY <2>1, <2>2
<1>2. ASSUME NEW a \in Server, NEW b \in Server, endnames[a] # 0, Between(a, b, i, J)
      PROVE  <<a, endnames[a], b>> \in Ends(i, J)
  <2> DEFINE p == <<a, b>>
  <2>1. p \in ({i} \X J) \cup (J \X {i}) /\ p[1] = a /\ p[2] = b
    BY <1>2 DEF Between
  <2>2. QED
    BY <1>2, <2>1 DEF Ends
<1>3. QED
  BY <1>1, <1>2

(* Cutting a server off leaves no enabled end from it or to it. *)
LEMMA CutOffInv ==
    ASSUME EndsInv, NEW i \in Server, CutOff(i), endnames' = endnames
    PROVE  /\ connected' \in [Server -> BOOLEAN] /\ ~connected'[i]
           /\ \A j \in Server : connected'[j] => connected[j]
           /\ EnabledInv'
<1>1. connected' = [connected EXCEPT ![i] = FALSE] /\ enabled' = enabled \ Ends(i, Server)
  BY DEF CutOff, Enable
<1>2. /\ connected' \in [Server -> BOOLEAN] /\ ~connected'[i]
      /\ \A j \in Server : (connected'[j] => connected[j]) /\ (j # i => connected'[j] = connected[j])
  BY <1>1, Zenon DEF EndsInv, EndTypes
<1>3. ASSUME NEW e \in enabled'
      PROVE  /\ e \in Server \X (Nat \ {0}) \X Server
             /\ connected'[e[1]] /\ connected'[e[3]] /\ e[2] = endnames[e[1]]
  <2>1. /\ e \in Server \X (Nat \ {0}) \X Server /\ e \notin Ends(i, Server)
        /\ connected[e[1]] /\ connected[e[3]] /\ e[2] = endnames[e[1]]
    BY <1>1 DEF EndsInv, EnabledInv
  <2>2. e[1] \in Server /\ e[3] \in Server /\ e = <<e[1], endnames[e[1]], e[3]>> /\ endnames[e[1]] # 0
    BY <2>1
  <2>3. e[1] # i /\ e[3] # i
    BY <2>1, <2>2, EndsMember DEF Between
  <2>4. QED
    BY <1>2, <2>1, <2>2, <2>3
<1>4. QED
  BY <1>2, <1>3 DEF EnabledInv

(* Connecting a running server enables ends of last instances only. *)
LEMMA ConnectInv ==
    ASSUME EndsInv, NEW i \in Server, connect(i)
    PROVE  EndsInv'
<1>1. /\ connected' = [connected EXCEPT ![i] = TRUE] /\ enabled' = enabled \cup Ends(i, Reachable(i))
      /\ cfg = Idle /\ running[i] /\ UNCHANGED <<cfg, lives, running, endnames>>
  BY DEF connect, Enable
<1>2. /\ connected' \in [Server -> BOOLEAN] /\ connected'[i]
      /\ \A j \in Server : (connected[j] => connected'[j]) /\ (j # i => connected'[j] = connected[j])
  BY <1>1, Zenon DEF EndsInv, EndTypes
<1>3. Reachable(i) \in SUBSET Server /\ \A j \in Reachable(i) : connected'[j]
  <2>1. \A j \in Reachable(i) : j \in Server /\ (connected[j] \/ j = i)
    BY Zenon DEF Reachable
  <2>2. QED
    BY <1>2, <2>1, Zenon
<1>4. ASSUME NEW e \in enabled
      PROVE  /\ e \in Server \X (Nat \ {0}) \X Server
             /\ connected'[e[1]] /\ connected'[e[3]] /\ e[2] = endnames[e[1]]
  <2>1. /\ e \in Server \X (Nat \ {0}) \X Server
        /\ connected[e[1]] /\ connected[e[3]] /\ e[2] = endnames[e[1]]
    BY DEF EndsInv, EnabledInv
  <2>2. e[1] \in Server /\ e[3] \in Server
    BY <2>1
  <2>3. QED
    BY <1>2, <2>1, <2>2, Zenon
<1>5. ASSUME NEW e \in Ends(i, Reachable(i))
      PROVE  /\ e \in Server \X (Nat \ {0}) \X Server
             /\ connected'[e[1]] /\ connected'[e[3]] /\ e[2] = endnames[e[1]]
  <2>1. PICK a, b \in Server : e = <<a, endnames[a], b>> /\ endnames[a] # 0 /\ Between(a, b, i, Reachable(i))
    BY <1>3, EndsMember
  <2>2. endnames[a] \in Nat \ {0} /\ connected'[a] /\ connected'[b]
    BY <1>2, <1>3, <2>1 DEF EndsInv, EndTypes, Between
  <2>3. QED
    BY <2>1, <2>2
<1>6. EnabledInv'
  BY <1>1, <1>4, <1>5 DEF EnabledInv
<1>7. EndTypes' /\ RunningInv'
  BY <1>1, <1>2 DEF EndsInv, EndTypes, RunningInv
<1>8. QED
  BY <1>6, <1>7 DEF EndsInv

(* Ends that are neither made nor switched stay as they are. *)
LEMMA SameEnds ==
    ASSUME EndsInv, UNCHANGED <<enabled, connected, running, endnames, lives>>,
           cfg' = Idle \/ cfg' = cfg
    PROVE  EndsInv'
BY DEF EndsInv, EndTypes, EnabledInv, RunningInv

(* crash1 cuts the server off before anything else. *)
LEMMA CrashEnds ==
    ASSUME ClusterInv, EndsInv, NEW i \in Server, NEW restart \in BOOLEAN, crash1(i, restart)
    PROVE  EndsInv'
<1> DEFINE new == [step |-> "delete", i |-> i, restart |-> restart]
<1>1. CutOff(i) /\ cfg' = new /\ UNCHANGED <<lives, running, endnames>>
  BY DEF crash1
<1>2. /\ connected' \in [Server -> BOOLEAN] /\ ~connected'[i] /\ EnabledInv'
      /\ \A j \in Server : connected'[j] => connected[j]
  BY <1>1, CutOffInv
<1>3. new.i = i /\ new.step = "delete"
  OBVIOUS
<1>4. EndTypes'
  BY <1>1, <1>2 DEF EndsInv, EndTypes
<1>5. RunningInv'
  <2>1. \A j \in Server : (connected'[j] => running'[j]) /\ (running'[j] => endnames'[j] = lives'[j])
    BY <1>1, <1>2, Zenon DEF EndsInv, RunningInv
  <2>2. cfg'.i = i /\ cfg'.step = "delete"
    BY <1>1, <1>3
  <2>3. QED
    BY <1>2, <2>1, <2>2 DEF RunningInv
<1>6. QED
  BY <1>2, <1>4, <1>5 DEF EndsInv

(* The rest of crash1 and start1. *)
LEMMA CfgEnds ==
    ASSUME ClusterInv, EndsInv, CfgNext
    PROVE  EndsInv'
<1> DEFINE i == cfg.i
<1>1. cfg.step # "idle"
  BY DEF CfgNext, CrashDelete, CrashSave, StartEnds, StartMake, StartAdd, At
<1>2. /\ cfg # Idle /\ i \in Server /\ ~connected[i]
      /\ \A step \in {"save", "ends", "make", "add"} :
            LET new == [cfg EXCEPT !.step = step] IN new.step = step /\ new.i = i
  BY <1>1, Underway DEF EndsInv, RunningInv
<1>3. CASE CrashDelete
  <2>1. cfg' = [cfg EXCEPT !.step = "save"] /\ UNCHANGED <<enabled, connected, running, endnames, lives>>
    BY <1>3 DEF CrashDelete, Go
  <2>2. cfg'.step = "save" /\ cfg'.i = i
    BY <1>2, <2>1
  <2>3. QED
    BY <1>2, <2>1, <2>2 DEF EndsInv, EndTypes, EnabledInv, RunningInv
<1>4. CASE CrashSave
  <2>1. /\ running' = [running EXCEPT ![i] = FALSE] /\ UNCHANGED <<enabled, connected, endnames, lives>>
        /\ cfg' = Idle \/ cfg' = [cfg EXCEPT !.step = "ends"]
    BY <1>4 DEF CrashSave, Go, netVars
  <2>2. /\ running' \in [Server -> BOOLEAN] /\ ~running'[i]
        /\ \A j \in Server : j # i => running'[j] = running[j]
    BY <1>2, <2>1, Zenon DEF EndsInv, EndTypes
  <2>3. cfg' # Idle => cfg'.step = "ends" /\ cfg'.i = i
    BY <1>2, <2>1
  <2>4. \A j \in Server : (connected[j] => running'[j]) /\ (running'[j] => endnames[j] = lives[j])
    BY <1>2, <2>2, Zenon DEF EndsInv, RunningInv
  <2>5. RunningInv'
    BY <1>2, <2>1, <2>2, <2>3, <2>4 DEF RunningInv
  <2>6. QED
    BY <2>1, <2>2, <2>5 DEF EndsInv, EndTypes, EnabledInv
<1>5. CASE StartEnds
  <2>1. /\ endnames' = [endnames EXCEPT ![i] = lives[i] + 1] /\ cfg' = [cfg EXCEPT !.step = "make"]
        /\ cfg.step = "ends" /\ UNCHANGED <<enabled, connected, running, lives>>
    BY <1>5 DEF StartEnds, At, Go, netVars
  <2>2. /\ endnames' \in [Server -> Nat] /\ endnames'[i] = lives[i] + 1
        /\ \A j \in Server : j # i => endnames'[j] = endnames[j]
    BY <1>2, <2>1 DEF ClusterInv, Types, EndsInv, EndTypes
  <2>3. ~running[i] /\ cfg'.step = "make" /\ cfg'.i = i
    BY <1>2, <2>1 DEF EndsInv, RunningInv
  <2>4. ASSUME NEW e \in enabled
        PROVE  /\ e \in Server \X (Nat \ {0}) \X Server
               /\ connected[e[1]] /\ connected[e[3]] /\ e[2] = endnames'[e[1]]
    <3>1. /\ e \in Server \X (Nat \ {0}) \X Server
          /\ connected[e[1]] /\ connected[e[3]] /\ e[2] = endnames[e[1]]
      BY DEF EndsInv, EnabledInv
    <3>2. e[1] \in Server /\ e[1] # i
      BY <1>2, <3>1
    <3>3. QED
      BY <2>2, <3>1, <3>2
  <2>5. RunningInv'
    BY <1>2, <2>1, <2>2, <2>3 DEF EndsInv, RunningInv
  <2>6. QED
    BY <2>1, <2>2, <2>4, <2>5 DEF EndsInv, EndTypes, EnabledInv
<1>6. CASE StartMake
  <2>1. /\ lives' = [lives EXCEPT ![i] = lives[i] + 1] /\ running' = [running EXCEPT ![i] = TRUE]
        /\ cfg' = [cfg EXCEPT !.step = "add"] /\ cfg.step = "make"
        /\ UNCHANGED <<enabled, connected, endnames>>
    BY <1>6 DEF StartMake, At, Go, netVars
  <2>2. lives'[i] = lives[i] + 1 /\ \A j \in Server : j # i => lives'[j] = lives[j]
    BY <1>2, <2>1 DEF ClusterInv, Types
  <2>3. /\ running' \in [Server -> BOOLEAN]
        /\ \A j \in Server : j # i => running'[j] = running[j]
    BY <1>2, <2>1, Zenon DEF EndsInv, EndTypes
  <2>4. endnames[i] = lives[i] + 1 /\ cfg'.step = "add" /\ cfg'.i = i
    BY <1>2, <2>1 DEF EndsInv, RunningInv
  <2>5. \A j \in Server : connected[j] => running'[j]
    BY <1>2, <2>3, Zenon DEF EndsInv, RunningInv
  <2>6. \A j \in Server : running'[j] => endnames[j] = lives'[j]
    BY <2>2, <2>3, <2>4 DEF EndsInv, RunningInv
  <2>7. RunningInv'
    BY <1>2, <2>1, <2>4, <2>5, <2>6 DEF RunningInv
  <2>8. QED
    BY <2>1, <2>3, <2>7 DEF EndsInv, EndTypes, EnabledInv
<1>7. CASE StartAdd
  BY <1>7, SameEnds DEF StartAdd
<1>8. QED
  BY <1>3, <1>4, <1>5, <1>6, <1>7 DEF CfgNext

(* Every step keeps the invariant of the ends. *)
LEMMA EndsNext == ClusterInv /\ EndsInv /\ [Next]_vars => EndsInv'
<1> SUFFICES ASSUME ClusterInv, EndsInv, [Next]_vars
             PROVE  EndsInv'
  OBVIOUS
<1>1. CASE \E c \in Call, i, j \in Server, l \in Life, hangs \in BOOLEAN : InstanceCalls(c, i, l, j, hangs)
  BY <1>1, SameEnds DEF InstanceCalls, StartCall, cfgVars
<1>2. CASE \E c \in Call : CallNext(c)
  BY <1>2, SameEnds DEF CallNext, Execute, cfgVars, CallStep, Accept, NetworkDestroyed, Return, readEndnameInfo,
                        DropRequest, Dispatch, HandlerReturns, HandlerDone, PollServer, Reply
<1>3. ASSUME NEW i \in Server, disconnect(i)
      PROVE  EndsInv'
  <2>1. CutOff(i) /\ cfg = Idle /\ UNCHANGED <<cfg, lives, running, endnames>>
    BY <1>3 DEF disconnect
  <2>2. /\ connected' \in [Server -> BOOLEAN] /\ EnabledInv'
        /\ \A j \in Server : connected'[j] => connected[j]
    BY <2>1, CutOffInv
  <2>3. QED
    BY <2>1, <2>2 DEF EndsInv, EndTypes, RunningInv
<1>4. CASE \E i \in Server : connect(i) \/ disconnect(i)
  BY <1>3, <1>4, ConnectInv
<1>5. CASE \E i \in Server, restart \in BOOLEAN : crash1(i, restart)
  BY <1>5, CrashEnds
<1>6. CASE CfgNext
  BY <1>6, CfgEnds
<1>7. CASE \E yes \in BOOLEAN : Reliable(yes) /\ UNCHANGED cfgVars
  BY <1>7, SameEnds DEF Reliable, cfgVars
<1>8. CASE cleanup \/ (LoopExits /\ UNCHANGED cfgVars)
  BY <1>8, SameEnds DEF cleanup, Cleanup, LoopExits, cfgVars
<1>9. CASE UNCHANGED vars
  BY <1>9, SameEnds DEF vars, netVars, cfgVars
<1>10. QED
  BY <1>1, <1>2, <1>4, <1>5, <1>6, <1>7, <1>8, <1>9 DEF Next

(* In every behaviour, once crash1 has begun, no request of the crashed    *)
(* instance gets past readEndnameInfo, whatever calls it still makes and   *)
(* whoever is connected and restarted afterwards (crash1, start1, connect, *)
(* disconnect).                                                            *)
THEOREM CrashedSilentCorrect == Spec => CrashedSilent
<1>1. Init => EndsInv
  BY DEF Init, MakeNetwork, EndsInv, EndTypes, EnabledInv, RunningInv
<1>2. ASSUME ClusterInv, EndsInv, [Next]_vars, NEW c \in Call,
             call[c].st = "accepted", call'[c].st = "delivering"
      PROVE  LET i == call[c].end[1] IN running[i] /\ call[c].end[2] = lives[i]
  <2> DEFINE e == call[c].end
  <2>1. e \in enabled
    <3>1. ASSUME NEW d \in Call, CallNext(d)
          PROVE  e \in enabled
      <4>1. d = c
        <5>1. DOMAIN call = Call
          BY <1>2 DEF ClusterInv, Types
        <5>2. d # c => call'[c] = call[c]
          BY <3>1, <5>1 DEF CallNext, Execute, CallStep, Accept, NetworkDestroyed, Return, readEndnameInfo,
                            DropRequest, Dispatch, HandlerReturns, HandlerDone, PollServer, Reply, Move, Answer
        <5>3. QED
          BY <1>2, <5>2
      <4>2. readEndnameInfo(c)
        <5>1. call \in [Call -> CallRecord]
          BY <1>2 DEF ClusterInv, Types
        <5>2. ~Accept(c) /\ ~NetworkDestroyed(c) /\ ~Return(c) /\ ~DropRequest(c) /\ ~Dispatch(c)
          BY <1>2 DEF Accept, NetworkDestroyed, Return, DropRequest, Dispatch
        <5>3. ~HandlerDone(c) /\ ~PollServer(c) /\ ~Reply(c)
          BY <1>2 DEF HandlerDone, PollServer, Reply
        <5>4. ~HandlerReturns(c) /\ ~Execute(c)
          BY <1>2, <5>1 DEF HandlerReturns, Execute, CallRecord
        <5>5. QED
          BY <3>1, <4>1, <5>2, <5>3, <5>4 DEF CallNext, CallStep
      <4>3. Answer(c, FALSE) => call'[c].st = "answered"
        BY <1>2 DEF Answer, ClusterInv, Types, CallRecord
      <4>4. QED
        BY <1>2, <4>2, <4>3 DEF readEndnameInfo
    <3>2. ASSUME NEW d \in Call, NEW i \in Server, NEW j \in Server, NEW l \in Life, NEW hangs \in BOOLEAN,
                 InstanceCalls(d, i, l, j, hangs)
          PROVE  FALSE
      <4>1. d # c
        BY <1>2, <3>2 DEF InstanceCalls, StartCall, NoCall
      <4>2. call'[c] = call[c]
        BY <3>2, <4>1 DEF InstanceCalls, StartCall
      <4>3. QED
        BY <1>2, <4>2
    <3>3. call' # call
      BY <1>2
    <3>4. (\E d \in Call : CallNext(d)) \/ (\E d \in Call, i, j \in Server, l \in Life, hangs \in BOOLEAN :
                                                 InstanceCalls(d, i, l, j, hangs))
      BY <1>2, <3>3 DEF Next, connect, disconnect, crash1, CfgNext, CrashDelete, CrashSave, StartEnds, StartMake,
                        StartAdd, netVars, Reliable, cleanup, Cleanup, LoopExits, vars
    <3>5. QED
      BY <3>1, <3>2, <3>4
  <2>2. e[1] \in Server /\ connected[e[1]] /\ e[2] = endnames[e[1]]
    BY <1>2, <2>1 DEF EndsInv, EnabledInv
  <2>3. QED
    BY <1>2, <2>2 DEF EndsInv, RunningInv
<1>3. ClusterInv /\ EndsInv /\ [Next]_vars =>
        [\A c \in Call : call[c].st = "accepted" /\ call'[c].st = "delivering" =>
              LET i == call[c].end[1] IN running[i] /\ call[c].end[2] = lives[i]]_vars
  BY <1>2
<1>4. QED
  BY <1>1, <1>3, ClusterInit, ClusterNext, EndsNext, PTL DEF Spec, CrashedSilent

=============================================================================
