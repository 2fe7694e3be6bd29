---------------------------- MODULE RaftThreads ----------------------------
(***************************************************************************)
(* The goroutines of one Raft peer (src/src/raft/raft.go): the oscillators *)
(* (election timers), the elections, the Append2 loops of a leader and the *)
(* callers of Start, with the mutex rf.mu, the condition variable of an    *)
(* election and the wake-up channels rf.apps.  Raft.tla takes each handler *)
(* as one step and has no threads; this module has the threads and leaves  *)
(* out the log, so it can say who runs, who waits and who is never woken.  *)
(*                                                                         *)
(* A section of code between rf.mu.Lock and rf.mu.Unlock is one step,      *)
(* possible while the mutex is free.  Three sections return without        *)
(* unlocking when the peer was killed, and the mutex then stays locked.    *)
(* The peer is server 0.                                                   *)
(***************************************************************************)
EXTENDS Integers, FiniteSets

CONSTANTS
    Servers,    \* len(rf.peers)
    MaxTerm,    \* bound on the terms the peer sees
    Client,     \* callers of Start in the service, one call each
    Noop        \* rf.Noop: a new leader starts a no-op

ASSUME ThreadsAssumption ==
    /\ Servers \in Nat /\ Servers >= 2
    /\ MaxTerm \in Nat
    /\ Noop \in BOOLEAN

Peer == 1..(Servers - 1)

Term == 1..MaxTerm

(* The no-op of term t is started by the election of term t itself. *)
Caller == Client \cup Term

VARIABLES
    dead,       \* rf.dead
    abandoned,  \* rf.mu was left locked by a goroutine that returned
    term,       \* rf.currentTerm
    tp,         \* rf.tp: 0 follower, 1 candidate, 2 leader
    voteCount,  \* rf.voteCount
    timers,     \* number of goroutines in oscillator
    starting,   \* number of goroutines about to enter startElection
    election,   \* per term, the goroutine of that term's startElection
    loops,      \* per peer, number of Append2 goroutines at the lock / in select
    apps,       \* len(rf.apps[j]), a channel of capacity 1
    lagging,    \* the peers with rf.nextIndex[j] <= 0, to be sent the snapshot
    start       \* per caller, how far its Start is

threadVars == <<dead, abandoned, term, tp, voteCount, timers, starting, election,
          loops, apps, lagging, start>>

peerVars == <<term, tp, voteCount>>

(* Make: one oscillator, and empty channels. *)
ThreadsInit ==
    /\ dead = FALSE /\ abandoned = FALSE
    /\ term = 0 /\ tp = 0 /\ voteCount = 0
    /\ timers = 1 /\ starting = 0
    /\ election = [t \in Term |-> [pc |-> "none", asked |-> {}]]
    /\ loops = [j \in Peer |-> [lock |-> 0, select |-> 0]]
    /\ apps = [j \in Peer |-> 0]
    /\ lagging = {}
    /\ start = [c \in Caller |-> [pc |-> "idle", at |-> 1]]

Kill ==
    /\ ~dead /\ dead' = TRUE
    /\ UNCHANGED <<abandoned, peerVars, timers, starting, election, loops, apps,
                   lagging, start>>

-----------------------------------------------------------------------------
(* The election timer *)

(* Mutant: the timer stops for candidates as well. *)
Stops_Candidate(role) == role # 0

Stops(role) == role = 2

(***************************************************************************)
(* One turn of oscillator: it returns when the peer was killed or leads,   *)
(* and otherwise may find that the timeout has passed and start an         *)
(* election.  The clock timePassed is left out: it may pass at any turn.   *)
(***************************************************************************)
oscillator ==
    /\ timers > 0
    /\ \/ dead /\ timers' = timers - 1 /\ UNCHANGED starting
       \/ /\ ~dead /\ ~abandoned /\ Stops(tp)
          /\ timers' = timers - 1 /\ UNCHANGED starting
       \/ /\ ~dead /\ ~abandoned /\ ~Stops(tp)
          /\ term + starting < MaxTerm
          /\ starting' = starting + 1 /\ UNCHANGED timers
    /\ UNCHANGED <<dead, abandoned, peerVars, election, loops, apps, lagging, start>>

-----------------------------------------------------------------------------
(* Elections *)

(***************************************************************************)
(* startElection up to its loop, in whatever role the peer is by now.      *)
(***************************************************************************)
startElection ==
    /\ starting > 0 /\ ~abandoned /\ term < MaxTerm
    /\ starting' = starting - 1
    /\ term' = term + 1 /\ tp' = 1 /\ voteCount' = 1
    /\ election' = [election EXCEPT ![term + 1] =
                       IF dead THEN [pc |-> "over", asked |-> {}]
                               ELSE [pc |-> "test", asked |-> Peer]]
    /\ UNCHANGED <<dead, abandoned, timers, loops, apps, lagging, start>>

(* Mutant: a reply wakes nobody, as if the election polled. *)
Broadcast_None(e) == e

Broadcast(e) == IF e.pc = "wait" THEN [e EXCEPT !.pc = "woken"] ELSE e

(***************************************************************************)
(* The goroutine of term t that asks j for its vote, after the call has    *)
(* returned: a vote, a higher term, or neither (refused or lost).          *)
(***************************************************************************)
VoteReply(t, j) ==
    /\ j \in election[t].asked
    /\ LET e == [election[t] EXCEPT !.asked = @ \ {j}]
       IN  \/ /\ dead
              /\ election' = [election EXCEPT ![t] = e]
              /\ UNCHANGED peerVars
           \/ /\ ~dead /\ ~abandoned
              /\ election' = [election EXCEPT ![t] = Broadcast(e)]
              /\ \/ UNCHANGED peerVars
                 \/ /\ term <= t /\ term < MaxTerm
                    /\ term' = term + 1 /\ tp' = 0 /\ UNCHANGED voteCount
                 \/ /\ term <= t
                    /\ voteCount' = voteCount + 1 /\ UNCHANGED <<term, tp>>
    /\ UNCHANGED <<dead, abandoned, timers, starting, loops, apps, lagging, start>>

(* The loop's condition, tested without the lock; Wait returns with the lock. *)
ElectionTest(t) ==
    /\ \/ election[t].pc = "test"
       \/ election[t].pc = "woken" /\ ~abandoned
    /\ election' = [election EXCEPT ![t].pc =
                       IF term = t /\ tp = 1 /\ ~dead THEN "lock" ELSE "over"]
    /\ UNCHANGED <<dead, abandoned, peerVars, timers, starting, loops, apps,
                   lagging, start>>

Majority == voteCount > Servers \div 2

(* Mutant: the loop over the peers stops one short. *)
Spawned_Short == 1..(Servers - 2)

Spawned == Peer

(***************************************************************************)
(* The body of the loop.  With a majority the peer leads: every peer gets  *)
(* an Append2 goroutine, and nextIndex = len(log) >= 1 lags for nobody.    *)
(* Role and term are not tested again under the lock.                      *)
(***************************************************************************)
ElectionTurn(t) ==
    /\ election[t].pc = "lock" /\ ~abandoned
    /\ \/ /\ Majority /\ dead
          /\ abandoned' = TRUE
          /\ election' = [election EXCEPT ![t].pc = "over"]
          /\ UNCHANGED <<tp, loops, lagging, start>>
       \/ /\ Majority /\ ~dead
          /\ tp' = 2 /\ lagging' = {}
          /\ loops' = [j \in Peer |-> IF j \in Spawned
                                      THEN [loops[j] EXCEPT !.lock = @ + 1]
                                      ELSE loops[j]]
          /\ election' = [election EXCEPT ![t].pc = "over"]
          /\ start' = IF Noop THEN [start EXCEPT ![t].pc = "lock"] ELSE start
          /\ UNCHANGED abandoned
       \/ /\ ~Majority
          /\ election' = [election EXCEPT ![t].pc = "wait"]
          /\ UNCHANGED <<abandoned, tp, loops, lagging, start>>
    /\ UNCHANGED <<dead, term, voteCount, timers, starting, apps>>

(* termUpdate(newTerm, 0, -1) in a handler or on a reply of a higher term. *)
StepDown ==
    /\ ~abandoned /\ term < MaxTerm
    /\ term' = term + 1 /\ tp' = 0
    /\ UNCHANGED <<dead, abandoned, voteCount, timers, starting, election, loops,
                   apps, lagging, start>>

(* A leader of the same term turns a candidate into a follower. *)
HeardLeader ==
    /\ ~abandoned /\ tp = 1 /\ tp' = 0
    /\ UNCHANGED <<dead, abandoned, term, voteCount, timers, starting, election,
                   loops, apps, lagging, start>>

-----------------------------------------------------------------------------
(* The Append2 loops *)

(* Mutant: the loop gives up only once the peer is a follower. *)
GivesUp_Follower(role) == role = 0

GivesUp(role) == role # 2

(***************************************************************************)
(* One turn of an Append2 loop for j up to its select.  Giving up starts   *)
(* an oscillator, in every loop.  The branch that sends a snapshot does    *)
(* not listen to apps[j] and is back at the lock after its timer.          *)
(***************************************************************************)
Append2(j) ==
    /\ loops[j].lock > 0 /\ ~abandoned
    /\ \/ /\ dead
          /\ abandoned' = TRUE
          /\ loops' = [loops EXCEPT ![j].lock = @ - 1] /\ UNCHANGED timers
       \/ /\ ~dead /\ GivesUp(tp)
          /\ loops' = [loops EXCEPT ![j].lock = @ - 1]
          /\ timers' = timers + 1 /\ UNCHANGED abandoned
       \/ /\ ~dead /\ ~GivesUp(tp) /\ j \notin lagging
          /\ loops' = [loops EXCEPT ![j] = [lock |-> @.lock - 1, select |-> @.select + 1]]
          /\ UNCHANGED <<abandoned, timers>>
    /\ UNCHANGED <<dead, peerVars, starting, election, apps, lagging, start>>

Turns(j) == loops' = [loops EXCEPT ![j] = [lock |-> @.lock + 1, select |-> @.select - 1]]

(* The select ends by its timer, or by the goroutine's own wake channel. *)
Append2Timer(j) ==
    /\ loops[j].select > 0 /\ Turns(j)
    /\ UNCHANGED <<dead, abandoned, peerVars, timers, starting, election, apps,
                   lagging, start>>

(* Mutant: the select does not listen to apps[server]. *)
Append2Woken_Deaf(j) == FALSE /\ UNCHANGED threadVars

(* The select ends by a receive from rf.apps[j]. *)
Append2Woken(j) ==
    /\ loops[j].select > 0 /\ apps[j] > 0 /\ Turns(j)
    /\ apps' = [apps EXCEPT ![j] = @ - 1]
    /\ UNCHANGED <<dead, abandoned, peerVars, timers, starting, election,
                   lagging, start>>

(***************************************************************************)
(* nextIndex[j] falls to 0 or below by a conflict or by a new snapshot     *)
(* (persistV2); an installed snapshot brings it back to 1.                 *)
(***************************************************************************)
FallsBehind(j) ==
    /\ ~abandoned /\ ~dead /\ j \notin lagging
    /\ lagging' = lagging \cup {j}
    /\ UNCHANGED <<dead, abandoned, peerVars, timers, starting, election, loops,
                   apps, start>>

Installed(j) ==
    /\ ~abandoned /\ ~dead /\ j \in lagging
    /\ lagging' = lagging \ {j}
    /\ UNCHANGED <<dead, abandoned, peerVars, timers, starting, election, loops,
                   apps, start>>

-----------------------------------------------------------------------------
(* Start *)

CallStart(c) ==
    /\ c \in Client /\ start[c].pc = "idle"
    /\ start' = [start EXCEPT ![c].pc = "lock"]
    /\ UNCHANGED <<dead, abandoned, peerVars, timers, starting, election, loops,
                   apps, lagging>>

(* The section under the lock; a killed peer returns with the lock. *)
StartLocked(c) ==
    /\ start[c].pc = "lock" /\ ~abandoned
    /\ abandoned' = dead
    /\ start' = [start EXCEPT ![c].pc = IF dead \/ tp # 2 THEN "done" ELSE "test"]
    /\ UNCHANGED <<dead, peerVars, timers, starting, election, loops, apps, lagging>>

(* The call moves on to the next channel, and returns after the last. *)
Onward(s) == IF s.at = Servers - 1 THEN [pc |-> "done", at |-> 1]
                                   ELSE [pc |-> "test", at |-> s.at + 1]

(* len(item) == 0, tested after the unlock. *)
StartTest(c) ==
    /\ start[c].pc = "test"
    /\ start' = [start EXCEPT ![c] = IF apps[@.at] = 0 THEN [@ EXCEPT !.pc = "send"]
                                                       ELSE Onward(@)]
    /\ UNCHANGED <<dead, abandoned, peerVars, timers, starting, election, loops,
                   apps, lagging>>

Room(j) == apps[j] < 1

(* item <- 1: waits while the channel is full. *)
StartSend(c) ==
    /\ start[c].pc = "send" /\ Room(start[c].at)
    /\ apps' = [apps EXCEPT ![start[c].at] = @ + 1]
    /\ start' = [start EXCEPT ![c] = Onward(@)]
    /\ UNCHANGED <<dead, abandoned, peerVars, timers, starting, election, loops, lagging>>

-----------------------------------------------------------------------------
ElectionNext(t) == ElectionTest(t) \/ ElectionTurn(t)

StartNext(c) == StartLocked(c) \/ StartTest(c) \/ StartSend(c)

ThreadsNext ==
    \/ Kill \/ oscillator \/ startElection \/ StepDown \/ HeardLeader
    \/ \E t \in Term : ElectionNext(t) \/ \E j \in Peer : VoteReply(t, j)
    \/ \E j \in Peer : Append2(j) \/ Append2Timer(j) \/ Append2Woken(j)
                       \/ FallsBehind(j) \/ Installed(j)
    \/ \E c \in Caller : CallStart(c) \/ StartNext(c)

ThreadsSpec == ThreadsInit /\ [][ThreadsNext]_threadVars

(***************************************************************************)
(* The scheduler runs every goroutine that can run and Go's mutex starves  *)
(* nobody.  A select with several ready cases takes each of them with the  *)
(* same probability, so a wake-up that is there again and again is taken.  *)
(* Elections, votes, step-downs, snapshots and Kill owe nothing.           *)
(***************************************************************************)
FairThreads ==
    /\ ThreadsSpec
    /\ \A t \in Term : WF_threadVars(ElectionNext(t))
    /\ \A j \in Peer : WF_threadVars(Append2(j)) /\ WF_threadVars(Append2Timer(j))
                       /\ SF_threadVars(Append2Woken(j))
    /\ \A c \in Caller : WF_threadVars(StartNext(c))

-----------------------------------------------------------------------------
Election == [pc : {"none", "test", "lock", "wait", "woken", "over"}, asked : SUBSET Peer]
Starting == [pc : {"idle", "lock", "test", "send", "done"}, at : Peer]

(* Type invariant: channels hold at most one wake-up, counters count. *)
ThreadsTypeOK ==
    /\ dead \in BOOLEAN /\ abandoned \in BOOLEAN
    /\ term \in 0..MaxTerm /\ tp \in 0..2 /\ voteCount \in Nat
    /\ timers \in Nat /\ starting \in Nat
    /\ election \in [Term -> Election]
    /\ loops \in [Peer -> [lock : Nat, select : Nat]]
    /\ apps \in [Peer -> 0..1]
    /\ lagging \in SUBSET Peer
    /\ start \in [Caller -> Starting]

Loops(j) == loops[j].lock + loops[j].select

(***************************************************************************)
(* Timers are stopped by leaders and started again by the loops that find  *)
(* out the peer no longer leads, each at its own pace: a living peer that  *)
(* does not lead always has a timer, or a loop that is going to start one. *)
(***************************************************************************)
TimerKept == ~dead /\ tp # 2 => timers > 0 \/ \E j \in Peer : Loops(j) > 0

(***************************************************************************)
(* A living leader has an Append2 loop for every other peer, also when it  *)
(* steps down and is elected again while loops of before still run.        *)
(***************************************************************************)
PeersServed == ~dead /\ tp = 2 => \A j \in Peer : Loops(j) > 0

(***************************************************************************)
(* A candidate that has a majority leads or leaves its term: the wake-up   *)
(* of the election's goroutine is never missed.                            *)
(***************************************************************************)
MajorityLeads ==
    \A t \in Term :
        (tp = 1 /\ term = t /\ Majority) ~> (dead \/ tp # 1 \/ term # t)

(***************************************************************************)
(* A peer that never leads again ends all its Append2 loops.               *)
(***************************************************************************)
LoopsRetire == <>[](~dead /\ tp # 2) => <>[](\A j \in Peer : Loops(j) = 0)

(***************************************************************************)
(* While the peer leads, lives and has nobody to send its snapshot to,     *)
(* every Start returns, although its sends wait outside the lock on        *)
(* channels another call may have filled since their length was tested.    *)
(***************************************************************************)
StartReturns ==
    <>[](~dead /\ tp = 2 /\ lagging = {}) =>
        \A c \in Caller : (start[c].pc # "idle") ~> (start[c].pc = "done")
=============================================================================
