------------------------------ MODULE KVServer ------------------------------
(***************************************************************************)
(* The key/value service of src/kvraft: clerks that retry, the Get and     *)
(* PutAppend handlers, the Applier that executes committed commands and    *)
(* wakes the handlers, snapshots and restart.  A step is what one          *)
(* goroutine does between two points where another can interfere: a        *)
(* critical section of mucli or mumap, a channel operation, or a critical  *)
(* section of the Raft peer's rf.mu.                                       *)
(*                                                                         *)
(* The Raft peers are abstracted to what module Raft shows of them: each   *)
(* has a log; one of them is the leader of the latest term, others may     *)
(* still believe they lead; the leader's log contains what was chosen.     *)
(***************************************************************************)
EXTENDS Integers, Sequences, FiniteSets

CONSTANTS
    NServers,       \* len(servers)
    Client, Key,    \* clerks, keys
    Kinds,          \* the types of the commands the clerks issue
    Slot,           \* bound: a clerk's calls that are still running somewhere
    Stale,          \* a channel whose handler has gone
    Nobody,         \* no leader; no client
    Snapshots,      \* the servers with maxraftstate # -1
    AtomicRegister, \* schedules in which nothing runs between a handler's Start
                    \* and its entry in ClientCh
    LateRequests,   \* networks that deliver a request after its Call has failed
    FreshInstalls,  \* schedules in which a snapshot is only sent to a server
                    \* that has not applied what it contains
    MaxNum,         \* bound: commands per clerk
    MaxLog,         \* bound: length of a log
    MaxElections,   \* bound: changes of the leader
    MaxLosses,      \* bound: calls that fail while both sides are up
    MaxRestarts     \* bound: restarts

(* Op.Type *)
GetType    == 0
PutType    == 1
AppendType == 2
NoKeyType  == -1
NoopType   == -2
DiscardType == -3

Server == 0 .. NServers - 1
Call == Client \X Slot

ASSUME ServiceAssumption ==
    /\ NServers \in Nat \ {0} /\ Kinds \subseteq {GetType, PutType, AppendType} /\ Slot # {}
    /\ Stale \notin Call /\ Nobody \notin Server \cup Client /\ Snapshots \subseteq Server
    /\ AtomicRegister \in BOOLEAN /\ LateRequests \in BOOLEAN /\ FreshInstalls \in BOOLEAN
    /\ MaxNum \in Nat /\ MaxLog \in Nat \ {0} /\ MaxElections \in Nat /\ MaxLosses \in Nat /\ MaxRestarts \in Nat

VARIABLES
    log,            \* rf.log, from index 1 on
    lead,           \* the leader of the latest term
    leaders,        \* the servers with rf.tp = 2
    noops,          \* winners of elections that have not called Start yet
    chosen,         \* what has been committed
    commit,         \* rf.commitIndex
    applyCh,        \* the indices rf has yet to send on applyCh before it releases rf.mu
    snap,           \* the snapshot in the Persister
    mp, CliMap, lastApplied,    \* kv.mp, kv.CliMap, kv.lastApplied
    ClientCh,       \* kv.ClientCh: the channels, by index
    applier,        \* where the Applier is
    offer,          \* where the snapshot goroutine is
    handler,        \* the Get and PutAppend calls
    clerk,          \* number, leader, and the call the clerk waits for
    since,          \* history: how much was chosen when the clerk's command was issued
    elections, losses, restarts \* counters for the bounds

raftVars    == <<log, lead, leaders, noops, chosen, commit, applyCh>>
storeVars   == <<mp, CliMap, lastApplied>>
serviceVars == <<ClientCh, applier>>
snapVars    == <<snap, offer>>
clientVars  == <<handler, clerk, since>>
countVars   == <<elections, losses, restarts>>
vars == <<raftVars, storeVars, serviceVars, snapVars, clientVars, countVars>>

Idle == [st |-> "idle"]
Unused == [st |-> "none"]
NoOffer == [st |-> "none"]
NoopOp == [Id |-> Nobody, Num |-> 0, Type |-> NoopType, Key |-> Nobody]
Value(op) == <<op.Id, op.Num>>

(* rf.mu is held while rf sends on applyCh, and by InstallSnapshot until   *)
(* the Applier has finished with the snapshot.                             *)
RaftBusy(s) == applyCh[s] # <<>> \/ applier[s].st \in {"mp", "CliMap", "waking", "stuck"}
(* mumap is held while the snapshot goroutine copies. *)
mumapFree(s) == offer[s].st \notin {"mp", "CliMap"}
(* mucli is held by a Get that is about to read the value. *)
mucliFree(s) ==
    /\ applier[s].st # "stuck"
    /\ \A h \in Call : ~(handler[h].st = "reading" /\ handler[h].server = s)

-----------------------------------------------------------------------------
(* The Raft peers *)

HasPrefix(l, p) == Len(p) <= Len(l) /\ SubSeq(l, 1, Len(p)) = p
Indices(lo, hi, times) == [n \in 1 .. times * (hi - lo + 1) |-> lo + ((n - 1) \div times)]

(* A server whose log contains what was chosen is elected. *)
BecomeLeader(s) ==
    /\ elections < MaxElections
    /\ s # lead /\ ~RaftBusy(s)
    /\ HasPrefix(log[s], chosen)
    /\ elections' = elections + 1
    /\ lead' = s /\ leaders' = leaders \cup {s}
    /\ noops' = [noops EXCEPT ![s] = @ + 1]
    /\ UNCHANGED <<log, chosen, commit, applyCh, storeVars, serviceVars, snapVars, clientVars, losses, restarts>>

(* The winner calls Start with a no-op after it has released rf.mu. *)
StartNoop(s) ==
    /\ noops[s] > 0 /\ ~RaftBusy(s)
    /\ noops' = [noops EXCEPT ![s] = @ - 1]
    /\ IF s \in leaders
       THEN Len(log[s]) < MaxLog /\ log' = [log EXCEPT ![s] = Append(@, NoopOp)]
       ELSE UNCHANGED log
    /\ UNCHANGED <<lead, leaders, chosen, commit, applyCh, storeVars, serviceVars, snapVars, clientVars, countVars>>

(* The leader commits and sends each entry once. *)
updateCommit(k) ==
    /\ lead # Nobody /\ ~RaftBusy(lead)
    /\ k > Len(chosen) /\ k <= Len(log[lead])
    /\ chosen' = SubSeq(log[lead], 1, k)
    /\ commit' = [commit EXCEPT ![lead] = k]
    /\ applyCh' = [applyCh EXCEPT ![lead] = Indices(commit[lead] + 1, k, 1)]
    /\ UNCHANGED <<log, lead, leaders, noops, storeVars, serviceVars, snapVars, clientVars, countVars>>

(* A follower takes over the leader's log and sends each entry twice. *)
AppendEntries(s) ==
    LET c == IF commit[lead] > commit[s] THEN commit[lead] ELSE commit[s]
    IN  /\ lead # Nobody /\ s # lead /\ ~RaftBusy(s)
        /\ s \in leaders \/ log[s] # log[lead] \/ commit[s] # c
        /\ log' = [log EXCEPT ![s] = log[lead]]
        /\ leaders' = leaders \ {s}
        /\ commit' = [commit EXCEPT ![s] = c]
        /\ applyCh' = [applyCh EXCEPT ![s] = Indices(commit[s] + 1, c, 2)]
        /\ UNCHANGED <<lead, noops, chosen, storeVars, serviceVars, snapVars, clientVars, countVars>>

-----------------------------------------------------------------------------
(* Handlers *)

Answered(h, err, value) ==
    IF handler[h].live THEN [handler[h] EXCEPT !.st = "replied", !.Err = err, !.Value = value] ELSE Unused

(* Mutant: a leader answers a Get from what it has applied so far. *)
Used_Read(s, op) == op.Type = GetType \/ CliMap[s][op.Id] >= op.Num

(* The server has applied the client's command. *)
Used(s, op) == CliMap[s][op.Id] >= op.Num

(* Under mucli: a command that was applied already is answered, any other  *)
(* waits for what is applied at its index.                                 *)
Register(h, index) ==
    LET s == handler[h].server
        op == handler[h].op
        used == Used(s, op)
    IN  /\ mucliFree(s) /\ mumapFree(s)
        /\ handler' = [handler EXCEPT ![h] =
               IF used /\ op.Type = GetType THEN [@ EXCEPT !.st = "reading"]
               ELSE IF used THEN Answered(h, "OK", <<>>)
               ELSE [@ EXCEPT !.st = "waiting", !.index = index]]
        /\ ClientCh' = IF used THEN ClientCh ELSE [ClientCh EXCEPT ![s][index] = @ \cup {h}]

Start(h) ==
    LET s == handler[h].server
    IN  /\ handler[h].st = "sent"
        /\ ~RaftBusy(s)
        /\ \/ /\ s \notin leaders
              /\ handler' = [handler EXCEPT ![h] = Answered(h, "ErrWrongLeader", <<>>)]
              /\ UNCHANGED <<log, ClientCh>>
           \/ /\ s \in leaders
              /\ Len(log[s]) < MaxLog
              /\ log' = [log EXCEPT ![s] = Append(@, handler[h].op)]
              /\ IF AtomicRegister
                 THEN Register(h, Len(log[s]) + 1)
                 ELSE /\ handler' = [handler EXCEPT ![h].st = "started", ![h].index = Len(log[s]) + 1]
                      /\ UNCHANGED ClientCh
        /\ UNCHANGED <<lead, leaders, noops, chosen, commit, applyCh, storeVars, applier, snapVars, clerk, since, countVars>>

RegisterLater(h) ==
    /\ handler[h].st = "started"
    /\ Register(h, handler[h].index)
    /\ UNCHANGED <<raftVars, storeVars, applier, snapVars, clerk, since, countVars>>

(* A Get that was applied already reads the value in a critical section of *)
(* its own.                                                                *)
ReadValue(h) ==
    /\ handler[h].st = "reading"
    /\ mumapFree(handler[h].server)
    /\ handler' = [handler EXCEPT ![h] = Answered(h, "OK", mp[handler[h].server][handler[h].op.Key])]
    /\ UNCHANGED <<raftVars, storeVars, serviceVars, snapVars, clerk, since, countVars>>

(* Mutant: only the type is compared. *)
SameCommand_Type(cm, op) == cm.Type = op.Type

SameCommand(cm, op) == cm.Type = op.Type /\ cm.Id = op.Id /\ cm.Num = op.Num

(* Mutant: a write the snapshot covers is taken for executed. *)
Discarded_OK(s, op) == "OK"

(* What a write answers when a snapshot has passed its index. *)
Discarded(s, op) == IF Used(s, op) THEN "OK" ELSE "discarded"

(* A handler goes on with what it has received from its channel. *)
Finish(h) ==
    LET s == handler[h].server
        op == handler[h].op
        cm == handler[h].cm
    IN  /\ handler[h].st = "woken"
        /\ cm.Type = DiscardType => mumapFree(s)
        /\ handler' = [handler EXCEPT ![h] =
               IF op.Type = GetType
               THEN IF cm.Type = NoKeyType THEN Answered(h, "ErrNoKey", <<>>)
                    ELSE IF SameCommand(cm, op) THEN Answered(h, "OK", cm.Value)
                    ELSE Answered(h, "command fail", <<>>)
               ELSE IF cm.Type = DiscardType
               THEN Answered(h, Discarded(s, op), <<>>)
               ELSE Answered(h, IF SameCommand(cm, op) THEN "OK" ELSE "command fail", <<>>)]
        /\ UNCHANGED <<raftVars, storeVars, serviceVars, snapVars, clerk, since, countVars>>

-----------------------------------------------------------------------------
(* The Applier *)

(* Mutant: a command that was executed is executed again. *)
Executes_Always(s, cm) == cm.Type \in {PutType, AppendType}

(* The write is new: the client's number in CliMap is lower. *)
Executes(s, cm) == cm.Type \in {PutType, AppendType} /\ CliMap[s][cm.Id] < cm.Num

(* What Get and PutAppend handlers receive: the type turns into -1 if the  *)
(* key is missing.                                                         *)
Result(s, cm) ==
    IF cm.Type # GetType THEN cm
    ELSE [Id |-> cm.Id, Num |-> cm.Num, Key |-> cm.Key, Value |-> mp[s][cm.Key],
          Type |-> IF mp[s][cm.Key] = <<>> THEN NoKeyType ELSE GetType]

(* A Get sets the client's number whatever it was. *)
Apply(s) ==
    LET k == Head(applyCh[s])
        cm == chosen[k]
        new == IF cm.Type = AppendType THEN Append(mp[s][cm.Key], Value(cm)) ELSE <<Value(cm)>>
    IN  /\ applyCh[s] # <<>> /\ applier[s] = Idle
        /\ mumapFree(s)
        /\ applyCh' = [applyCh EXCEPT ![s] = Tail(@)]
        /\ lastApplied' = [lastApplied EXCEPT ![s] = k]
        /\ mp' = IF Executes(s, cm) THEN [mp EXCEPT ![s][cm.Key] = new] ELSE mp
        /\ CliMap' = IF Executes(s, cm) \/ cm.Type = GetType THEN [CliMap EXCEPT ![s][cm.Id] = cm.Num] ELSE CliMap
        /\ applier' = [applier EXCEPT ![s] = [st |-> "handing", index |-> k, cm |-> Result(s, cm)]]
        /\ UNCHANGED <<log, lead, leaders, noops, chosen, commit, ClientCh, snapVars, clientVars, countVars>>

(* The handlers whose channels are in W receive cm. *)
Woken(W, cm) == [h \in Call |-> IF h \in W THEN [handler[h] EXCEPT !.st = "woken", !.cm = cm] ELSE handler[h]]

(* Mutant: the entry stays in ClientCh, its channels without a receiver. *)
AfterHandOut_Keep(s, k) == [ClientCh EXCEPT ![s][k] = IF @ = {} THEN {} ELSE {Stale}]

AfterHandOut(s, k) == [ClientCh EXCEPT ![s][k] = {}]

(* Under mucli: the result goes to every channel at the index, and the     *)
(* entry is deleted.  A send to a channel nobody receives from blocks.     *)
HandOut(s) ==
    LET k == applier[s].index
    IN  /\ applier[s].st = "handing"
        /\ mucliFree(s)
        /\ Stale \notin ClientCh[s][k]
        /\ handler' = Woken(ClientCh[s][k], applier[s].cm)
        /\ ClientCh' = AfterHandOut(s, k)
        /\ applier' = [applier EXCEPT ![s] = Idle]
        /\ UNCHANGED <<raftVars, storeVars, snapVars, clerk, since, countVars>>

-----------------------------------------------------------------------------
(* Snapshots *)

(* The snapshot goroutine reads mp, CliMap and lastApplied with mumap      *)
(* held, which the Applier does not take when it installs a snapshot.      *)
CopyMap(s) ==
    /\ s \in Snapshots /\ offer[s] = NoOffer
    /\ lastApplied[s] > snap[s].LastIndex
    /\ offer' = [offer EXCEPT ![s] = [st |-> "mp", Mp |-> mp[s]]]
    /\ UNCHANGED <<raftVars, storeVars, serviceVars, snap, clientVars, countVars>>

CopyCliMap(s) ==
    /\ offer[s].st = "mp"
    /\ offer' = [offer EXCEPT ![s] = [st |-> "CliMap", Mp |-> offer[s].Mp, CliMap |-> CliMap[s]]]
    /\ UNCHANGED <<raftVars, storeVars, serviceVars, snap, clientVars, countVars>>

OfferSnapshot(s) ==
    /\ offer[s].st = "CliMap"
    /\ offer' = [offer EXCEPT ![s] = [st |-> "offered", Mp |-> offer[s].Mp, CliMap |-> offer[s].CliMap,
                                      LastIndex |-> lastApplied[s]]]
    /\ UNCHANGED <<raftVars, storeVars, serviceVars, snap, clientVars, countVars>>

(* Mutant: persistV2 does not compare the snapshot with the one it has. *)
Newer_Any(s) == TRUE

Newer(s) == offer[s].LastIndex > snap[s].LastIndex /\ offer[s].LastIndex <= Len(log[s])

(* Mutant: the clients' numbers are not saved. *)
Saved_NoCliMap(s) ==
    [Mp |-> offer[s].Mp, CliMap |-> [c \in Client |-> 0], LastIndex |-> offer[s].LastIndex]

Saved(s) == [Mp |-> offer[s].Mp, CliMap |-> offer[s].CliMap, LastIndex |-> offer[s].LastIndex]

persistV2(s) ==
    /\ offer[s].st = "offered" /\ ~RaftBusy(s)
    /\ offer' = [offer EXCEPT ![s] = NoOffer]
    /\ snap' = IF Newer(s) THEN [snap EXCEPT ![s] = Saved(s)] ELSE snap
    /\ UNCHANGED <<raftVars, storeVars, serviceVars, clientVars, countVars>>

(* The leader's snapshot replaces that of a server, and the Applier its    *)
(* state, whether the snapshot is ahead of it or not.                      *)
InstallSnapshot(s) ==
    LET d == snap[lead]
        p == SubSeq(log[lead], 1, d.LastIndex)
    IN  /\ lead # Nobody /\ s # lead
        /\ ~RaftBusy(s) /\ applier[s] = Idle
        /\ d.LastIndex > snap[s].LastIndex
        /\ FreshInstalls => d.LastIndex > lastApplied[s]
        /\ log' = [log EXCEPT ![s] = IF HasPrefix(@, p) THEN @ ELSE p]
        /\ leaders' = leaders \ {s}
        /\ commit' = [commit EXCEPT ![s] = IF d.LastIndex > @ THEN d.LastIndex ELSE @]
        /\ snap' = [snap EXCEPT ![s] = d]
        /\ mp' = [mp EXCEPT ![s] = d.Mp]
        /\ applier' = [applier EXCEPT ![s] = [st |-> "mp", snapshot |-> d]]
        /\ UNCHANGED <<lead, noops, chosen, applyCh, CliMap, lastApplied, ClientCh, offer, clientVars, countVars>>

InstallCliMap(s) ==
    /\ applier[s].st = "mp"
    /\ CliMap' = [CliMap EXCEPT ![s] = applier[s].snapshot.CliMap]
    /\ applier' = [applier EXCEPT ![s] = [st |-> "CliMap", index |-> applier[s].snapshot.LastIndex]]
    /\ UNCHANGED <<raftVars, mp, lastApplied, ClientCh, snapVars, clientVars, countVars>>

InstallIndex(s) ==
    /\ applier[s].st = "CliMap"
    /\ lastApplied' = [lastApplied EXCEPT ![s] = IF applier[s].index > @ THEN applier[s].index ELSE @]
    /\ applier' = [applier EXCEPT ![s] = [st |-> "waking", index |-> applier[s].index]]
    /\ UNCHANGED <<raftVars, mp, CliMap, ClientCh, snapVars, clientVars, countVars>>

Covered(s) == {k \in DOMAIN ClientCh[s] : k <= applier[s].index}
Waiting(s) == UNION {ClientCh[s][k] : k \in Covered(s)} \ {Stale}

(* The entries of ClientCh that the snapshot covers are not deleted. *)
AfterWake(s) ==
    [ClientCh EXCEPT ![s] = [k \in DOMAIN @ |-> IF k \in Covered(s) /\ @[k] # {} THEN {Stale} ELSE @[k]]]

(* Under mucli: every handler at an index the snapshot covers is told.  A  *)
(* channel left by an earlier snapshot blocks the Applier for good, after  *)
(* some of the others have been told.                                      *)
Wake(s) ==
    /\ applier[s].st = "waking"
    /\ mucliFree(s)
    /\ \/ /\ \A k \in Covered(s) : Stale \notin ClientCh[s][k]
          /\ handler' = Woken(Waiting(s), [Type |-> DiscardType, Id |-> Nobody])
          /\ ClientCh' = AfterWake(s)
          /\ applier' = [applier EXCEPT ![s] = Idle]
       \/ /\ \E k \in Covered(s) : Stale \in ClientCh[s][k]
          /\ \E W \in SUBSET Waiting(s) : handler' = Woken(W, [Type |-> DiscardType, Id |-> Nobody])
          /\ applier' = [applier EXCEPT ![s] = [st |-> "stuck"]]
          /\ UNCHANGED ClientCh
    /\ UNCHANGED <<raftVars, storeVars, snapVars, clerk, since, countVars>>

(* A crash, and StartKVServer on what the Persister holds.  The calls the  *)
(* server was handling fail.                                               *)
Restart(s) ==
    /\ restarts < MaxRestarts
    /\ restarts' = restarts + 1
    /\ lead' = IF lead = s THEN Nobody ELSE lead
    /\ leaders' = leaders \ {s}
    /\ noops' = [noops EXCEPT ![s] = 0]
    /\ commit' = [commit EXCEPT ![s] = snap[s].LastIndex]
    /\ applyCh' = [applyCh EXCEPT ![s] = <<>>]
    /\ mp' = [mp EXCEPT ![s] = snap[s].Mp]
    /\ CliMap' = [CliMap EXCEPT ![s] = snap[s].CliMap]
    /\ lastApplied' = [lastApplied EXCEPT ![s] = snap[s].LastIndex]
    /\ ClientCh' = [ClientCh EXCEPT ![s] = [k \in DOMAIN @ |-> {}]]
    /\ applier' = [applier EXCEPT ![s] = Idle]
    /\ offer' = [offer EXCEPT ![s] = NoOffer]
    /\ handler' = [h \in Call |->
           IF handler[h].st \in {"none", "sent", "replied", "dead"} \/ handler[h].server # s THEN handler[h]
           ELSE IF handler[h].live THEN [handler[h] EXCEPT !.st = "dead"] ELSE Unused]
    /\ UNCHANGED <<log, chosen, snap, clerk, since, elections, losses>>

-----------------------------------------------------------------------------
(* Clerks *)

(* The call c waits for: a request to server s, in a slot that is free or  *)
(* that of the call that has just returned.                                *)
Send(c, b, s, op) ==
    [st |-> "sent", op |-> op, server |-> s, index |-> 0, cm |-> NoopOp, Err |-> "", Value |-> <<>>, live |-> TRUE]

(* Get or PutAppend is called. *)
Issue(c, type, key) ==
    LET op == [Id |-> c, Num |-> clerk[c].number + 1, Type |-> type, Key |-> key]
    IN  /\ ~clerk[c].busy /\ clerk[c].number < MaxNum
        /\ \E b \in Slot :
              /\ handler[<<c, b>>] = Unused
              /\ handler' = [handler EXCEPT ![<<c, b>>] = Send(c, b, clerk[c].leader, op)]
              /\ clerk' = [clerk EXCEPT ![c] = [number |-> op.Num, leader |-> @.leader, busy |-> TRUE, slot |-> b]]
        /\ since' = [since EXCEPT ![c] = Len(chosen)]
        /\ UNCHANGED <<raftVars, storeVars, serviceVars, snapVars, countVars>>

(* Mutant: the last server is not followed by the first. *)
NextServer_NoWrap(s) == IF s + 1 < NServers THEN s + 1 ELSE s

NextServer(s) == (s + 1) % NServers

(* Call has returned a reply: the clerk returns, or tries the next server, *)
(* or, on an error it does not know, the same one.                         *)
Receive(c) ==
    LET h == <<c, clerk[c].slot>>
        r == handler[h]
    IN  /\ clerk[c].busy /\ r.st = "replied"
        /\ \/ /\ r.Err \in {"OK", "ErrNoKey"}
              /\ clerk' = [clerk EXCEPT ![c].busy = FALSE, ![c].leader = r.server]
              /\ handler' = [handler EXCEPT ![h] = Unused]
           \/ /\ r.Err \in {"ErrWrongLeader", "command fail"}
              /\ handler' = [handler EXCEPT ![h] = Send(c, h[2], NextServer(r.server), r.op)]
              /\ UNCHANGED clerk
           \/ /\ r.Err = "discarded"
              /\ handler' = [handler EXCEPT ![h] = Send(c, h[2], r.server, r.op)]
              /\ UNCHANGED clerk
        /\ UNCHANGED <<raftVars, storeVars, serviceVars, snapVars, since, countVars>>

(* What is left of a call that has failed: the handler runs on; a request  *)
(* that has not arrived is dropped, or late.                               *)
Abandoned(r) ==
    IF r.st \in {"replied", "dead"} \/ (r.st = "sent" /\ ~LateRequests) THEN Unused ELSE [r EXCEPT !.live = FALSE]

(* Call has returned false: the clerk tries the next server. *)
CallFails(c) ==
    LET h == <<c, clerk[c].slot>>
        r == handler[h]
    IN  /\ clerk[c].busy
        /\ IF r.st = "dead" THEN UNCHANGED losses ELSE losses < MaxLosses /\ losses' = losses + 1
        /\ \E b \in Slot :
              /\ b = h[2] \/ handler[<<c, b>>] = Unused
              /\ (b = h[2]) <=> Abandoned(r) = Unused
              /\ handler' = [handler EXCEPT ![h] = Abandoned(r),
                                            ![<<c, b>>] = Send(c, b, NextServer(r.server), r.op)]
              /\ clerk' = [clerk EXCEPT ![c].slot = b]
        /\ UNCHANGED <<raftVars, storeVars, serviceVars, snapVars, since, elections, restarts>>

-----------------------------------------------------------------------------
Empty == [k \in Key |-> <<>>]

(* Server 0 has been elected and its no-op has been applied everywhere. *)
Init ==
    /\ log = [s \in Server |-> <<NoopOp>>] /\ chosen = <<NoopOp>>
    /\ lead = 0 /\ leaders = {0} /\ noops = [s \in Server |-> 0]
    /\ commit = [s \in Server |-> 1] /\ applyCh = [s \in Server |-> <<>>]
    /\ mp = [s \in Server |-> Empty]
    /\ CliMap = [s \in Server |-> [c \in Client |-> 0]]
    /\ lastApplied = [s \in Server |-> 1]
    /\ ClientCh = [s \in Server |-> [k \in 1 .. MaxLog |-> {}]]
    /\ applier = [s \in Server |-> Idle]
    /\ snap = [s \in Server |-> [Mp |-> Empty, CliMap |-> [c \in Client |-> 0], LastIndex |-> 0]]
    /\ offer = [s \in Server |-> NoOffer]
    /\ handler = [h \in Call |-> Unused]
    /\ clerk = [c \in Client |-> [number |-> 0, leader |-> 0, busy |-> FALSE, slot |-> CHOOSE b \in Slot : TRUE]]
    /\ since = [c \in Client |-> 1]
    /\ elections = 0 /\ losses = 0 /\ restarts = 0

Next ==
    \/ \E s \in Server : BecomeLeader(s)
    \/ \E s \in Server : StartNoop(s)
    \/ \E k \in 1 .. MaxLog : updateCommit(k)
    \/ \E s \in Server : AppendEntries(s)
    \/ \E h \in Call : Start(h)
    \/ \E h \in Call : RegisterLater(h)
    \/ \E h \in Call : ReadValue(h)
    \/ \E h \in Call : Finish(h)
    \/ \E s \in Server : Apply(s)
    \/ \E s \in Server : HandOut(s)
    \/ \E s \in Server : CopyMap(s)
    \/ \E s \in Server : CopyCliMap(s)
    \/ \E s \in Server : OfferSnapshot(s)
    \/ \E s \in Server : persistV2(s)
    \/ \E s \in Server : InstallSnapshot(s)
    \/ \E s \in Server : InstallCliMap(s)
    \/ \E s \in Server : InstallIndex(s)
    \/ \E s \in Server : Wake(s)
    \/ \E s \in Server : Restart(s)
    \/ \E c \in Client, type \in Kinds, key \in Key : Issue(c, type, key)
    \/ \E c \in Client : Receive(c)
    \/ \E c \in Client : CallFails(c)

Spec == Init /\ [][Next]_vars

(* Goroutines that can go on do, the network delivers, and the leader of   *)
(* the latest term keeps in touch with the other peers.                    *)
Progress ==
    /\ WF_vars(\E k \in 1 .. MaxLog : updateCommit(k))
    /\ \A s \in Server : /\ WF_vars(StartNoop(s)) /\ WF_vars(AppendEntries(s))
                          /\ WF_vars(Apply(s)) /\ WF_vars(HandOut(s))
    /\ \A h \in Call : /\ WF_vars(Start(h)) /\ WF_vars(RegisterLater(h))
                        /\ WF_vars(ReadValue(h)) /\ WF_vars(Finish(h))
    /\ \A c \in Client : WF_vars(Receive(c))
FairSpec == Spec /\ Progress

-----------------------------------------------------------------------------
(* Properties *)

(* Every variable holds a value of its type. *)
Ops == [Id : Client, Num : 1 .. MaxNum, Type : Kinds, Key : Key] \cup {NoopOp}
Stores == [Key -> Seq(Client \X (1 .. MaxNum))]
Snaps == [Mp : Stores, CliMap : [Client -> 0 .. MaxNum], LastIndex : 0 .. MaxLog]
TypeOK ==
    /\ log \in [Server -> Seq(Ops)] /\ chosen \in Seq(Ops)
    /\ lead \in Server \cup {Nobody} /\ leaders \subseteq Server /\ noops \in [Server -> 0 .. MaxElections]
    /\ commit \in [Server -> 0 .. Len(chosen)] /\ applyCh \in [Server -> Seq(1 .. Len(chosen))]
    /\ mp \in [Server -> Stores] /\ CliMap \in [Server -> [Client -> 0 .. MaxNum]]
    /\ lastApplied \in [Server -> 0 .. Len(chosen)]
    /\ ClientCh \in [Server -> [1 .. MaxLog -> SUBSET (Call \cup {Stale})]]
    /\ \A s \in Server : applier[s].st \in {"idle", "handing", "mp", "CliMap", "waking", "stuck"}
    /\ snap \in [Server -> Snaps]
    /\ \A s \in Server : offer[s].st \in {"none", "mp", "CliMap", "offered"}
    /\ \A h \in Call : handler[h].st \in {"none", "sent", "started", "reading", "waiting", "woken", "replied", "dead"}
    /\ \A h \in Call : handler[h].st # "none" => handler[h].server \in Server /\ handler[h].op \in Ops
    /\ clerk \in [Client -> [number : 0 .. MaxNum, leader : Server, busy : BOOLEAN, slot : Slot]]

(* The reference: the commands of ch executed in order, each once, and the *)
(* highest number of each client among the first n.                        *)
First(ch, k) == \A j \in 1 .. k - 1 : ch[j] # ch[k]
Executed(ch, n, before) ==
    LET cm == ch[n]
    IN  IF cm.Type = PutType /\ First(ch, n) THEN [before EXCEPT ![cm.Key] = <<Value(cm)>>]
        ELSE IF cm.Type = AppendType /\ First(ch, n) THEN [before EXCEPT ![cm.Key] = Append(@, Value(cm))]
        ELSE before
ContentsOf(ch) == LET C[n \in 0 .. Len(ch)] == IF n = 0 THEN Empty ELSE Executed(ch, n, C[n - 1]) IN C
NumbersOf(ch, n) ==
    [c \in Client |-> LET nums == {ch[k].Num : k \in {j \in 1 .. n : ch[j].Id = c}}
                      IN  IF nums = {} THEN 0 ELSE CHOOSE x \in nums : \A y \in nums : y <= x]
Contents == ContentsOf(chosen)
Numbers(n) == NumbersOf(chosen, n)

(* A server that has applied up to an index holds what the chosen commands *)
(* up to there, each executed once, produce - retries, double deliveries,  *)
(* installed snapshots and restarts notwithstanding - unless the Applier   *)
(* is about to overwrite it.                                               *)
ReplicaState ==
    \A s \in Server : applier[s].st \notin {"mp", "CliMap"} =>
        mp[s] = Contents[lastApplied[s]] /\ CliMap[s] = Numbers(lastApplied[s])

(* The snapshot in a Persister is the state at its index, although its     *)
(* parts are read under a lock that the install path does not take.        *)
SnapshotState ==
    \A s \in Server : snap[s].Mp = Contents[snap[s].LastIndex] /\ snap[s].CliMap = Numbers(snap[s].LastIndex)

(* No write takes effect twice on a key (lab3_notes.txt, 5). *)
ExecuteOnce ==
    \A s \in Server, key \in Key : \A i, j \in DOMAIN mp[s][key] : mp[s][key][i] = mp[s][key][j] => i = j

Replied(h, err) == handler[h].st = "replied" /\ handler[h].Err = err

(* A write whose clerk is told "OK" has been chosen. *)
Acknowledged ==
    \A h \in Call : Replied(h, "OK") => \E k \in 1 .. Len(chosen) : chosen[k] = handler[h].op

(* A Get that is told "OK" returns what the key held at some point since   *)
(* the clerk issued it: no write that was acknowledged before is missing   *)
(* (lab3_notes.txt, 1).                                                    *)
ReadsCurrent ==
    \A h \in Call : Replied(h, "OK") /\ handler[h].op.Type = GetType =>
        \E k \in since[h[1]] .. Len(chosen) : Contents[k][handler[h].op.Key] = handler[h].Value

(* A Get that is told "ErrNoKey", for which the clerk returns "", asked for *)
(* a key that did not exist at some point since the clerk issued it.       *)
ReadsAbsence ==
    \A h \in Call : Replied(h, "ErrNoKey") =>
        \E k \in since[h[1]] .. Len(chosen) : Contents[k][handler[h].op.Key] = <<>>

(* A handler waits only for an index the Applier has yet to hand out. *)
NoMissedWakeup ==
    \A h \in Call : handler[h].st = "waiting" =>
        LET s == handler[h].server
            k == handler[h].index
        IN  \/ k > lastApplied[s]
            \/ applyCh[s] # <<>> /\ applyCh[s][1] = k
            \/ applier[s].st = "handing" /\ applier[s].index = k
            \/ applier[s].st = "waking" /\ k <= applier[s].index

(* Each channel in ClientCh has a handler that receives from it, so the    *)
(* Applier, who sends with mucli held, is never blocked.                   *)
NoStaleChannels ==
    \A s \in Server : \A k \in DOMAIN ClientCh[s] : \A h \in ClientCh[s][k] :
        h # Stale /\ handler[h].st = "waiting" /\ handler[h].server = s /\ handler[h].index = k

(* Every Get, Put and Append returns. *)
CallsReturn == \A c \in Client : clerk[c].busy ~> ~clerk[c].busy
=============================================================================
