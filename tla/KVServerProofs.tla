--------------------------- MODULE KVServerProofs ---------------------------
(***************************************************************************)
(* The key/value service without snapshots, over a network that drops the  *)
(* request of a call that has failed, for every number of servers, clerks, *)
(* keys, commands, elections, losses and restarts: the replicas hold what  *)
(* the chosen commands produce (ReplicaState), in which no write is twice  *)
(* (ExecuteOnce); a call that is answered "OK" has its command among the   *)
(* chosen (Acknowledged), and a Get among these returns what the key held  *)
(* since it was issued (ReadsCurrent); the Applier never sends to a        *)
(* channel without a receiver (NoStaleChannels).                           *)
(*                                                                         *)
(* The argument: a command enters a log only while its clerk waits for it, *)
(* so that in each log the numbers of a client never go down; the Applier  *)
(* therefore executes a command exactly when it is the first of its copies *)
(* in what was chosen; and a command that a server finds applied while its *)
(* clerk waits was chosen after the clerk issued it.                       *)
(***************************************************************************)
EXTENDS KVServer, WellFoundedInduction, TLAPS

(* A leaf is left to Zenon unless it names another prover. *)
USE ZenonT(60)

-----------------------------------------------------------------------------
(* The invariant *)

(* A service without snapshots whose network drops late requests. *)
PlainService == Snapshots = {} /\ ~LateRequests

Command == [Id : Client, Num : 1 .. MaxNum, Type : Kinds, Key : Key]
Values == Seq(Client \X (1 .. MaxNum))
Found == [Id : Client, Num : 1 .. MaxNum, Key : Key, Value : Values, Type : {NoKeyType, GetType}]
States == {"sent", "started", "reading", "waiting", "woken", "replied", "dead"}
Errs == {"", "OK", "ErrNoKey", "ErrWrongLeader", "command fail"}
CallRec ==
    [st : States, op : Command, server : Server, index : 0 .. MaxLog, cm : Ops \cup Found,
     Err : Errs, Value : Values, live : BOOLEAN]
ClerkRec == [number : 0 .. MaxNum, leader : Server, busy : BOOLEAN, slot : Slot]
Types ==
    /\ log \in [Server -> Seq(Ops)] /\ chosen \in Seq(Ops) /\ Len(chosen) <= MaxLog
    /\ lead \in Server \cup {Nobody}
    /\ commit \in [Server -> Nat] /\ applyCh \in [Server -> Seq(Nat)] /\ lastApplied \in [Server -> Nat]
    /\ ClientCh \in [Server -> [1 .. MaxLog -> SUBSET Call]]
    /\ applier \in [Server -> {Idle} \cup [st : {"handing"}, index : Nat, cm : Ops \cup Found]]
    /\ handler \in [Call -> {Unused} \cup CallRec]
    /\ clerk \in [Client -> ClerkRec] /\ since \in [Client -> Nat]
    /\ snap = [s \in Server |-> [Mp |-> Empty, CliMap |-> [c \in Client |-> 0], LastIndex |-> 0]]
    /\ offer = [s \in Server |-> NoOffer]

(* The commands that are in a log, chosen, or handled: a client has one of *)
(* each number, up to the one its clerk is at.                             *)
Placed(x) ==
    \/ \E k \in 1 .. Len(chosen) : chosen[k] = x
    \/ \E s \in Server : \E k \in 1 .. Len(log[s]) : log[s][k] = x
    \/ \E h \in Call : handler[h] # Unused /\ handler[h].op = x
OpsInv ==
    \A x \in Command : Placed(x) =>
        /\ x.Num <= clerk[x.Id].number
        /\ \A y \in Command : Placed(y) /\ y.Id = x.Id /\ y.Num = x.Num => y = x

(* The numbers of a client never go down in a log. *)
Ordered(l) ==
    \A i, j \in 1 .. Len(l) :
        i <= j /\ l[i] \in Command /\ l[j] \in Command /\ l[i].Id = l[j].Id => l[i].Num <= l[j].Num
StartsWith(l, p) == Len(p) <= Len(l) /\ \A k \in 1 .. Len(p) : l[k] = p[k]
OrderInv ==
    /\ \A s \in Server : Ordered(log[s])
    /\ Ordered(chosen)
    /\ lead # Nobody => StartsWith(log[lead], chosen)

(* What rf sends goes on from what was applied to what was committed, each *)
(* index once or more.                                                     *)
Feeds(q, n, c) ==
    /\ n <= c
    /\ q = <<>> => n = c
    /\ \A i \in 1 .. Len(q) : q[i] \in 1 .. c
    /\ q # <<>> => q[1] \in {n, n + 1} /\ q[Len(q)] = c
    /\ \A i \in 1 .. Len(q) - 1 : q[i + 1] \in {q[i], q[i] + 1}
ApplyInv == \A s \in Server : commit[s] <= Len(chosen) /\ Feeds(applyCh[s], lastApplied[s], commit[s])

(* A server holds what the chosen commands have produced. *)
StoreInv ==
    /\ mp = [s \in Server |-> Contents[lastApplied[s]]]
    /\ CliMap = [s \in Server |-> Numbers(lastApplied[s])]

(* The Applier hands out the result of the command it has just applied. *)
ResultAt(ch, k) ==
    IF ch[k].Type # GetType THEN ch[k]
    ELSE [Id |-> ch[k].Id, Num |-> ch[k].Num, Key |-> ch[k].Key, Value |-> ContentsOf(ch)[k][ch[k].Key],
          Type |-> IF ContentsOf(ch)[k][ch[k].Key] = <<>> THEN NoKeyType ELSE GetType]
HandInv ==
    \A s \in Server : applier[s] # Idle =>
        /\ lastApplied[s] \in 1 .. Len(chosen)
        /\ applier[s].index = lastApplied[s] /\ applier[s].cm = ResultAt(chosen, lastApplied[s])

(* A busy clerk waits for a call, and a call somebody waits for is that of *)
(* the clerk's command.                                                    *)
ClerkInv ==
    \A c \in Client : clerk[c].busy =>
        handler[<<c, clerk[c].slot>>] # Unused /\ handler[<<c, clerk[c].slot>>].live
OKed(h, r) ==
    /\ \E k \in 1 .. Len(chosen) : chosen[k] = r.op
    /\ r.op.Type = GetType => \E k \in since[h[1]] .. Len(chosen) : Contents[k][r.op.Key] = r.Value
CallAt(h, r) ==
    /\ r.op.Id = h[1]
    /\ r.live => clerk[h[1]].busy /\ clerk[h[1]].slot = h[2] /\ r.op.Num = clerk[h[1]].number
    /\ r.st \in {"sent", "replied", "dead"} => r.live
    /\ r.st = "started" => r.index \in 1 .. MaxLog
    /\ r.st = "reading" => r.op.Type = GetType /\ Used(r.server, r.op)
    /\ r.st = "woken" => \E k \in 1 .. Len(chosen) : r.cm = ResultAt(chosen, k)
    /\ r.st = "replied" /\ r.Err = "OK" => OKed(h, r)
CallInv == \A h \in Call : handler[h] # Unused => CallAt(h, handler[h])

(* The command a clerk is at was chosen after the clerk issued it. *)
SinceInv ==
    \A c \in Client :
        /\ since[c] <= Len(chosen)
        /\ \A k \in 1 .. Len(chosen) :
              chosen[k] \in Command /\ chosen[k].Id = c /\ chosen[k].Num = clerk[c].number => since[c] <= k

(* The handlers in ClientCh wait there. *)
ChannelInv ==
    \A s \in Server, k \in 1 .. MaxLog : \A h \in ClientCh[s][k] :
        handler[h].st = "waiting" /\ handler[h].server = s /\ handler[h].index = k

(* The inductive invariant of the service. *)
ServiceInv ==
    /\ Types /\ OpsInv /\ OrderInv /\ ApplyInv /\ StoreInv
    /\ HandInv /\ ClerkInv /\ CallInv /\ SinceInv /\ ChannelInv

-----------------------------------------------------------------------------
(* Data *)

(* What ServiceAssumption says of the constants. *)
LEMMA Constants ==
    /\ NServers \in Nat /\ NServers > 0 /\ MaxNum \in Nat /\ MaxLog \in Nat /\ MaxLog >= 1
    /\ Kinds \subseteq {GetType, PutType, AppendType} /\ 0 \in Server /\ Slot # {}
    /\ Nobody \notin Server /\ Nobody \notin Client /\ Stale \notin Call
<1>1. NServers \in Nat /\ NServers > 0 /\ MaxNum \in Nat /\ MaxLog \in Nat /\ MaxLog >= 1 /\ 0 \in Server
    BY ServiceAssumption, SMT DEF Server
<1> QED
    BY <1>1, ServiceAssumption

(* A nonempty set of naturals has a least element. *)
LEMMA LeastNat ==
    ASSUME NEW B \in SUBSET Nat, B # {}
    PROVE  \E m \in B : \A k \in B : ~(k < m)
<1>1. PICK m \in B : \A k \in B : ~(<<k, m>> \in OpToRel(<, Nat))
    BY NatLessThanWellFounded, WFMin
<1>2. \A k \in B : k < m => <<k, m>> \in OpToRel(<, Nat)
    BY DEF OpToRel
<1> QED
    BY <1>1, <1>2

(* A nonempty set of naturals with a bound has a greatest element. *)
LEMMA GreatestNat ==
    ASSUME NEW M \in Nat, NEW B \in SUBSET (0 .. M), B # {}
    PROVE  \E m \in B : \A k \in B : k <= m
<1> DEFINE D == {M - k : k \in B}
<1>1. D \in SUBSET Nat /\ D # {}
    <2>1. \A k \in B : M - k \in Nat
        BY SMT
    <2> QED
        BY <2>1
<1>2. PICK d \in D : \A e \in D : ~(e < d)
    BY <1>1, LeastNat
<1>3. PICK m \in B : d = M - m
    BY <1>2
<1>4. \A k \in B : ~(M - k < M - m)
    BY <1>2, <1>3
<1>5. \A k \in B : k <= m
    BY <1>4, SMT
<1> QED
    BY <1>5

(* The fields of a command, and what is a command. *)
LEMMA Commands ==
    /\ \A x \in Command : /\ x.Id \in Client /\ x.Num \in Nat /\ x.Num >= 1 /\ x.Num <= MaxNum
                          /\ x.Type \in {GetType, PutType, AppendType} /\ x.Key \in Key
    /\ \A x \in Ops : x \in Command \/ x = NoopOp
    /\ Command \subseteq Ops /\ NoopOp \in Ops /\ NoopOp \notin Command
    /\ NoopOp.Id = Nobody /\ NoopOp.Type = NoopType
    /\ \A x \in Ops : x.Id \in Client <=> x \in Command
    /\ \A x \in Ops : x.Type \in {GetType, PutType, AppendType} <=> x \in Command
<1>1. \A x \in Command : /\ x.Id \in Client /\ x.Num \in Nat /\ x.Num >= 1 /\ x.Num <= MaxNum
                         /\ x.Type \in Kinds /\ x.Key \in Key
    BY Constants, SMT DEF Command
<1>2. NoopOp.Id = Nobody /\ NoopOp.Type = NoopType
    BY SMT DEF NoopOp
<1>3. NoopType \notin {GetType, PutType, AppendType}
    BY SMT DEF NoopType, GetType, PutType, AppendType
<1>4. NoopOp \notin Command
    BY <1>1, <1>2, Constants
<1>5. Ops = Command \cup {NoopOp}
    BY DEF Ops, Command
<1> QED
    BY <1>1, <1>2, <1>3, <1>4, <1>5, Constants

(* Sequences: the length and the elements. *)
LEMMA SeqFacts ==
    ASSUME NEW S, NEW q \in Seq(S)
    PROVE  Len(q) \in Nat /\ (\A k \in 1 .. Len(q) : q[k] \in S) /\ (q = <<>> <=> Len(q) = 0)
BY SMT

(* A sequence with an element appended. *)
LEMMA AppendFacts ==
    ASSUME NEW S, NEW q \in Seq(S), NEW x \in S
    PROVE  /\ Append(q, x) \in Seq(S) /\ Len(Append(q, x)) = Len(q) + 1 /\ Append(q, x)[Len(q) + 1] = x
           /\ \A k \in 1 .. Len(q) : Append(q, x)[k] = q[k]
BY SMT

(* The first elements of a sequence. *)
LEMMA PrefixFacts ==
    ASSUME NEW S, NEW q \in Seq(S), NEW n \in 0 .. Len(q)
    PROVE  /\ SubSeq(q, 1, n) \in Seq(S) /\ Len(SubSeq(q, 1, n)) = n
           /\ \A k \in 1 .. n : SubSeq(q, 1, n)[k] = q[k]
BY SMT

(* The head and the tail of a sequence. *)
LEMMA TailFacts ==
    ASSUME NEW S, NEW q \in Seq(S), q # <<>>
    PROVE  /\ Head(q) = q[1] /\ Tail(q) \in Seq(S) /\ Len(Tail(q)) = Len(q) - 1
           /\ \A k \in 1 .. Len(q) - 1 : Tail(q)[k] = q[k + 1]
BY SMT

-----------------------------------------------------------------------------
(* What the chosen commands produce *)

(* The recursive function of ContentsOf exists. *)
LEMMA ContentsUnfold ==
    ASSUME NEW ch, Len(ch) \in Nat
    PROVE  /\ ContentsOf(ch)[0] = Empty
           /\ \A n \in 1 .. Len(ch) : ContentsOf(ch)[n] = Executed(ch, n, ContentsOf(ch)[n - 1])
<1> DEFINE Step(n, X) == Executed(ch, n, X)
           Rec(f, n) == f = [k \in 0 .. n |-> IF k = 0 THEN Empty ELSE Step(k, f[k - 1])]
           F == CHOOSE f : Rec(f, Len(ch))
<1>1. ContentsOf(ch) = F
    BY DEF ContentsOf
<1> HIDE DEF Step
<1>2. \A n \in Nat : \E f : Rec(f, n)
    <2> DEFINE B == {n \in Nat : ~\E f : Rec(f, n)}
    <2>1. SUFFICES ASSUME B # {} PROVE FALSE
        OBVIOUS
    <2>2. PICK m \in B : \A k \in B : ~(k < m)
        BY <2>1, LeastNat
    <2>3. m \in Nat /\ \A k \in Nat : k < m => \E f : Rec(f, k)
        BY <2>2
    <2>4. CASE m = 0
        <3>1. Rec([k \in 0 .. 0 |-> Empty], 0)
            BY SMT
        <3> QED
            BY <3>1, <2>4, <2>2
    <2>5. CASE m > 0
        <3>1. m - 1 \in Nat /\ m - 1 < m
            BY <2>3, <2>5, SMT
        <3>2. PICK f : Rec(f, m - 1)
            BY <3>1, <2>3
        <3> DEFINE g == [k \in 0 .. m |-> IF k = m THEN Step(m, f[m - 1]) ELSE f[k]]
        <3>3. Rec(g, m)
            BY <2>3, <2>5, <3>2, SMT
        <3> QED
            BY <3>3, <2>2
    <2> QED
        BY <2>3, <2>4, <2>5, SMT
<1>3. Rec(F, Len(ch))
    BY <1>2
<1> HIDE DEF F
<1>4. F[0] = Empty /\ \A n \in 1 .. Len(ch) : F[n] = Step(n, F[n - 1])
    BY <1>3, SMT
<1> QED
    BY <1>1, <1>4 DEF Step

(* Executing a command that is not a write, or not the first of its copies, *)
(* changes nothing.                                                        *)
LEMMA ExecutedStore ==
    ASSUME NEW ch \in Seq(Ops), NEW n \in 1 .. Len(ch), NEW b \in Stores
    PROVE  Executed(ch, n, b) \in Stores
<1>1. PICK cm : cm = ch[n] /\ cm \in Ops
    BY SeqFacts
<1>2. CASE cm \in Command /\ cm.Type \in {PutType, AppendType}
    <2>1. cm.Key \in Key /\ Value(cm) \in Client \X (1 .. MaxNum)
        BY <1>2, SMT DEF Command, Value
    <2>2. PICK v : v = Value(cm)
        OBVIOUS
    <2>3. PICK D : D = Client \X (1 .. MaxNum)
        OBVIOUS
    <2>4. b \in [Key -> Seq(D)] /\ v \in D
        BY <2>1, <2>2, <2>3 DEF Stores
    <2>5. [b EXCEPT ![cm.Key] = <<v>>] \in [Key -> Seq(D)] /\ [b EXCEPT ![cm.Key] = Append(@, v)] \in [Key -> Seq(D)]
        BY <2>1, <2>4, SMT
    <2> QED
        BY <1>1, <2>2, <2>3, <2>5 DEF Executed, Stores
<1>3. CASE ~(cm \in Command /\ cm.Type \in {PutType, AppendType})
    BY <1>1, <1>3, Commands DEF Executed
<1> QED
    BY <1>2, <1>3

(* The contents are stores. *)
LEMMA ContentsType ==
    ASSUME NEW ch \in Seq(Ops)
    PROVE  \A n \in 0 .. Len(ch) : ContentsOf(ch)[n] \in Stores
<1> DEFINE B == {n \in 0 .. Len(ch) : ContentsOf(ch)[n] \notin Stores}
<1>1. SUFFICES ASSUME B # {} PROVE FALSE
    OBVIOUS
<1>2. Len(ch) \in Nat
    BY SeqFacts
<1>3. B \subseteq Nat
    BY <1>2, SMT
<1>4. PICK m \in B : \A k \in B : ~(k < m)
    BY <1>1, <1>3, LeastNat
<1>5. m \in 0 .. Len(ch) /\ ContentsOf(ch)[m] \notin Stores
    OBVIOUS
<1>6. CASE m = 0
    <2>1. Empty \in Stores
        BY SMT DEF Empty, Stores
    <2> QED
        BY <1>2, <1>5, <1>6, <2>1, ContentsUnfold
<1>7. CASE m # 0
    <2>1. m \in 1 .. Len(ch) /\ m - 1 \in 0 .. Len(ch) /\ m - 1 < m
        BY <1>2, <1>5, <1>7, SMT
    <2>2. ContentsOf(ch)[m - 1] \in Stores
        BY <1>4, <2>1
    <2>3. ContentsOf(ch)[m] = Executed(ch, m, ContentsOf(ch)[m - 1])
        BY <1>2, <2>1, ContentsUnfold
    <2> QED
        BY <1>5, <2>1, <2>2, <2>3, ExecutedStore
<1> QED
    BY <1>6, <1>7

(* What comes later does not change what the first commands produce. *)
LEMMA ContentsPrefix ==
    ASSUME NEW ch \in Seq(Ops), NEW d \in Seq(Ops), StartsWith(d, ch)
    PROVE  \A n \in 0 .. Len(ch) : ContentsOf(d)[n] = ContentsOf(ch)[n]
<1>1. Len(ch) \in Nat /\ Len(d) \in Nat /\ Len(ch) <= Len(d) /\ \A k \in 1 .. Len(ch) : d[k] = ch[k]
    BY SeqFacts DEF StartsWith
<1>2. \A n \in 1 .. Len(ch) : First(d, n) <=> First(ch, n)
    <2>1. TAKE n \in 1 .. Len(ch)
    <2>2. \A j \in 1 .. n - 1 : d[j] = ch[j] /\ d[n] = ch[n]
        BY <1>1, SMT
    <2> QED
        BY <2>2 DEF First
<1>3. \A n \in 1 .. Len(ch) : \A b : Executed(d, n, b) = Executed(ch, n, b)
    BY <1>1, <1>2 DEF Executed
<1> DEFINE B == {n \in 0 .. Len(ch) : ContentsOf(d)[n] # ContentsOf(ch)[n]}
<1>4. SUFFICES ASSUME B # {} PROVE FALSE
    OBVIOUS
<1>5. B \subseteq Nat
    BY <1>1, SMT
<1>6. PICK m \in B : \A k \in B : ~(k < m)
    BY <1>4, <1>5, LeastNat
<1>7. m \in 0 .. Len(ch) /\ ContentsOf(d)[m] # ContentsOf(ch)[m]
    OBVIOUS
<1>8. CASE m = 0
    BY <1>1, <1>7, <1>8, ContentsUnfold
<1>9. CASE m # 0
    <2>1. m \in 1 .. Len(ch) /\ m \in 1 .. Len(d) /\ m - 1 \in 0 .. Len(ch) /\ m - 1 < m
        BY <1>1, <1>7, <1>9, SMT
    <2>2. ContentsOf(d)[m - 1] = ContentsOf(ch)[m - 1]
        BY <1>6, <2>1
    <2>3. /\ ContentsOf(ch)[m] = Executed(ch, m, ContentsOf(ch)[m - 1])
          /\ ContentsOf(d)[m] = Executed(d, m, ContentsOf(d)[m - 1])
        BY <1>1, <2>1, ContentsUnfold
    <2> QED
        BY <1>3, <1>7, <2>1, <2>2, <2>3
<1> QED
    BY <1>8, <1>9

(* The number of a client is that of one of its commands, and no other is  *)
(* higher; it is 0 if there is none.                                       *)
IsNumber(ch, n, c, v) ==
    /\ \A j \in 1 .. n : ch[j] \in Command /\ ch[j].Id = c => ch[j].Num <= v
    /\ v # 0 => \E j \in 1 .. n : ch[j] \in Command /\ ch[j].Id = c /\ ch[j].Num = v
(* Numbers is the function of those numbers. *)
LEMMA NumbersFacts ==
    ASSUME NEW ch \in Seq(Ops), NEW n \in 0 .. Len(ch)
    PROVE  /\ NumbersOf(ch, n) \in [Client -> Nat]
           /\ \A c \in Client : IsNumber(ch, n, c, NumbersOf(ch, n)[c])
           /\ \A c \in Client, v \in Nat : IsNumber(ch, n, c, v) => v = NumbersOf(ch, n)[c]
<1>1. Len(ch) \in Nat /\ \A j \in 1 .. n : ch[j] \in Ops
    <2>1. \A j \in 1 .. n : j \in 1 .. Len(ch)
        BY SeqFacts, SMT
    <2> QED
        BY <2>1, SeqFacts
<1>2. ASSUME NEW c \in Client
      PROVE  NumbersOf(ch, n)[c] \in Nat /\ IsNumber(ch, n, c, NumbersOf(ch, n)[c])
    <2> DEFINE nums == {ch[k].Num : k \in {j \in 1 .. n : ch[j].Id = c}}
    <2>1. NumbersOf(ch, n)[c] = IF nums = {} THEN 0 ELSE CHOOSE x \in nums : \A y \in nums : y <= x
        BY DEF NumbersOf
    <2>2. \A j \in 1 .. n : ch[j].Id = c => ch[j] \in Command
        BY <1>1, Commands
    <2>3. nums \in SUBSET (0 .. MaxNum)
        <3>1. \A j \in 1 .. n : ch[j].Id = c => ch[j].Num \in Nat /\ ch[j].Num <= MaxNum
            BY <2>2, Commands
        <3> QED
            BY <3>1, Constants, SMT
    <2>4. CASE nums = {}
        <3>1. \A j \in 1 .. n : ~(ch[j].Id = c)
            BY <2>4
        <3>2. NumbersOf(ch, n)[c] = 0 /\ 0 \in Nat
            <4>1. 0 \in Nat
                BY SMT
            <4> QED
                BY <2>1, <2>4, <4>1
        <3> QED
            BY <3>1, <3>2 DEF IsNumber
    <2>5. CASE nums # {}
        <3>1. \E x \in nums : \A y \in nums : y <= x
            <4>1. PICK N : N = nums
                OBVIOUS
            <4>2. N \in SUBSET (0 .. MaxNum) /\ N # {} /\ MaxNum \in Nat
                BY <2>3, <2>5, <4>1, Constants
            <4>3. \E x \in N : \A y \in N : y <= x
                BY <4>2, GreatestNat
            <4> QED
                BY <4>1, <4>3
        <3>2. PICK x : x = NumbersOf(ch, n)[c]
            OBVIOUS
        <3>3. x \in nums /\ \A y \in nums : y <= x
            BY <2>1, <2>5, <3>1, <3>2
        <3>4. x \in Nat
            BY <2>3, <3>3, Constants, SMT
        <3> QED
            BY <2>2, <3>2, <3>3, <3>4 DEF IsNumber
    <2> QED
        BY <2>4, <2>5
<1>3. NumbersOf(ch, n) \in [Client -> Nat]
    <2> DEFINE V(c) == LET nums == {ch[k].Num : k \in {j \in 1 .. n : ch[j].Id = c}}
                       IN  IF nums = {} THEN 0 ELSE CHOOSE x \in nums : \A y \in nums : y <= x
    <2>1. NumbersOf(ch, n) = [c \in Client |-> V(c)]
        BY DEF NumbersOf
    <2> HIDE DEF V
    <2>2. \A c \in Client : V(c) \in Nat
        BY <1>2, <2>1
    <2> QED
        BY <2>1, <2>2
<1>4. ASSUME NEW c \in Client, NEW v \in Nat, NEW w \in Nat, IsNumber(ch, n, c, v), IsNumber(ch, n, c, w)
      PROVE  v <= w
    <2>1. CASE v = 0
        BY <2>1, SMT
    <2>2. CASE v # 0
        BY <1>4, <2>2 DEF IsNumber
    <2> QED
        BY <2>1, <2>2
<1>5. ASSUME NEW c \in Client, NEW v \in Nat, IsNumber(ch, n, c, v)
      PROVE  v = NumbersOf(ch, n)[c]
    <2>1. PICK w \in Nat : w = NumbersOf(ch, n)[c]
        BY <1>2
    <2>2. v <= w /\ w <= v
        BY <1>2, <1>4, <1>5, <2>1
    <2> QED
        BY <2>1, <2>2, SMT
<1> QED
    BY <1>2, <1>3, <1>5

(* Nor does it change the numbers of the clients. *)
LEMMA NumbersPrefix ==
    ASSUME NEW ch \in Seq(Ops), NEW d \in Seq(Ops), StartsWith(d, ch)
    PROVE  \A n \in 0 .. Len(ch) : NumbersOf(d, n) = NumbersOf(ch, n)
<1>1. TAKE n \in 0 .. Len(ch)
<1>2. Len(ch) \in Nat
    BY SeqFacts
<1>3. \A j \in 1 .. n : j \in 1 .. Len(ch)
    BY <1>2, SMT
<1>4. \A j \in 1 .. n : d[j] = ch[j]
    BY <1>3 DEF StartsWith
<1> DEFINE N(q, c) == {q[k].Num : k \in {j \in 1 .. n : q[j].Id = c}}
           V(S) == IF S = {} THEN 0 ELSE CHOOSE x \in S : \A y \in S : y <= x
<1>5. \A c \in Client : N(d, c) = N(ch, c)
    BY <1>4
<1>6. NumbersOf(d, n) = [c \in Client |-> V(N(d, c))] /\ NumbersOf(ch, n) = [c \in Client |-> V(N(ch, c))]
    BY DEF NumbersOf
<1> HIDE DEF N, V
<1> QED
    BY <1>5, <1>6

(* A later index has no lower numbers. *)
LEMMA NumbersGrow ==
    ASSUME NEW ch \in Seq(Ops), NEW m \in 0 .. Len(ch), NEW n \in 0 .. m, NEW c \in Client
    PROVE  NumbersOf(ch, n)[c] <= NumbersOf(ch, m)[c]
<1>1. Len(ch) \in Nat
    BY SeqFacts
<1>2. n \in 0 .. Len(ch) /\ \A j \in 1 .. n : j \in 1 .. m
    BY <1>1, SMT
<1>3. PICK v \in Nat : v = NumbersOf(ch, n)[c] /\ IsNumber(ch, n, c, v)
    BY <1>2, NumbersFacts
<1>4. PICK w \in Nat : w = NumbersOf(ch, m)[c] /\ IsNumber(ch, m, c, w)
    BY NumbersFacts
<1>5. CASE v = 0
    BY <1>3, <1>4, <1>5, SMT
<1>6. CASE v # 0
    BY <1>2, <1>3, <1>4, <1>6 DEF IsNumber
<1> QED
    BY <1>5, <1>6

(* A client has one command of each number. *)
Unique(ch) ==
    \A i, j \in 1 .. Len(ch) :
        ch[i] \in Command /\ ch[j] \in Command /\ ch[i].Id = ch[j].Id /\ ch[i].Num = ch[j].Num => ch[i] = ch[j]

(* Applying the command at the index that was applied last, or at the next *)
(* one: it sets the client's number, and it is the first of its copies     *)
(* exactly when the client's number is lower.                              *)
LEMMA ApplyNumbers ==
    ASSUME NEW ch \in Seq(Ops), Ordered(ch), NEW n \in 0 .. Len(ch), NEW k \in 1 .. Len(ch), k = n \/ k = n + 1
    PROVE  /\ ch[k] \in Command => NumbersOf(ch, k) = [NumbersOf(ch, n) EXCEPT ![ch[k].Id] = ch[k].Num]
           /\ ch[k] \notin Command => NumbersOf(ch, k) = NumbersOf(ch, n)
<1>1. Len(ch) \in Nat /\ k \in 0 .. Len(ch) /\ n \in Nat
    BY SeqFacts, SMT
<1>2. /\ \A j \in 1 .. k : j \in 1 .. Len(ch) /\ j <= k /\ (j = k \/ j \in 1 .. n)
      /\ \A j \in 1 .. n : j \in 1 .. k
      /\ k \in 1 .. k
    BY <1>1, SMT
<1>3. NumbersOf(ch, n) \in [Client -> Nat] /\ \A c \in Client : IsNumber(ch, n, c, NumbersOf(ch, n)[c])
    BY NumbersFacts
<1>4. NumbersOf(ch, k) \in [Client -> Nat]
      /\ \A c \in Client, v \in Nat : IsNumber(ch, k, c, v) => v = NumbersOf(ch, k)[c]
    BY <1>1, NumbersFacts
<1>5. ASSUME NEW c \in Client, ~(ch[k] \in Command /\ ch[k].Id = c)
      PROVE  NumbersOf(ch, k)[c] = NumbersOf(ch, n)[c]
    <2>1. PICK v \in Nat : v = NumbersOf(ch, n)[c] /\ IsNumber(ch, n, c, v)
        BY <1>3
    <2>2. IsNumber(ch, k, c, v)
        BY <1>2, <1>5, <2>1 DEF IsNumber
    <2> QED
        BY <1>4, <2>1, <2>2
<1>6. ASSUME ch[k] \in Command
      PROVE  NumbersOf(ch, k)[ch[k].Id] = ch[k].Num
    <2>1. ch[k].Id \in Client /\ ch[k].Num \in Nat
        BY <1>6, Commands
    <2>2. IsNumber(ch, k, ch[k].Id, ch[k].Num)
        BY <1>2, <1>6 DEF IsNumber, Ordered
    <2> QED
        BY <1>4, <2>1, <2>2
<1>7. ASSUME NEW f \in [Client -> Nat], NEW g \in [Client -> Nat], NEW c \in Client, NEW v \in Nat,
             f[c] = v, \A e \in Client : e # c => f[e] = g[e]
      PROVE  f = [g EXCEPT ![c] = v]
    BY <1>7, SMT
<1>8. ASSUME NEW f \in [Client -> Nat], NEW g \in [Client -> Nat], \A e \in Client : f[e] = g[e]
      PROVE  f = g
    BY <1>8, SMT
<1>9. CASE ch[k] \in Command
    <2>1. ch[k].Id \in Client /\ ch[k].Num \in Nat
        BY <1>9, Commands
    <2>2. PICK f \in [Client -> Nat], g \in [Client -> Nat] : f = NumbersOf(ch, k) /\ g = NumbersOf(ch, n)
        BY <1>3, <1>4
    <2>3. f[ch[k].Id] = ch[k].Num /\ \A e \in Client : e # ch[k].Id => f[e] = g[e]
        BY <1>5, <1>6, <1>9, <2>2
    <2>4. f = [g EXCEPT ![ch[k].Id] = ch[k].Num]
        BY <1>7, <2>1, <2>3
    <2> QED
        BY <1>9, <2>2, <2>4
<1>10. CASE ch[k] \notin Command
    BY <1>3, <1>4, <1>5, <1>8, <1>10
<1> QED
    BY <1>9, <1>10

(* The Applier's test of a client's number finds whether a command is the  *)
(* first of its copies.                                                    *)
LEMMA ApplyContents ==
    ASSUME NEW ch \in Seq(Ops), Ordered(ch), Unique(ch),
           NEW n \in 0 .. Len(ch), NEW k \in 1 .. Len(ch), k = n \/ k = n + 1
    PROVE  /\ ch[k].Type \notin {PutType, AppendType} => ContentsOf(ch)[k] = ContentsOf(ch)[n]
           /\ ch[k] \in Command /\ ~(NumbersOf(ch, n)[ch[k].Id] < ch[k].Num) =>
                 /\ ContentsOf(ch)[k] = ContentsOf(ch)[n]
                 /\ NumbersOf(ch, n)[ch[k].Id] = ch[k].Num
           /\ ch[k] \in Command /\ NumbersOf(ch, n)[ch[k].Id] < ch[k].Num => k = n + 1 /\ First(ch, k)
<1>1. Len(ch) \in Nat /\ n \in Nat
    BY SeqFacts, SMT
<1>2. \A j \in 1 .. n : j \in 1 .. Len(ch) /\ j <= k
    BY <1>1, SMT
<1>3. ContentsOf(ch)[k] = Executed(ch, k, ContentsOf(ch)[k - 1])
    BY <1>1, ContentsUnfold
<1>4. k = n + 1 => k - 1 = n
    BY <1>1, SMT
<1>5. ASSUME ch[k].Type \notin {PutType, AppendType}
      PROVE  ContentsOf(ch)[k] = ContentsOf(ch)[n]
    BY <1>3, <1>4, <1>5 DEF Executed
<1>6. ASSUME ch[k] \in Command
      PROVE  /\ ~(NumbersOf(ch, n)[ch[k].Id] < ch[k].Num) =>
                    ContentsOf(ch)[k] = ContentsOf(ch)[n] /\ NumbersOf(ch, n)[ch[k].Id] = ch[k].Num
             /\ NumbersOf(ch, n)[ch[k].Id] < ch[k].Num => k = n + 1 /\ First(ch, k)
    <2>1. PICK cm \in Command : cm = ch[k]
        BY <1>6
    <2>2. cm.Id \in Client /\ cm.Num \in Nat /\ cm.Num >= 1
        BY <2>1, Commands
    <2>3. PICK v \in Nat : v = NumbersOf(ch, n)[cm.Id] /\ IsNumber(ch, n, cm.Id, v)
        BY <2>2, NumbersFacts
    <2>4. ASSUME ~(v < cm.Num)
          PROVE  ContentsOf(ch)[k] = ContentsOf(ch)[n] /\ v = cm.Num
        <3>1. v # 0 /\ v >= cm.Num
            BY <2>2, <2>4, SMT
        <3>2. PICK j \in 1 .. n : ch[j] \in Command /\ ch[j].Id = cm.Id /\ ch[j].Num = v
            BY <2>3, <3>1 DEF IsNumber
        <3>3. v <= cm.Num
            BY <1>2, <2>1, <3>2 DEF Ordered
        <3>4. v = cm.Num
            BY <2>2, <3>1, <3>3, SMT
        <3>5. ch[j] = ch[k]
            BY <1>2, <2>1, <3>2, <3>4 DEF Unique
        <3>6. CASE k = n
            BY <3>4, <3>6
        <3>7. CASE k = n + 1
            <4>1. j \in 1 .. k - 1
                BY <3>7, <1>1, SMT
            <4>2. ~First(ch, k)
                BY <3>5, <4>1 DEF First
            <4> QED
                BY <1>3, <1>4, <3>4, <3>7, <4>2 DEF Executed
        <3> QED
            BY <3>6, <3>7
    <2>5. ASSUME v < cm.Num
          PROVE  k = n + 1 /\ First(ch, k)
        <3>1. ASSUME NEW j \in 1 .. n PROVE ch[j] # ch[k]
            <4>1. SUFFICES ASSUME ch[j] = ch[k] PROVE FALSE
                OBVIOUS
            <4>2. cm.Num <= v
                BY <2>1, <2>3, <4>1 DEF IsNumber
            <4> QED
                BY <2>2, <2>5, <4>2, SMT
        <3>2. k = n + 1
            <4>1. k = n => k \in 1 .. n
                BY <1>1, SMT
            <4> QED
                BY <3>1, <4>1
        <3>3. First(ch, k)
            BY <1>4, <3>1, <3>2 DEF First
        <3> QED
            BY <3>2, <3>3
    <2> QED
        BY <2>1, <2>3, <2>4, <2>5
<1> QED
    BY <1>5, <1>6

(* The elements of q are values of the first n commands, each there once. *)
Once(ch, n, q) ==
    /\ \A i \in 1 .. Len(q) : \E j \in 1 .. n : ch[j] \in Command /\ q[i] = Value(ch[j])
    /\ \A i, j \in 1 .. Len(q) : q[i] = q[j] => i = j

(* Executing one more command, if it is the first of its copies, adds a    *)
(* value that is not there yet.                                            *)
LEMMA ExecutedOnce ==
    ASSUME NEW ch \in Seq(Ops), Unique(ch), NEW n \in 1 .. Len(ch), NEW b \in Stores,
           \A key \in Key : Once(ch, n - 1, b[key]), NEW k \in Key
    PROVE  Once(ch, n, Executed(ch, n, b)[k])
<1>1. Len(ch) \in Nat /\ n \in 1 .. n /\ \A j \in 1 .. n - 1 : j \in 1 .. n
    BY SeqFacts, SMT
<1>2. Once(ch, n, b[k])
    BY <1>1 DEF Once
<1>3. CASE Executed(ch, n, b) = b
    BY <1>2, <1>3
<1>4. CASE Executed(ch, n, b) # b
    <2>1. PICK cm : cm = ch[n] /\ cm \in Ops
        BY SeqFacts
    <2>2. cm \in Command /\ First(ch, n) /\ cm.Type \in {PutType, AppendType}
        BY <1>4, <2>1, Commands DEF Executed
    <2>3. PICK v : v = Value(cm)
        OBVIOUS
    <2>4. PICK D : D = Client \X (1 .. MaxNum)
        OBVIOUS
    <2>5. cm.Key \in Key /\ v \in D
        BY <2>2, <2>3, <2>4, SMT DEF Command, Value
    <2>6. b \in [Key -> Seq(D)] /\ b[k] \in Seq(D)
        BY <2>4 DEF Stores
    <2>7. PICK q \in Seq(D) : q = b[k]
        BY <2>6
    <2>8. CASE k # cm.Key
        <3>1. Executed(ch, n, b)[k] = b[k]
            BY <2>1, <2>5, <2>6, <2>8 DEF Executed
        <3> QED
            BY <1>2, <3>1
    <2>9. CASE k = cm.Key /\ cm.Type = PutType
        <3>1. Executed(ch, n, b)[k] = <<v>>
            BY <2>1, <2>2, <2>3, <2>5, <2>6, <2>9 DEF Executed
        <3>2. Len(<<v>>) = 1 /\ <<v>>[1] = v /\ \A i \in 1 .. 1 : i = 1
            BY SMT
        <3> QED
            BY <1>1, <2>1, <2>2, <2>3, <3>1, <3>2 DEF Once
    <2>10. CASE k = cm.Key /\ cm.Type # PutType
        <3>1. Executed(ch, n, b)[k] = Append(q, v)
            BY <2>1, <2>2, <2>3, <2>5, <2>6, <2>7, <2>10 DEF Executed
        <3>2. \A i \in 1 .. Len(q) : q[i] # v
            <4>1. SUFFICES ASSUME NEW i \in 1 .. Len(q), q[i] = v PROVE FALSE
                OBVIOUS
            <4>2. PICK j \in 1 .. n - 1 : ch[j] \in Command /\ q[i] = Value(ch[j])
                BY <2>7, <4>1 DEF Once
            <4>3. ch[j].Id = cm.Id /\ ch[j].Num = cm.Num
                BY <2>3, <4>1, <4>2, SMT DEF Value
            <4>4. j \in 1 .. Len(ch)
                BY <1>1, SMT
            <4>5. ch[j] = ch[n]
                BY <2>1, <2>2, <4>2, <4>3, <4>4 DEF Unique
            <4> QED
                BY <2>2, <4>5 DEF First
        <3>3. PICK p : p = Append(q, v)
            OBVIOUS
        <3>4. /\ Len(q) \in Nat /\ Len(p) = Len(q) + 1 /\ p[Len(q) + 1] = v
              /\ \A i \in 1 .. Len(q) : p[i] = q[i]
            BY <2>5, <3>3, AppendFacts, SeqFacts
        <3>5. \A i \in 1 .. Len(p) : i \in 1 .. Len(q) \/ i = Len(q) + 1
            BY <3>4, SMT
        <3>6. \A i \in 1 .. Len(p) : \E j \in 1 .. n : ch[j] \in Command /\ p[i] = Value(ch[j])
            <4>1. \A i \in 1 .. Len(q) : \E j \in 1 .. n : ch[j] \in Command /\ q[i] = Value(ch[j])
                BY <1>2, <2>7 DEF Once
            <4>2. ch[n] \in Command /\ p[Len(q) + 1] = Value(ch[n])
                BY <2>1, <2>2, <2>3, <3>4
            <4> QED
                BY <1>1, <3>4, <3>5, <4>1, <4>2
        <3>7. \A i, j \in 1 .. Len(p) : p[i] = p[j] => i = j
            BY <1>2, <2>7, <3>2, <3>4, <3>5 DEF Once
        <3>8. Once(ch, n, p)
            BY <3>6, <3>7 DEF Once
        <3> QED
            BY <3>1, <3>3, <3>8
    <2> QED
        BY <2>8, <2>9, <2>10
<1> QED
    BY <1>3, <1>4

(* The first n commands leave each value at most once under a key. *)
LEMMA ContentsOnce ==
    ASSUME NEW ch \in Seq(Ops), Unique(ch)
    PROVE  \A n \in 0 .. Len(ch) : \A key \in Key : Once(ch, n, ContentsOf(ch)[n][key])
<1> DEFINE B == {n \in 0 .. Len(ch) : ~\A key \in Key : Once(ch, n, ContentsOf(ch)[n][key])}
<1>1. SUFFICES ASSUME B # {} PROVE FALSE
    OBVIOUS
<1>2. Len(ch) \in Nat
    BY SeqFacts
<1>3. B \subseteq Nat
    BY <1>2, SMT
<1>4. PICK m \in B : \A k \in B : ~(k < m)
    BY <1>1, <1>3, LeastNat
<1>5. m \in 0 .. Len(ch) /\ ~\A key \in Key : Once(ch, m, ContentsOf(ch)[m][key])
    OBVIOUS
<1>6. CASE m = 0
    <2>1. \A key \in Key : Empty[key] = <<>>
        BY DEF Empty
    <2>2. Once(ch, 0, <<>>)
        BY SMT DEF Once
    <2> QED
        BY <1>2, <1>5, <1>6, <2>1, <2>2, ContentsUnfold
<1>7. CASE m # 0
    <2>1. m \in 1 .. Len(ch) /\ m - 1 \in 0 .. Len(ch) /\ m - 1 < m
        BY <1>2, <1>5, <1>7, SMT
    <2>2. \A key \in Key : Once(ch, m - 1, ContentsOf(ch)[m - 1][key])
        BY <1>4, <2>1
    <2>3. ContentsOf(ch)[m] = Executed(ch, m, ContentsOf(ch)[m - 1]) /\ ContentsOf(ch)[m - 1] \in Stores
        BY <1>2, <2>1, ContentsUnfold, ContentsType
    <2> QED
        BY <1>5, <2>1, <2>2, <2>3, ExecutedOnce
<1> QED
    BY <1>6, <1>7

(* The result at an index does not change either, and is what a handler    *)
(* takes.                                                                  *)
LEMMA ResultPrefix ==
    ASSUME NEW ch \in Seq(Ops), NEW d \in Seq(Ops), StartsWith(d, ch)
    PROVE  \A k \in 1 .. Len(ch) : ResultAt(d, k) = ResultAt(ch, k)
<1>1. TAKE k \in 1 .. Len(ch)
<1>2. k \in 0 .. Len(ch)
    BY SeqFacts, SMT
<1>3. ContentsOf(d)[k] = ContentsOf(ch)[k] /\ d[k] = ch[k]
    BY <1>2, ContentsPrefix DEF StartsWith
<1> QED
    BY <1>3 DEF ResultAt

(* The fields of a result. *)
LEMMA ResultFacts ==
    ASSUME NEW ch \in Seq(Ops), NEW k \in 1 .. Len(ch)
    PROVE  /\ ResultAt(ch, k) \in Ops \cup Found
           /\ ResultAt(ch, k).Type # DiscardType
           /\ \A op \in Command : SameCommand(ResultAt(ch, k), op) =>
                 /\ ch[k] \in Command /\ ch[k].Id = op.Id /\ ch[k].Num = op.Num
                 /\ op.Type = GetType => ResultAt(ch, k).Value = ContentsOf(ch)[k][ch[k].Key]
                                         /\ ResultAt(ch, k).Value \in Values
<1>1. k \in 0 .. Len(ch) /\ ch[k] \in Ops
    BY SeqFacts, SMT
<1>2. PICK cm \in Ops : cm = ch[k]
    BY <1>1
<1>3. PICK res : res = ResultAt(ch, k)
    OBVIOUS
<1>4. CASE cm.Type # GetType
    <2>1. res = cm
        BY <1>2, <1>3, <1>4 DEF ResultAt
    <2>2. cm.Type # DiscardType
        <3>1. NoopType # DiscardType /\ DiscardType \notin {GetType, PutType, AppendType}
            BY SMT DEF NoopType, DiscardType, GetType, PutType, AppendType
        <3> QED
            BY <3>1, Commands
    <2>3. ASSUME NEW op \in Command, SameCommand(cm, op)
          PROVE  cm \in Command /\ cm.Id = op.Id /\ cm.Num = op.Num /\ op.Type # GetType
        BY <1>4, <2>3, Commands DEF SameCommand
    <2> QED
        BY <1>2, <1>3, <2>1, <2>2, <2>3
<1>5. CASE cm.Type = GetType
    <2>1. cm \in Command
        BY <1>5, Commands
    <2>2. PICK v : v = ContentsOf(ch)[k][cm.Key]
        OBVIOUS
    <2>3. v \in Values
        BY <1>1, <2>1, <2>2, ContentsType, Commands DEF Stores, Values
    <2>4. res = [Id |-> cm.Id, Num |-> cm.Num, Key |-> cm.Key, Value |-> v,
                 Type |-> IF v = <<>> THEN NoKeyType ELSE GetType]
        BY <1>2, <1>3, <1>5, <2>2 DEF ResultAt
    <2>5. /\ res.Id = cm.Id /\ res.Num = cm.Num /\ res.Value = v /\ res.Type \in {NoKeyType, GetType}
          /\ res.Type # DiscardType
        BY <2>4, SMT DEF NoKeyType, GetType, DiscardType
    <2>6. res \in Found
        <3>1. cm.Id \in Client /\ cm.Num \in 1 .. MaxNum /\ cm.Key \in Key
            BY <2>1, SMT DEF Command
        <3> QED
            BY <2>3, <2>4, <3>1, SMT DEF Found
    <2> QED
        BY <1>2, <1>3, <2>1, <2>2, <2>3, <2>5, <2>6 DEF SameCommand
<1> QED
    BY <1>4, <1>5

-----------------------------------------------------------------------------
(* What a state of the invariant is like *)

(* What is applied at a server is committed there, and chosen. *)
LEMMA Lengths ==
    ASSUME ServiceInv, NEW s \in Server
    PROVE  /\ Len(chosen) \in Nat /\ Len(log[s]) \in Nat /\ log[s] \in Seq(Ops) /\ chosen \in Seq(Ops)
           /\ commit[s] \in Nat /\ lastApplied[s] \in Nat /\ applyCh[s] \in Seq(Nat)
           /\ commit[s] <= Len(chosen) /\ lastApplied[s] <= Len(chosen)
           /\ lastApplied[s] \in 0 .. Len(chosen)
           /\ mp[s] = ContentsOf(chosen)[lastApplied[s]] /\ CliMap[s] = NumbersOf(chosen, lastApplied[s])
<1>1. /\ log[s] \in Seq(Ops) /\ chosen \in Seq(Ops) /\ commit[s] \in Nat /\ lastApplied[s] \in Nat
      /\ applyCh[s] \in Seq(Nat)
    BY DEF ServiceInv, Types
<1>2. Len(chosen) \in Nat /\ Len(log[s]) \in Nat
    BY <1>1, SeqFacts
<1>3. commit[s] <= Len(chosen) /\ lastApplied[s] <= commit[s]
    BY DEF ServiceInv, ApplyInv, Feeds
<1>4. lastApplied[s] <= Len(chosen) /\ lastApplied[s] \in 0 .. Len(chosen)
    BY <1>1, <1>2, <1>3, SMT
<1>5. mp[s] = ContentsOf(chosen)[lastApplied[s]] /\ CliMap[s] = NumbersOf(chosen, lastApplied[s])
    BY DEF ServiceInv, StoreInv, Contents, Numbers
<1> QED
    BY <1>1, <1>2, <1>3, <1>4, <1>5

(* The chosen commands are placed. *)
LEMMA ChosenUnique ==
    ASSUME OpsInv
    PROVE  Unique(chosen)
<1>1. \A k \in 1 .. Len(chosen) : Placed(chosen[k])
    BY DEF Placed
<1> QED
    BY <1>1 DEF OpsInv, Unique

(* The fields of a call. *)
LEMMA CallFields ==
    ASSUME NEW r \in CallRec
    PROVE  /\ r # Unused /\ r.st # "none" /\ r.op \in Command /\ r.server \in Server /\ r.index \in 0 .. MaxLog
           /\ r.cm \in Ops \cup Found /\ r.live \in BOOLEAN
           /\ r.Err \in Errs /\ r.Value \in Values
           /\ r.st \in {"sent", "started", "reading", "waiting", "woken", "replied", "dead"}
<1>1. /\ r.op \in Command /\ r.server \in Server /\ r.index \in 0 .. MaxLog
      /\ r.cm \in Ops \cup Found /\ r.live \in BOOLEAN /\ r.Err \in Errs /\ r.Value \in Values
      /\ r.st \in {"sent", "started", "reading", "waiting", "woken", "replied", "dead"}
    BY DEF CallRec, States
<1>2. r.st # "none"
    BY <1>1
<1>3. Unused.st = "none"
    BY SMT DEF Unused
<1> QED
    BY <1>1, <1>2, <1>3

(* A call in another state: nothing else changes. *)
LEMMA SetSt ==
    ASSUME NEW q \in CallRec, NEW v \in States
    PROVE  LET r == [q EXCEPT !.st = v]
           IN  /\ r \in CallRec /\ r.st = v /\ r.op = q.op /\ r.server = q.server /\ r.index = q.index /\ r.cm = q.cm
               /\ r.Err = q.Err /\ r.Value = q.Value /\ r.live = q.live
BY DEF CallRec

(* A call that has an index. *)
LEMMA SetIndex ==
    ASSUME NEW q \in CallRec, NEW v \in 0 .. MaxLog
    PROVE  LET r == [q EXCEPT !.index = v]
           IN  /\ r \in CallRec /\ r.st = q.st /\ r.op = q.op /\ r.server = q.server /\ r.index = v /\ r.cm = q.cm
               /\ r.Err = q.Err /\ r.Value = q.Value /\ r.live = q.live
BY DEF CallRec

(* A call that has received the result of a command. *)
LEMMA SetCm ==
    ASSUME NEW q \in CallRec, NEW v \in Ops \cup Found
    PROVE  LET r == [q EXCEPT !.cm = v]
           IN  /\ r \in CallRec /\ r.st = q.st /\ r.op = q.op /\ r.server = q.server /\ r.index = q.index /\ r.cm = v
               /\ r.Err = q.Err /\ r.Value = q.Value /\ r.live = q.live
BY DEF CallRec

(* A call that has an answer. *)
LEMMA SetErr ==
    ASSUME NEW q \in CallRec, NEW v \in Errs
    PROVE  LET r == [q EXCEPT !.Err = v]
           IN  /\ r \in CallRec /\ r.st = q.st /\ r.op = q.op /\ r.server = q.server /\ r.index = q.index /\ r.cm = q.cm
               /\ r.Err = v /\ r.Value = q.Value /\ r.live = q.live
BY DEF CallRec

(* A call that has a value. *)
LEMMA SetValue ==
    ASSUME NEW q \in CallRec, NEW v \in Values
    PROVE  LET r == [q EXCEPT !.Value = v]
           IN  /\ r \in CallRec /\ r.st = q.st /\ r.op = q.op /\ r.server = q.server /\ r.index = q.index /\ r.cm = q.cm
               /\ r.Err = q.Err /\ r.Value = v /\ r.live = q.live
BY DEF CallRec

(* A call that nobody waits for any more. *)
LEMMA SetLive ==
    ASSUME NEW q \in CallRec
    PROVE  LET r == [q EXCEPT !.live = FALSE]
           IN  /\ r \in CallRec /\ r.st = q.st /\ r.op = q.op /\ r.server = q.server /\ r.index = q.index /\ r.cm = q.cm
               /\ r.Err = q.Err /\ r.Value = q.Value /\ r.live = FALSE
BY DEF CallRec

(* The channels. *)
LEMMA ChannelState ==
    ASSUME ServiceInv, NEW s \in Server, NEW k \in 1 .. MaxLog, NEW h \in ClientCh[s][k]
    PROVE  h \in Call /\ handler[h].st = "waiting" /\ handler[h].server = s /\ handler[h].index = k
<1>1. ChannelInv /\ ClientCh \in [Server -> [1 .. MaxLog -> SUBSET Call]]
    BY DEF ServiceInv, Types
<1>2. handler[h].st = "waiting" /\ handler[h].server = s /\ handler[h].index = k
    <2>1. ChannelInv
        BY <1>1
    <2> QED
        BY <2>1 DEF ChannelInv
<1> QED
    BY <1>1, <1>2

(* The calls. *)
LEMMA CallState ==
    ASSUME ServiceInv, NEW h \in Call
    PROVE  /\ handler[h] \in {Unused} \cup CallRec
           /\ handler[h].st # "none" => handler[h] # Unused /\ handler[h] \in CallRec
           /\ handler[h] # Unused => handler[h] \in CallRec /\ CallAt(h, handler[h]) /\ handler[h].st # "none"
           /\ h[1] \in Client /\ h[2] \in Slot /\ h = <<h[1], h[2]>>
<1>1. handler[h] \in {Unused} \cup CallRec
    BY DEF ServiceInv, Types
<1>2. Unused.st = "none"
    BY SMT DEF Unused
<1>3. handler[h] # Unused => CallAt(h, handler[h])
    BY DEF ServiceInv, CallInv
<1>4. h[1] \in Client /\ h[2] \in Slot /\ h = <<h[1], h[2]>>
    BY SMT DEF Call
<1> QED
    BY <1>1, <1>2, <1>3, <1>4, CallFields

(* A command that a server finds applied while its clerk waits is chosen,  *)
(* since the clerk issued it.                                              *)
LEMMA UsedChosen ==
    ASSUME ServiceInv, NEW s \in Server, NEW x \in Command, Placed(x), x.Num = clerk[x.Id].number, Used(s, x)
    PROVE  \E j \in 1 .. lastApplied[s] : chosen[j] = x /\ j \in 1 .. Len(chosen) /\ since[x.Id] <= j
<1>1. x.Id \in Client /\ x.Num \in Nat /\ x.Num >= 1
    BY Commands
<1>2. PICK n \in Nat : n = lastApplied[s] /\ n \in 0 .. Len(chosen)
    BY Lengths
<1>3. PICK v \in Nat : v = CliMap[s][x.Id] /\ IsNumber(chosen, n, x.Id, v)
    <2>1. CliMap[s] = NumbersOf(chosen, n) /\ chosen \in Seq(Ops)
        BY <1>2, Lengths
    <2>2. NumbersOf(chosen, n)[x.Id] \in Nat /\ IsNumber(chosen, n, x.Id, NumbersOf(chosen, n)[x.Id])
        BY <1>1, <1>2, <2>1, NumbersFacts
    <2> QED
        BY <2>1, <2>2
<1>4. v >= x.Num /\ v # 0
    <2>1. v >= x.Num
        BY <1>3 DEF Used
    <2> QED
        BY <1>1, <2>1, SMT
<1>5. PICK j \in 1 .. n : chosen[j] \in Command /\ chosen[j].Id = x.Id /\ chosen[j].Num = v
    BY <1>3, <1>4 DEF IsNumber
<1>6. j \in 1 .. Len(chosen)
    BY <1>2, Lengths, SMT
<1>7. Placed(chosen[j])
    BY <1>6 DEF Placed
<1>8. v <= x.Num
    BY <1>5, <1>7 DEF ServiceInv, OpsInv
<1>9. v = x.Num
    BY <1>1, <1>4, <1>8, SMT
<1>10. chosen[j] = x
    BY <1>5, <1>7, <1>9 DEF ServiceInv, OpsInv
<1>11. since[x.Id] <= j
    BY <1>1, <1>6, <1>10 DEF ServiceInv, SinceInv
<1> QED
    BY <1>2, <1>6, <1>10, <1>11

-----------------------------------------------------------------------------
(* What steps have in common *)

(* No command is new. *)
LEMMA OpsKeeps ==
    ASSUME OpsInv, \A x \in Command : Placed(x)' => Placed(x), \A c \in Client : clerk'[c].number = clerk[c].number
    PROVE  OpsInv'
BY Commands DEF OpsInv

(* What is chosen stays, and so does what a call has seen of it. *)
LEMMA CallKeeps ==
    ASSUME chosen \in Seq(Ops), chosen' \in Seq(Ops), StartsWith(chosen', chosen),
           NEW h \in Call, since[h[1]] \in Nat, NEW r, CallAt(h, r),
           clerk'[h[1]] = clerk[h[1]], since'[h[1]] = since[h[1]],
           r.st = "reading" /\ CliMap[r.server][r.op.Id] >= r.op.Num => CliMap'[r.server][r.op.Id] >= r.op.Num
    PROVE  CallAt(h, r)'
<1>1. Len(chosen) \in Nat /\ Len(chosen') \in Nat /\ Len(chosen) <= Len(chosen')
    BY SeqFacts DEF StartsWith
<1>2. \A k \in 1 .. Len(chosen) : k \in 1 .. Len(chosen') /\ chosen'[k] = chosen[k]
    BY <1>1, SMT DEF StartsWith
<1>3. \A k \in 1 .. Len(chosen) : ResultAt(chosen', k) = ResultAt(chosen, k)
    BY ResultPrefix
<1>4. \A k \in since[h[1]] .. Len(chosen) : k \in 0 .. Len(chosen) /\ k \in since[h[1]] .. Len(chosen')
    BY <1>1, SMT
<1>5. \A k \in since[h[1]] .. Len(chosen) : ContentsOf(chosen')[k] = ContentsOf(chosen)[k]
    BY <1>4, ContentsPrefix
<1>6. OKed(h, r) => OKed(h, r)'
    <2>1. SUFFICES ASSUME OKed(h, r) PROVE OKed(h, r)'
        OBVIOUS
    <2>2. \E k \in 1 .. Len(chosen') : chosen'[k] = r.op
        BY <1>2, <2>1 DEF OKed
    <2>3. r.op.Type = GetType => \E k \in since[h[1]] .. Len(chosen') : ContentsOf(chosen')[k][r.op.Key] = r.Value
        BY <1>4, <1>5, <2>1 DEF OKed, Contents
    <2> QED
        BY <2>2, <2>3 DEF OKed, Contents
<1>7. r.st = "woken" => \E k \in 1 .. Len(chosen') : r.cm = ResultAt(chosen', k)
    BY <1>2, <1>3 DEF CallAt
<1>8. r.st = "reading" => r.op.Type = GetType /\ Used(r.server, r.op)'
    BY DEF CallAt, Used
<1> QED
    BY <1>6, <1>7, <1>8 DEF CallAt

(* The stores, and the results the Appliers hold, are those of what is     *)
(* chosen now.                                                             *)
LEMMA StoreKeeps ==
    ASSUME ServiceInv, chosen' \in Seq(Ops), StartsWith(chosen', chosen), UNCHANGED <<mp, CliMap, lastApplied>>
    PROVE  StoreInv' /\ (applier' = applier => HandInv')
<1>1. chosen \in Seq(Ops) /\ \A s \in Server : lastApplied[s] \in 0 .. Len(chosen)
    BY Lengths DEF ServiceInv, Types
<1>2. \A s \in Server : /\ ContentsOf(chosen')[lastApplied[s]] = ContentsOf(chosen)[lastApplied[s]]
                        /\ NumbersOf(chosen', lastApplied[s]) = NumbersOf(chosen, lastApplied[s])
    BY <1>1, ContentsPrefix, NumbersPrefix
<1>3. /\ mp = [s \in Server |-> ContentsOf(chosen)[lastApplied[s]]]
      /\ CliMap = [s \in Server |-> NumbersOf(chosen, lastApplied[s])]
    BY DEF ServiceInv, StoreInv, Contents, Numbers
<1>4. /\ mp' = [s \in Server |-> ContentsOf(chosen')[lastApplied'[s]]]
      /\ CliMap' = [s \in Server |-> NumbersOf(chosen', lastApplied'[s])]
    BY <1>2, <1>3
<1>5. StoreInv'
    BY <1>4 DEF StoreInv, Contents, Numbers
<1>6. ASSUME applier' = applier PROVE HandInv'
    <2>1. \A k \in 1 .. Len(chosen) : k \in 1 .. Len(chosen') /\ ResultAt(chosen', k) = ResultAt(chosen, k)
        <3>1. Len(chosen) \in Nat /\ Len(chosen') \in Nat /\ Len(chosen) <= Len(chosen')
            BY <1>1, SeqFacts DEF StartsWith
        <3>2. \A k \in 1 .. Len(chosen) : k \in 1 .. Len(chosen')
            BY <3>1, SMT
        <3> QED
            BY <1>1, <3>2, ResultPrefix
    <2> QED
        BY <1>6, <2>1 DEF ServiceInv, HandInv
<1> QED
    BY <1>5, <1>6

(* The logs are as before. *)
LEMMA SameOrder ==
    ASSUME OrderInv, UNCHANGED <<log, chosen, lead>>
    PROVE  OrderInv'
BY DEF OrderInv

(* The clerks, the calls and the channels are as before. *)
LEMMA SameClerks ==
    ASSUME ClerkInv, SinceInv, ChannelInv, UNCHANGED <<chosen, handler, clerk, since, ClientCh>>
    PROVE  ClerkInv' /\ SinceInv' /\ ChannelInv'
<1>1. ClerkInv'
    BY DEF ClerkInv
<1>2. SinceInv'
    BY DEF SinceInv
<1>3. ChannelInv'
    <2>1. SUFFICES ASSUME NEW s \in Server, NEW k \in 1 .. MaxLog, NEW h \in ClientCh[s][k]
                   PROVE  handler'[h].st = "waiting" /\ handler'[h].server = s /\ handler'[h].index = k
        BY DEF ChannelInv
    <2>2. handler[h].st = "waiting" /\ handler[h].server = s /\ handler[h].index = k
        BY DEF ChannelInv
    <2> QED
        BY <2>2
<1> QED
    BY <1>1, <1>2, <1>3

(* A sequence starts with itself. *)
LEMMA SameStart ==
    ASSUME NEW q, Len(q) \in Nat
    PROVE  StartsWith(q, q)
<1>1. Len(q) <= Len(q)
    BY SMT
<1> QED
    BY <1>1 DEF StartsWith

(* A step of Raft: the logs, and what is chosen and sent. *)
LEMMA RaftStep ==
    ASSUME ServiceInv, UNCHANGED <<storeVars, serviceVars, snapVars, clientVars>>,
           log' \in [Server -> Seq(Ops)], chosen' \in Seq(Ops), Len(chosen') <= MaxLog,
           lead' \in Server \cup {Nobody}, commit' \in [Server -> Nat], applyCh' \in [Server -> Seq(Nat)],
           StartsWith(chosen', chosen), \A x \in Command : Placed(x)' => Placed(x), OrderInv', ApplyInv'
    PROVE  ServiceInv'
<1>1. /\ Types /\ mp' = mp /\ CliMap' = CliMap /\ lastApplied' = lastApplied /\ ClientCh' = ClientCh
      /\ applier' = applier /\ snap' = snap /\ offer' = offer /\ handler' = handler /\ clerk' = clerk
      /\ since' = since
    BY DEF ServiceInv, storeVars, serviceVars, snapVars, clientVars
<1>2. Types'
    BY <1>1 DEF Types, CallRec, ClerkRec
<1>3. OpsInv'
    BY <1>1, OpsKeeps DEF ServiceInv
<1>4. StoreInv' /\ HandInv'
    BY <1>1, StoreKeeps
<1>5. ClerkInv' /\ ChannelInv'
    <2>1. ClerkInv /\ ChannelInv
        BY DEF ServiceInv
    <2>2. ClerkInv'
        BY <1>1, <2>1 DEF ClerkInv
    <2>3. ChannelInv'
        <3>1. SUFFICES ASSUME NEW s \in Server, NEW k \in 1 .. MaxLog, NEW h \in ClientCh[s][k]
                       PROVE  handler'[h].st = "waiting" /\ handler'[h].server = s /\ handler'[h].index = k
            BY <1>1 DEF ChannelInv
        <3>2. handler[h].st = "waiting" /\ handler[h].server = s /\ handler[h].index = k
            BY <2>1 DEF ChannelInv
        <3> QED
            BY <1>1, <3>2
    <2> QED
        BY <2>2, <2>3
<1>6. CallInv'
    <2>1. SUFFICES ASSUME NEW h \in Call, handler'[h] # Unused PROVE CallAt(h, handler[h])'
        BY DEF CallInv
    <2>2. PICK r : r = handler[h]
        OBVIOUS
    <2>3. CallAt(h, r) /\ since[h[1]] \in Nat /\ chosen \in Seq(Ops)
        BY <1>1, <2>1, <2>2, CallState DEF Types
    <2>4. CallAt(h, r)'
        BY <1>1, <2>3, CallKeeps
    <2> QED
        BY <1>1, <2>2, <2>4 DEF CallAt, OKed
<1>7. SinceInv'
    <2>1. SUFFICES ASSUME NEW c \in Client
                   PROVE  /\ since[c] <= Len(chosen')
                          /\ \A k \in 1 .. Len(chosen') :
                                chosen'[k] \in Command /\ chosen'[k].Id = c /\ chosen'[k].Num = clerk[c].number
                                    => since[c] <= k
        BY <1>1 DEF SinceInv
    <2>2. since[c] \in Nat /\ Len(chosen) \in Nat /\ Len(chosen') \in Nat /\ since[c] <= Len(chosen)
          /\ Len(chosen) <= Len(chosen')
        BY <1>1, SeqFacts DEF Types, ServiceInv, SinceInv, StartsWith
    <2>3. since[c] <= Len(chosen') /\ \A k \in 1 .. Len(chosen') : k \in 1 .. Len(chosen) \/ since[c] <= k
        BY <2>2, SMT
    <2> QED
        BY <2>3 DEF ServiceInv, SinceInv, StartsWith
<1> QED
    BY <1>2, <1>3, <1>4, <1>5, <1>6, <1>7 DEF ServiceInv

-----------------------------------------------------------------------------
(* Raft *)

(* Cutting a log, and appending to it. *)
LEMMA OrderedPrefix ==
    ASSUME NEW l, NEW p, Len(l) \in Nat, Len(p) \in Nat, Ordered(l), StartsWith(l, p)
    PROVE  Ordered(p)
<1>1. \A k \in 1 .. Len(p) : k \in 1 .. Len(l) /\ l[k] = p[k]
    BY SMT DEF StartsWith
<1> QED
    BY <1>1 DEF Ordered

(* A command whose number is not lower than those before it. *)
LEMMA OrderedAppend ==
    ASSUME NEW l \in Seq(Ops), NEW x \in Ops, Ordered(l),
           \A k \in 1 .. Len(l) : x \in Command /\ l[k] \in Command /\ l[k].Id = x.Id => l[k].Num <= x.Num
    PROVE  /\ Ordered(Append(l, x))
           /\ \A p : Len(p) \in Nat /\ StartsWith(l, p) => StartsWith(Append(l, x), p)
<1>1. PICK m : m = Append(l, x)
    OBVIOUS
<1>2. PICK n \in Nat : n = Len(l)
    BY SeqFacts
<1>3. Len(m) = n + 1 /\ m[n + 1] = x /\ \A k \in 1 .. n : m[k] = l[k]
    BY <1>1, <1>2, SMT
<1>4. \A k \in 1 .. Len(m) : k \in 1 .. n \/ k = n + 1
    BY <1>3, SMT
<1>5. \A k \in 1 .. n : ~(n + 1 <= k)
    BY SMT
<1>6. x \in Command => x.Num <= x.Num
    <2>1. \A i \in Nat : i <= i
        BY SMT
    <2> QED
        BY <2>1, Commands
<1>7. Ordered(m)
    <2>1. SUFFICES ASSUME NEW i \in 1 .. Len(m), NEW j \in 1 .. Len(m), i <= j,
                          m[i] \in Command, m[j] \in Command, m[i].Id = m[j].Id
                   PROVE  m[i].Num <= m[j].Num
        BY DEF Ordered
    <2>2. CASE j \in 1 .. n
        <3>1. i \in 1 .. n
            BY <1>4, <1>5, <2>1, <2>2
        <3> QED
            BY <1>2, <1>3, <2>1, <2>2, <3>1 DEF Ordered
    <2>3. CASE j = n + 1
        <3>1. CASE i \in 1 .. n
            BY <1>2, <1>3, <2>1, <2>3, <3>1
        <3>2. CASE i = n + 1
            BY <1>3, <1>6, <2>1, <2>3, <3>2
        <3> QED
            BY <1>4, <3>1, <3>2
    <2> QED
        BY <1>4, <2>2, <2>3
<1>8. ASSUME NEW p, Len(p) \in Nat, StartsWith(l, p)
      PROVE  StartsWith(m, p)
    <2>1. Len(p) <= n
        BY <1>2, <1>8 DEF StartsWith
    <2>2. Len(p) <= n + 1 /\ \A k \in 1 .. Len(p) : k \in 1 .. n
        BY <1>8, <2>1, SMT
    <2> QED
        BY <1>3, <1>8, <2>2 DEF StartsWith
<1> QED
    BY <1>1, <1>7, <1>8

(* The log of a server is replaced. *)
LEMMA LogReplaced ==
    ASSUME ServiceInv, NEW s \in Server, NEW l \in Seq(Ops), log' = [log EXCEPT ![s] = l]
    PROVE  log' \in [Server -> Seq(Ops)] /\ log'[s] = l /\ \A t \in Server : t # s => log'[t] = log[t]
BY DEF ServiceInv, Types

(* No command is new if the log gets none that was not placed. *)
LEMMA PlacedKeeps ==
    ASSUME ServiceInv, NEW s \in Server, NEW l \in Seq(Ops), log' = [log EXCEPT ![s] = l],
           \A k \in 1 .. Len(l) : l[k] \in Command => Placed(l[k]), chosen' = chosen,
           \A h \in Call : handler'[h] # Unused => handler[h] # Unused /\ handler'[h].op = handler[h].op
    PROVE  \A x \in Command : Placed(x)' => Placed(x)
<1>1. log'[s] = l /\ \A t \in Server : t # s => log'[t] = log[t]
    BY LogReplaced
<1>2. SUFFICES ASSUME NEW x \in Command, Placed(x)' PROVE Placed(x)
    OBVIOUS
<1>3. CASE \E k \in 1 .. Len(chosen) : chosen[k] = x
    BY <1>3 DEF Placed
<1>4. CASE \E t \in Server : \E k \in 1 .. Len(log'[t]) : log'[t][k] = x
    <2>1. PICK t \in Server : \E k \in 1 .. Len(log'[t]) : log'[t][k] = x
        BY <1>4
    <2>2. CASE t = s
        <3>1. PICK k \in 1 .. Len(l) : l[k] = x
            BY <1>1, <2>1, <2>2
        <3>2. Placed(l[k])
            BY <3>1
        <3> QED
            BY <3>1, <3>2
    <2>3. CASE t # s
        <3>1. PICK k \in 1 .. Len(log[t]) : log[t][k] = x
            BY <1>1, <2>1, <2>3
        <3> QED
            BY <3>1 DEF Placed
    <2> QED
        BY <2>2, <2>3
<1>5. CASE \E h \in Call : handler'[h] # Unused /\ handler'[h].op = x
    BY <1>5 DEF Placed
<1> QED
    BY <1>2, <1>3, <1>4, <1>5 DEF Placed

(* What was sent, and applied. *)
LEMMA NotBusy ==
    ASSUME ServiceInv, NEW s \in Server, ~RaftBusy(s)
    PROVE  applyCh[s] = <<>> /\ lastApplied[s] = commit[s]
BY DEF RaftBusy, ServiceInv, ApplyInv, Feeds

(* The indices that are sent lead from one to the other. *)
LEMMA IndicesFeed ==
    ASSUME NEW n \in Nat, NEW c \in Nat, n <= c, NEW times \in {1, 2}
    PROVE  Indices(n + 1, c, times) \in Seq(Nat) /\ Feeds(Indices(n + 1, c, times), n, c)
<1>1. CASE times = 1
    <2>1. PICK q : q = [i \in 1 .. c - n |-> n + i]
        OBVIOUS
    <2>2. Indices(n + 1, c, times) = q
        BY <1>1, <2>1, SMT DEF Indices
    <2>3. q \in Seq(Nat) /\ Len(q) = c - n
        BY <2>1, SMT
    <2>4. Feeds(q, n, c)
        BY <2>1, <2>3, SMT DEF Feeds
    <2> QED
        BY <2>2, <2>3, <2>4
<1>2. CASE times = 2
    <2>1. PICK q : q = [i \in 1 .. 2 * (c - n) |-> n + 1 + ((i - 1) \div 2)]
        OBVIOUS
    <2>2. Indices(n + 1, c, times) = q
        BY <1>2, <2>1, SMT DEF Indices
    <2>3. q \in Seq(Nat) /\ Len(q) = 2 * (c - n)
        BY <2>1, SMT
    <2>4. PICK d \in Nat : c = n + d /\ c - n = d
        BY SMT
    <2>5. Len(q) = 2 * d /\ \A i \in 1 .. 2 * d : q[i] = n + 1 + ((i - 1) \div 2)
        BY <2>1, <2>3, <2>4
    <2>6. /\ \A i \in 1 .. 2 * d : (i - 1) \div 2 \in 0 .. d - 1
          /\ (1 - 1) \div 2 = 0 /\ (d > 0 => (2 * d - 1) \div 2 = d - 1)
          /\ \A i \in 1 .. 2 * d - 1 : ((i + 1) - 1) \div 2 \in {(i - 1) \div 2, ((i - 1) \div 2) + 1}
        BY SMT
    <2>7. \A i \in 1 .. Len(q) : q[i] \in 1 .. c
        BY <2>4, <2>5, <2>6, SMT
    <2>8. q = <<>> => n = c
        BY <2>4, <2>5, SMT
    <2>9. ASSUME q # <<>> PROVE q[1] = n + 1 /\ q[Len(q)] = c
        <3>1. d > 0
            BY <2>3, <2>5, <2>9, SMT
        <3>2. 1 \in 1 .. 2 * d /\ 2 * d \in 1 .. 2 * d
            BY <3>1, SMT
        <3>3. q[1] = n + 1 + 0 /\ q[Len(q)] = n + 1 + (d - 1)
            BY <2>5, <2>6, <3>1, <3>2
        <3> QED
            BY <2>4, <3>3, SMT
    <2>10. \A i \in 1 .. Len(q) - 1 : q[i + 1] \in {q[i], q[i] + 1}
        <3>1. TAKE i \in 1 .. Len(q) - 1
        <3>2. i \in 1 .. 2 * d - 1 /\ i \in 1 .. 2 * d /\ i + 1 \in 1 .. 2 * d
            BY <2>5, SMT
        <3>3. PICK e \in Int : e = (i - 1) \div 2
            BY <3>2, SMT
        <3>4. q[i] = n + 1 + e /\ (q[i + 1] = n + 1 + e \/ q[i + 1] = n + 1 + (e + 1))
            BY <2>5, <2>6, <3>2, <3>3
        <3> QED
            BY <3>4, SMT
    <2>11. Feeds(q, n, c)
        BY <2>7, <2>8, <2>9, <2>10 DEF Feeds
    <2> QED
        BY <2>2, <2>3, <2>11
<1> QED
    BY <1>1, <1>2

(* The prefix a log has. *)
LEMMA HasPrefixStarts ==
    ASSUME NEW l \in Seq(Ops), NEW p \in Seq(Ops), HasPrefix(l, p)
    PROVE  StartsWith(l, p)
<1>1. Len(p) \in Nat /\ Len(l) \in Nat /\ Len(p) <= Len(l) /\ SubSeq(l, 1, Len(p)) = p
    BY SeqFacts DEF HasPrefix
<1>2. Len(p) \in 0 .. Len(l)
    BY <1>1, SMT
<1>3. \A k \in 1 .. Len(p) : SubSeq(l, 1, Len(p))[k] = l[k]
    BY <1>2, PrefixFacts
<1> QED
    BY <1>1, <1>3 DEF StartsWith

(* A new leader has what was chosen. *)
LEMMA BecomeLeaderKeeps ==
    ASSUME ServiceInv, NEW s \in Server, BecomeLeader(s)
    PROVE  ServiceInv'
<1>1. /\ lead' = s /\ log' = log /\ chosen' = chosen /\ commit' = commit /\ applyCh' = applyCh
      /\ UNCHANGED <<storeVars, serviceVars, snapVars, clientVars>> /\ HasPrefix(log[s], chosen)
    BY DEF BecomeLeader
<1>2. lastApplied' = lastApplied /\ handler' = handler
    BY <1>1 DEF storeVars, clientVars
<1>3. StartsWith(log[s], chosen) /\ StartsWith(chosen, chosen)
    BY <1>1, Lengths, HasPrefixStarts, SameStart
<1>4. OrderInv'
    BY <1>1, <1>3 DEF ServiceInv, OrderInv
<1>5. ApplyInv'
    BY <1>1, <1>2 DEF ServiceInv, ApplyInv
<1>6. \A x \in Command : Placed(x)' => Placed(x)
    BY <1>1, <1>2 DEF Placed
<1>7. /\ log' \in [Server -> Seq(Ops)] /\ chosen' \in Seq(Ops) /\ Len(chosen') <= MaxLog
      /\ lead' \in Server \cup {Nobody} /\ commit' \in [Server -> Nat] /\ applyCh' \in [Server -> Seq(Nat)]
    BY <1>1 DEF ServiceInv, Types
<1> QED
    BY <1>1, <1>3, <1>4, <1>5, <1>6, <1>7, RaftStep

(* A command or a no-op at the end of a log. *)
LEMMA LogAppended ==
    ASSUME ServiceInv, NEW s \in Server, NEW x \in Ops, log' = [log EXCEPT ![s] = Append(log[s], x)],
           chosen' = chosen, lead' = lead,
           x \in Command => Placed(x) /\ x.Num = clerk[x.Id].number,
           \A h \in Call : handler'[h] # Unused => handler[h] # Unused /\ handler'[h].op = handler[h].op
    PROVE  /\ log' \in [Server -> Seq(Ops)] /\ OrderInv'
           /\ \A y \in Command : Placed(y)' => Placed(y)
<1>1. PICK l \in Seq(Ops) : l = log[s]
    BY Lengths
<1>2. PICK m \in Seq(Ops) : m = Append(l, x)
    BY AppendFacts
<1>3. log' \in [Server -> Seq(Ops)] /\ log'[s] = m /\ \A t \in Server : t # s => log'[t] = log[t]
    BY <1>1, <1>2, LogReplaced
<1>4. \A k \in 1 .. Len(l) : Placed(l[k])
    BY <1>1 DEF Placed
<1>5. \A k \in 1 .. Len(l) : x \in Command /\ l[k] \in Command /\ l[k].Id = x.Id => l[k].Num <= x.Num
    BY <1>4 DEF ServiceInv, OpsInv
<1>6. Ordered(l)
    BY <1>1 DEF ServiceInv, OrderInv
<1>7. Ordered(m) /\ \A p : Len(p) \in Nat /\ StartsWith(l, p) => StartsWith(m, p)
    BY <1>2, <1>5, <1>6, OrderedAppend
<1>8. Len(chosen) \in Nat
    BY Lengths
<1>9. OrderInv'
    <2>1. \A t \in Server : Ordered(log'[t])
        BY <1>3, <1>7 DEF ServiceInv, OrderInv
    <2>2. ASSUME lead # Nobody PROVE StartsWith(log'[lead], chosen)
        <3>1. lead \in Server /\ StartsWith(log[lead], chosen)
            BY <2>2 DEF ServiceInv, OrderInv, Types
        <3> QED
            BY <1>1, <1>3, <1>7, <1>8, <3>1
    <2> QED
        BY <2>1, <2>2 DEF ServiceInv, OrderInv
<1>10. \A k \in 1 .. Len(m) : m[k] \in Command => Placed(m[k])
    <2>1. \A k \in 1 .. Len(m) : k \in 1 .. Len(l) \/ k = Len(l) + 1
        <3>1. Len(l) \in Nat /\ Len(m) = Len(l) + 1
            BY <1>2, SMT
        <3> QED
            BY <3>1, SMT
    <2>2. m[Len(l) + 1] = x /\ \A k \in 1 .. Len(l) : m[k] = l[k]
        BY <1>2, SMT
    <2> QED
        BY <1>4, <2>1, <2>2
<1>11. \A y \in Command : Placed(y)' => Placed(y)
    BY <1>1, <1>2, <1>10, PlacedKeeps
<1> QED
    BY <1>3, <1>9, <1>11

(* A no-op is in nobody's name. *)
LEMMA StartNoopKeeps ==
    ASSUME ServiceInv, NEW s \in Server, StartNoop(s)
    PROVE  ServiceInv'
<1>1. /\ UNCHANGED <<lead, chosen, commit, applyCh, storeVars, serviceVars, snapVars, clientVars>>
      /\ log' = log \/ log' = [log EXCEPT ![s] = Append(log[s], NoopOp)]
    BY DEF StartNoop
<1>2. lastApplied' = lastApplied /\ handler' = handler
    BY <1>1 DEF storeVars, clientVars
<1>3. /\ log' \in [Server -> Seq(Ops)] /\ OrderInv'
      /\ \A y \in Command : Placed(y)' => Placed(y)
    <2>1. CASE log' = log
        BY <1>1, <1>2, <2>1 DEF ServiceInv, Types, OrderInv, Placed
    <2>2. CASE log' = [log EXCEPT ![s] = Append(log[s], NoopOp)]
        BY <1>1, <1>2, <2>2, LogAppended, Commands
    <2> QED
        BY <1>1, <2>1, <2>2
<1>4. StartsWith(chosen, chosen)
    BY Lengths, SameStart
<1>5. ApplyInv'
    BY <1>1, <1>2 DEF ServiceInv, ApplyInv
<1>6. /\ chosen' \in Seq(Ops) /\ Len(chosen') <= MaxLog
      /\ lead' \in Server \cup {Nobody} /\ commit' \in [Server -> Nat] /\ applyCh' \in [Server -> Seq(Nat)]
    BY <1>1 DEF ServiceInv, Types
<1> QED
    BY <1>1, <1>3, <1>4, <1>5, <1>6, RaftStep

(* What a server sends after its commit index has grown. *)
LEMMA Sends ==
    ASSUME ServiceInv, NEW s \in Server, ~RaftBusy(s), NEW c \in Nat, commit[s] <= c, c <= Len(chosen'),
           NEW times \in {1, 2}, Len(chosen') \in Nat, Len(chosen) <= Len(chosen'), lastApplied' = lastApplied,
           commit' = [commit EXCEPT ![s] = c], applyCh' = [applyCh EXCEPT ![s] = Indices(commit[s] + 1, c, times)]
    PROVE  commit' \in [Server -> Nat] /\ applyCh' \in [Server -> Seq(Nat)] /\ ApplyInv'
<1>1. PICK q : q = Indices(commit[s] + 1, c, times)
    OBVIOUS
<1>2. q \in Seq(Nat) /\ Feeds(q, commit[s], c)
    BY <1>1, IndicesFeed, Lengths
<1>3. commit \in [Server -> Nat] /\ applyCh \in [Server -> Seq(Nat)]
    BY DEF ServiceInv, Types
<1>4. /\ commit' \in [Server -> Nat] /\ commit'[s] = c /\ \A t \in Server : t # s => commit'[t] = commit[t]
      /\ applyCh' \in [Server -> Seq(Nat)] /\ applyCh'[s] = q /\ \A t \in Server : t # s => applyCh'[t] = applyCh[t]
    BY <1>1, <1>2, <1>3
<1>5. lastApplied[s] = commit[s]
    BY NotBusy
<1>6. ASSUME NEW t \in Server, t # s PROVE commit[t] <= Len(chosen')
    <2>1. \A i, j, k \in Nat : i <= j /\ j <= k => i <= k
        BY SMT
    <2> QED
        BY <2>1, Lengths
<1>7. ApplyInv'
    BY <1>2, <1>4, <1>5, <1>6 DEF ServiceInv, ApplyInv
<1> QED
    BY <1>4, <1>7

(* What is chosen goes on in the log of the leader. *)
LEMMA updateCommitKeeps ==
    ASSUME ServiceInv, NEW k \in 1 .. MaxLog, updateCommit(k)
    PROVE  ServiceInv'
<1>1. /\ lead # Nobody /\ ~RaftBusy(lead) /\ k > Len(chosen) /\ k <= Len(log[lead])
      /\ chosen' = SubSeq(log[lead], 1, k) /\ commit' = [commit EXCEPT ![lead] = k]
      /\ applyCh' = [applyCh EXCEPT ![lead] = Indices(commit[lead] + 1, k, 1)]
      /\ log' = log /\ lead' = lead /\ UNCHANGED <<storeVars, serviceVars, snapVars, clientVars>>
    BY DEF updateCommit
<1>2. lastApplied' = lastApplied /\ handler' = handler
    BY <1>1 DEF storeVars, clientVars
<1>3. lead \in Server /\ StartsWith(log[lead], chosen) /\ Ordered(log[lead])
    BY <1>1 DEF ServiceInv, Types, OrderInv
<1>4. PICK l \in Seq(Ops) : l = log[lead] /\ Len(l) \in Nat
    BY <1>3, Lengths
<1>5. Len(chosen) \in Nat /\ commit[lead] \in Nat /\ commit[lead] <= Len(chosen)
    BY <1>3, Lengths
<1>6. k \in Nat /\ k \in 0 .. Len(l) /\ k <= MaxLog /\ commit[lead] <= k /\ Len(chosen) <= k /\ k <= k
    BY <1>1, <1>4, <1>5, Constants, SMT
<1>7. chosen' \in Seq(Ops) /\ Len(chosen') = k /\ \A i \in 1 .. k : chosen'[i] = l[i]
    BY <1>1, <1>4, <1>6, PrefixFacts
<1>8. StartsWith(l, chosen')
    BY <1>1, <1>4, <1>7 DEF StartsWith
<1>9. StartsWith(chosen', chosen)
    <2>1. \A i \in 1 .. Len(chosen) : i \in 1 .. k
        BY <1>5, <1>6, SMT
    <2> QED
        BY <1>3, <1>4, <1>6, <1>7, <2>1 DEF StartsWith
<1>10. OrderInv'
    <2>1. Ordered(chosen')
        BY <1>3, <1>4, <1>6, <1>7, <1>8, OrderedPrefix
    <2> QED
        BY <1>1, <1>4, <1>8, <2>1 DEF ServiceInv, OrderInv
<1>11. commit' \in [Server -> Nat] /\ applyCh' \in [Server -> Seq(Nat)] /\ ApplyInv'
    BY <1>1, <1>2, <1>3, <1>6, <1>7, Sends
<1>12. \A x \in Command : Placed(x)' => Placed(x)
    <2>1. TAKE x \in Command
    <2>2. HAVE Placed(x)'
    <2>3. CASE \E i \in 1 .. Len(chosen') : chosen'[i] = x
        <3>1. PICK i \in 1 .. k : l[i] = x
            BY <1>7, <2>3
        <3>2. i \in 1 .. Len(l)
            BY <1>4, <1>6, SMT
        <3> QED
            BY <1>3, <1>4, <3>1, <3>2 DEF Placed
    <2>4. CASE ~\E i \in 1 .. Len(chosen') : chosen'[i] = x
        BY <1>1, <1>2, <2>2, <2>4 DEF Placed
    <2> QED
        BY <2>3, <2>4
<1>13. log' \in [Server -> Seq(Ops)] /\ Len(chosen') <= MaxLog /\ lead' \in Server \cup {Nobody}
    BY <1>1, <1>6, <1>7 DEF ServiceInv, Types
<1> QED
    BY <1>1, <1>7, <1>9, <1>10, <1>11, <1>12, <1>13, RaftStep

(* A follower takes over the log of the leader. *)
LEMMA AppendEntriesKeeps ==
    ASSUME ServiceInv, NEW s \in Server, AppendEntries(s)
    PROVE  ServiceInv'
<1>1. PICK c : c = IF commit[lead] > commit[s] THEN commit[lead] ELSE commit[s]
    OBVIOUS
<1>2. /\ lead # Nobody /\ s # lead /\ ~RaftBusy(s) /\ log' = [log EXCEPT ![s] = log[lead]]
      /\ commit' = [commit EXCEPT ![s] = c] /\ applyCh' = [applyCh EXCEPT ![s] = Indices(commit[s] + 1, c, 2)]
      /\ lead' = lead /\ chosen' = chosen /\ UNCHANGED <<storeVars, serviceVars, snapVars, clientVars>>
    BY <1>1 DEF AppendEntries
<1>3. lastApplied' = lastApplied /\ handler' = handler
    BY <1>2 DEF storeVars, clientVars
<1>4. lead \in Server /\ StartsWith(log[lead], chosen) /\ Ordered(log[lead])
    BY <1>2 DEF ServiceInv, Types, OrderInv
<1>5. PICK l \in Seq(Ops) : l = log[lead]
    BY <1>4, Lengths
<1>6. /\ Len(chosen) \in Nat /\ commit[lead] \in Nat /\ commit[s] \in Nat
      /\ commit[lead] <= Len(chosen) /\ commit[s] <= Len(chosen)
    BY <1>4, Lengths
<1>7. c \in Nat /\ commit[s] <= c /\ c <= Len(chosen) /\ Len(chosen) <= Len(chosen)
    BY <1>1, <1>6, SMT
<1>8. commit' \in [Server -> Nat] /\ applyCh' \in [Server -> Seq(Nat)] /\ ApplyInv'
    BY <1>2, <1>3, <1>6, <1>7, Sends
<1>9. log' \in [Server -> Seq(Ops)] /\ log'[s] = l /\ \A t \in Server : t # s => log'[t] = log[t]
    BY <1>2, <1>5, LogReplaced
<1>10. OrderInv'
    BY <1>2, <1>4, <1>5, <1>9 DEF ServiceInv, OrderInv
<1>11. \A x \in Command : Placed(x)' => Placed(x)
    <2>1. \A k \in 1 .. Len(l) : Placed(l[k])
        BY <1>4, <1>5 DEF Placed
    <2> QED
        BY <1>2, <1>3, <1>5, <2>1, PlacedKeeps
<1>12. StartsWith(chosen, chosen)
    BY <1>6, SameStart
<1>13. chosen' \in Seq(Ops) /\ Len(chosen') <= MaxLog /\ lead' \in Server \cup {Nobody}
    BY <1>2 DEF ServiceInv, Types
<1> QED
    BY <1>2, <1>8, <1>9, <1>10, <1>11, <1>12, <1>13, RaftStep

-----------------------------------------------------------------------------
(* Handlers *)

(* What a call is after a step of its handler: it goes on, or ends when    *)
(* nobody waits for it.                                                    *)
GoesOn(h, r) ==
    /\ r \in {Unused} \cup CallRec
    /\ r = Unused => ~handler[h].live
    /\ r # Unused => r.op = handler[h].op /\ r.live = handler[h].live /\ CallAt(h, r)

(* The calls stay as the invariant wants them. *)
LEMMA CallsGoOn ==
    ASSUME ServiceInv, UNCHANGED <<chosen, clerk, since>>,
           \A g \in Call : handler'[g] = handler[g] \/ (handler[g] # Unused /\ GoesOn(g, handler'[g])),
           \A g \in Call : handler'[g].st = "reading" => CliMap'[handler'[g].server] = CliMap[handler'[g].server]
    PROVE  /\ \A g \in Call : /\ handler'[g] \in {Unused} \cup CallRec
                              /\ handler'[g] # Unused => handler[g] # Unused /\ handler'[g].op = handler[g].op
           /\ ClerkInv' /\ CallInv' /\ SinceInv'
<1>1. \A g \in Call : /\ handler'[g] \in {Unused} \cup CallRec
                      /\ handler'[g] # Unused => handler[g] # Unused /\ handler'[g].op = handler[g].op
    BY CallState DEF GoesOn
<1>2. ClerkInv'
    <2>1. SUFFICES ASSUME NEW c \in Client, clerk[c].busy
                   PROVE  handler'[<<c, clerk[c].slot>>] # Unused /\ handler'[<<c, clerk[c].slot>>].live
        BY DEF ClerkInv
    <2>2. PICK g : g = <<c, clerk[c].slot>>
        OBVIOUS
    <2>3. clerk[c].slot \in Slot
        BY DEF ServiceInv, Types, ClerkRec
    <2>4. g \in Call
        BY <2>2, <2>3, SMT DEF Call
    <2>5. handler[g] # Unused /\ handler[g].live
        BY <2>1, <2>2 DEF ServiceInv, ClerkInv
    <2> QED
        BY <2>2, <2>4, <2>5 DEF GoesOn
<1>3. CallInv'
    <2>1. SUFFICES ASSUME NEW g \in Call, handler'[g] # Unused PROVE CallAt(g, handler[g])'
        BY DEF CallInv
    <2>2. PICK v : v = handler'[g]
        OBVIOUS
    <2>3. CallAt(g, v)
        BY <2>1, <2>2, CallState DEF GoesOn
    <2>4. v.st = "reading" => CliMap'[v.server] = CliMap[v.server]
        BY <2>2
    <2>5. CallAt(g, v)'
        BY <2>3, <2>4 DEF CallAt, OKed, Used, Contents
    <2> QED
        BY <2>2, <2>5 DEF CallAt, OKed
<1>4. SinceInv'
    BY DEF ServiceInv, SinceInv
<1> QED
    BY <1>1, <1>2, <1>3, <1>4

(* A step of one call. *)
LEMMA HandlerStep ==
    ASSUME ServiceInv, NEW h \in Call, handler[h] # Unused, NEW r, GoesOn(h, r),
           handler' = [handler EXCEPT ![h] = r],
           log' \in [Server -> Seq(Ops)], \A x \in Command : Placed(x)' => Placed(x), OrderInv',
           ClientCh' \in [Server -> [1 .. MaxLog -> SUBSET Call]], ChannelInv',
           UNCHANGED <<chosen, lead, commit, applyCh, storeVars, applier, snapVars, clerk, since>>
    PROVE  ServiceInv'
<1>1. /\ Types /\ mp' = mp /\ CliMap' = CliMap /\ lastApplied' = lastApplied
      /\ applier' = applier /\ snap' = snap /\ offer' = offer /\ clerk' = clerk /\ since' = since
      /\ chosen' = chosen /\ lead' = lead /\ commit' = commit /\ applyCh' = applyCh
    BY DEF ServiceInv, storeVars, snapVars
<1>2. handler \in [Call -> {Unused} \cup CallRec]
    BY <1>1 DEF Types
<1>3. handler' \in [Call -> {Unused} \cup CallRec] /\ handler'[h] = r /\ \A g \in Call : g # h => handler'[g] = handler[g]
    BY <1>2 DEF GoesOn
<1>4. Types'
    BY <1>1, <1>3 DEF Types, CallRec, ClerkRec
<1>5. StartsWith(chosen', chosen) /\ chosen' \in Seq(Ops)
    BY <1>1, SameStart, SeqFacts DEF Types
<1>6. OpsInv'
    BY <1>1, OpsKeeps DEF ServiceInv
<1>7. ApplyInv'
    BY <1>1 DEF ServiceInv, ApplyInv
<1>8. StoreInv' /\ HandInv'
    BY <1>1, <1>5, StoreKeeps
<1>9. ClerkInv' /\ CallInv' /\ SinceInv'
    BY <1>1, <1>3, CallsGoOn
<1> QED
    BY <1>4, <1>6, <1>7, <1>8, <1>9 DEF ServiceInv

(* The call is in no channel before it waits. *)
LEMMA ChannelsKeep ==
    ASSUME ServiceInv, NEW h \in Call, handler[h].st # "waiting", ClientCh' = ClientCh,
           \A g \in Call : g # h => handler'[g] = handler[g]
    PROVE  ClientCh' \in [Server -> [1 .. MaxLog -> SUBSET Call]] /\ ChannelInv'
<1>1. ClientCh \in [Server -> [1 .. MaxLog -> SUBSET Call]]
    BY DEF ServiceInv, Types
<1>2. ASSUME NEW s \in Server, NEW k \in 1 .. MaxLog, NEW g \in ClientCh[s][k]
      PROVE  handler'[g].st = "waiting" /\ handler'[g].server = s /\ handler'[g].index = k
    <2>1. handler[g].st = "waiting" /\ handler[g].server = s /\ handler[g].index = k
        BY ChannelState, SMT
    <2>2. g \in Call /\ g # h
        BY <1>1, <2>1
    <2> QED
        BY <2>1, <2>2
<1> QED
    BY <1>1, <1>2 DEF ChannelInv

(* A step of a call that leaves the logs and the channels alone. *)
LEMMA QuietHandler ==
    ASSUME ServiceInv, NEW h \in Call, handler[h] # Unused, NEW r, GoesOn(h, r),
           handler' = [handler EXCEPT ![h] = r], handler[h].st # "waiting",
           UNCHANGED <<log, ClientCh, chosen, lead, commit, applyCh, storeVars, applier, snapVars, clerk, since>>
    PROVE  ServiceInv'
<1>1. handler \in [Call -> {Unused} \cup CallRec]
    BY DEF ServiceInv, Types
<1>2. handler'[h] = r /\ \A g \in Call : g # h => handler'[g] = handler[g]
    BY <1>1
<1>3. log' \in [Server -> Seq(Ops)] /\ OrderInv'
    BY DEF ServiceInv, Types, OrderInv
<1>4. ClientCh' \in [Server -> [1 .. MaxLog -> SUBSET Call]] /\ ChannelInv'
    BY <1>2, ChannelsKeep
<1>5. \A x \in Command : Placed(x)' => Placed(x)
    BY <1>2 DEF Placed, GoesOn
<1> QED
    BY <1>3, <1>4, <1>5, HandlerStep

(* What an answer may say. *)
LEMMA AnsweredFacts ==
    ASSUME ServiceInv, NEW h \in Call, handler[h] # Unused, NEW err \in Errs, NEW v \in Values,
           err = "OK" /\ handler[h].live =>
               /\ \E k \in 1 .. Len(chosen) : chosen[k] = handler[h].op
               /\ handler[h].op.Type = GetType =>
                     \E k \in since[h[1]] .. Len(chosen) : Contents[k][handler[h].op.Key] = v
    PROVE  GoesOn(h, Answered(h, err, v))
<1>1. PICK q \in CallRec : q = handler[h] /\ CallAt(h, q)
    BY CallState
<1>2. CASE ~q.live
    BY <1>1, <1>2 DEF Answered, GoesOn
<1>3. CASE q.live
    <2>1. PICK r : r = [q EXCEPT !.st = "replied", !.Err = err, !.Value = v]
        OBVIOUS
    <2>2. /\ r \in CallRec /\ r.op = q.op /\ r.live = q.live
          /\ r.st = "replied" /\ r.Err = err /\ r.Value = v
        <3>1. PICK p : p = [q EXCEPT !.st = "replied"]
            OBVIOUS
        <3>2. PICK e : e = [p EXCEPT !.Err = err]
            OBVIOUS
        <3>3. r = [e EXCEPT !.Value = v] /\ "replied" \in States
            BY <2>1, <3>1, <3>2 DEF States
        <3>4. p \in CallRec /\ p.st = "replied" /\ p.op = q.op /\ p.live = q.live
            BY <3>1, <3>3, SetSt
        <3>5. e \in CallRec /\ e.st = "replied" /\ e.op = q.op /\ e.live = q.live /\ e.Err = err
            BY <3>2, <3>4, SetErr
        <3> QED
            BY <3>3, <3>5, SetValue
    <2>3. Answered(h, err, v) = r
        BY <1>1, <1>3, <2>1 DEF Answered
    <2>4. r # Unused
        BY <2>2, CallFields
    <2>5. err = "OK" => OKed(h, r)
        BY <1>1, <1>3, <2>2 DEF OKed
    <2>6. CallAt(h, r)
        BY <1>1, <1>3, <2>2, <2>5 DEF CallAt
    <2> QED
        BY <1>1, <2>2, <2>3, <2>4, <2>6 DEF GoesOn
<1> QED
    BY <1>2, <1>3

(* An answer, in a step that leaves the logs and the channels alone. *)
LEMMA Answers ==
    ASSUME ServiceInv, NEW h \in Call, handler[h] # Unused, NEW err \in Errs, NEW v \in Values,
           handler' = [handler EXCEPT ![h] = Answered(h, err, v)], handler[h].st # "waiting",
           err = "OK" /\ handler[h].live =>
               /\ \E k \in 1 .. Len(chosen) : chosen[k] = handler[h].op
               /\ handler[h].op.Type = GetType =>
                     \E k \in since[h[1]] .. Len(chosen) : Contents[k][handler[h].op.Key] = v,
           UNCHANGED <<log, ClientCh, chosen, lead, commit, applyCh, storeVars, applier, snapVars, clerk, since>>
    PROVE  ServiceInv'
<1>1. GoesOn(h, Answered(h, err, v))
    BY AnsweredFacts
<1> QED
    BY <1>1, QuietHandler

(* The command of a call is placed, and current while the clerk waits. *)
LEMMA CallPlaced ==
    ASSUME ServiceInv, NEW h \in Call, handler[h] # Unused
    PROVE  /\ handler[h].op \in Command /\ Placed(handler[h].op) /\ handler[h].op.Id = h[1]
           /\ handler[h].live => handler[h].op.Num = clerk[handler[h].op.Id].number
<1>1. handler[h] \in CallRec /\ CallAt(h, handler[h])
    BY CallState
<1>2. Placed(handler[h].op)
    BY DEF Placed
<1> QED
    BY <1>1, <1>2, CallFields DEF CallAt

(* A Get whose command was applied reads a value that is not too old. *)
LEMMA ReadValueKeeps ==
    ASSUME ServiceInv, NEW h \in Call, ReadValue(h)
    PROVE  ServiceInv'
<1>1. /\ handler[h].st = "reading"
      /\ handler' = [handler EXCEPT ![h] = Answered(h, "OK", mp[handler[h].server][handler[h].op.Key])]
      /\ UNCHANGED <<log, ClientCh, chosen, lead, commit, applyCh, storeVars, applier, snapVars, clerk, since>>
    BY DEF ReadValue, raftVars, serviceVars
<1>2. handler[h] # Unused /\ handler[h].st # "waiting"
    BY <1>1, CallState
<1>3. PICK r \in CallRec : r = handler[h] /\ CallAt(h, r)
    BY <1>2, CallState
<1>4. PICK s \in Server : s = r.server
    BY <1>3, CallFields
<1>5. PICK op \in Command : op = r.op
    BY <1>3, CallFields
<1>6. PICK n : n = lastApplied[s] /\ n \in 0 .. Len(chosen) /\ mp[s] = ContentsOf(chosen)[n] /\ chosen \in Seq(Ops)
    BY Lengths
<1>7. PICK v : v = mp[s][op.Key]
    OBVIOUS
<1>8. v \in Values
    BY <1>6, <1>7, ContentsType, Commands DEF Stores, Values
<1>9. ASSUME r.live
      PROVE  /\ \E k \in 1 .. Len(chosen) : chosen[k] = op
             /\ \E k \in since[h[1]] .. Len(chosen) : Contents[k][op.Key] = v
    <2>1. Used(s, op) /\ Placed(op) /\ op.Num = clerk[op.Id].number /\ op.Id = h[1]
        BY <1>1, <1>2, <1>3, <1>4, <1>5, <1>9, CallPlaced DEF CallAt
    <2>2. PICK j \in 1 .. lastApplied[s] : chosen[j] = op /\ j \in 1 .. Len(chosen) /\ since[op.Id] <= j
        BY <2>1, UsedChosen
    <2>3. since[h[1]] \in Nat /\ Len(chosen) \in Nat
        BY Lengths, CallState DEF ServiceInv, Types
    <2>4. n \in since[h[1]] .. Len(chosen)
        BY <1>6, <2>1, <2>2, <2>3, SMT
    <2> QED
        BY <1>6, <1>7, <2>2, <2>4 DEF Contents
<1>10. "OK" \in Errs
    BY DEF Errs
<1> QED
    BY <1>1, <1>2, <1>3, <1>4, <1>5, <1>7, <1>8, <1>9, <1>10, Answers

(* An entry of ClientCh is replaced. *)
LEMMA ChannelUpdate ==
    ASSUME ClientCh \in [Server -> [1 .. MaxLog -> SUBSET Call]], NEW s \in Server, NEW k \in 1 .. MaxLog,
           NEW W \in SUBSET Call, ClientCh' = [ClientCh EXCEPT ![s][k] = W]
    PROVE  /\ ClientCh' \in [Server -> [1 .. MaxLog -> SUBSET Call]] /\ ClientCh'[s][k] = W
           /\ \A t \in Server, j \in 1 .. MaxLog : ~(t = s /\ j = k) => ClientCh'[t][j] = ClientCh[t][j]
<1>1. PICK D \in [1 .. MaxLog -> SUBSET Call] : D = [ClientCh[s] EXCEPT ![k] = W]
    OBVIOUS
<1>2. ClientCh' = [ClientCh EXCEPT ![s] = D]
    BY <1>1
<1>3. D[k] = W /\ \A j \in 1 .. MaxLog : j # k => D[j] = ClientCh[s][j]
    BY <1>1
<1>4. /\ ClientCh' \in [Server -> [1 .. MaxLog -> SUBSET Call]] /\ ClientCh'[s] = D
      /\ \A t \in Server : t # s => ClientCh'[t] = ClientCh[t]
    BY <1>2
<1> QED
    BY <1>3, <1>4

(* The call is answered, or entered into ClientCh. *)
LEMMA RegisterFacts ==
    ASSUME ServiceInv, NEW h \in Call, handler[h] # Unused, handler[h].st \in {"sent", "started"},
           NEW index \in 1 .. MaxLog, Register(h, index)
    PROVE  /\ \E r : GoesOn(h, r) /\ handler' = [handler EXCEPT ![h] = r]
           /\ ClientCh' \in [Server -> [1 .. MaxLog -> SUBSET Call]] /\ ChannelInv'
<1>1. PICK q \in CallRec : q = handler[h] /\ CallAt(h, q)
    BY CallState
<1>2. PICK s \in Server : s = q.server
    BY <1>1, CallFields
<1>3. PICK op \in Command : op = q.op
    BY <1>1, CallFields
<1>4. /\ handler' = [handler EXCEPT ![h] =
             IF Used(s, op) /\ op.Type = GetType THEN [q EXCEPT !.st = "reading"]
             ELSE IF Used(s, op) THEN Answered(h, "OK", <<>>)
             ELSE [q EXCEPT !.st = "waiting", !.index = index]]
      /\ ClientCh' = IF Used(s, op) THEN ClientCh ELSE [ClientCh EXCEPT ![s][index] = ClientCh[s][index] \cup {h}]
    BY <1>1, <1>2, <1>3 DEF Register
<1>5. handler \in [Call -> {Unused} \cup CallRec] /\ handler[h].st # "waiting"
      /\ ClientCh \in [Server -> [1 .. MaxLog -> SUBSET Call]]
    BY DEF ServiceInv, Types
<1>6. CASE Used(s, op) /\ op.Type = GetType
    <2>1. PICK r : r = [q EXCEPT !.st = "reading"]
        OBVIOUS
    <2>2. r \in CallRec /\ r.op = q.op /\ r.live = q.live /\ r.server = q.server /\ r.st = "reading"
        <3>1. "reading" \in States
            BY DEF States
        <3> QED
            BY <2>1, <3>1, SetSt
    <2>3. CallAt(h, r)
        BY <1>1, <1>2, <1>3, <1>6, <2>2 DEF CallAt
    <2>4. GoesOn(h, r)
        BY <1>1, <2>2, <2>3, CallFields DEF GoesOn
    <2>5. handler' = [handler EXCEPT ![h] = r] /\ ClientCh' = ClientCh
        BY <1>4, <1>6, <2>1
    <2>6. \A g \in Call : g # h => handler'[g] = handler[g]
        BY <1>5, <2>5
    <2> QED
        BY <1>5, <2>4, <2>5, <2>6, ChannelsKeep
<1>7. CASE Used(s, op) /\ op.Type # GetType
    <2>1. PICK r : r = Answered(h, "OK", <<>>)
        OBVIOUS
    <2>2. "OK" \in Errs /\ <<>> \in Values
        BY SMT DEF Errs, Values
    <2>3. q.live => \E k \in 1 .. Len(chosen) : chosen[k] = op
        BY <1>1, <1>2, <1>3, <1>7, CallPlaced, UsedChosen
    <2>4. GoesOn(h, r)
        BY <1>1, <1>3, <1>7, <2>1, <2>2, <2>3, AnsweredFacts
    <2>5. handler' = [handler EXCEPT ![h] = r] /\ ClientCh' = ClientCh
        BY <1>4, <1>7, <2>1
    <2>6. \A g \in Call : g # h => handler'[g] = handler[g]
        BY <1>5, <2>5
    <2> QED
        BY <1>5, <2>4, <2>5, <2>6, ChannelsKeep
<1>8. CASE ~Used(s, op)
    <2>1. PICK r : r = [q EXCEPT !.st = "waiting", !.index = index]
        OBVIOUS
    <2>2. index \in 0 .. MaxLog
        BY Constants, SMT
    <2>3. /\ r \in CallRec /\ r.op = q.op /\ r.live = q.live /\ r.server = q.server
          /\ r.st = "waiting" /\ r.index = index
        <3>1. PICK p : p = [q EXCEPT !.st = "waiting"]
            OBVIOUS
        <3>2. r = [p EXCEPT !.index = index] /\ "waiting" \in States
            BY <2>1, <3>1 DEF States
        <3>3. p \in CallRec /\ p.st = "waiting" /\ p.op = q.op /\ p.live = q.live /\ p.server = q.server
            BY <3>1, <3>2, SetSt
        <3> QED
            BY <2>2, <3>2, <3>3, SetIndex
    <2>4. CallAt(h, r)
        BY <1>1, <2>3 DEF CallAt
    <2>5. GoesOn(h, r)
        BY <1>1, <2>3, <2>4, CallFields DEF GoesOn
    <2>6. handler' = [handler EXCEPT ![h] = r] /\ ClientCh' = [ClientCh EXCEPT ![s][index] = ClientCh[s][index] \cup {h}]
        BY <1>4, <1>8, <2>1
    <2>7. handler'[h] = r /\ \A g \in Call : g # h => handler'[g] = handler[g]
        BY <1>5, <2>6
    <2>8. /\ ClientCh' \in [Server -> [1 .. MaxLog -> SUBSET Call]]
          /\ \A t \in Server, k \in 1 .. MaxLog : \A g \in ClientCh'[t][k] :
                g \in ClientCh[t][k] \/ (g = h /\ t = s /\ k = index)
        <3>1. PICK W \in SUBSET Call : W = ClientCh[s][index] \cup {h}
            BY <1>5
        <3>2. /\ ClientCh' \in [Server -> [1 .. MaxLog -> SUBSET Call]] /\ ClientCh'[s][index] = W
              /\ \A t \in Server, j \in 1 .. MaxLog : ~(t = s /\ j = index) => ClientCh'[t][j] = ClientCh[t][j]
            BY <1>5, <2>6, <3>1, ChannelUpdate
        <3> QED
            BY <3>1, <3>2
    <2>9. ASSUME NEW t \in Server, NEW k \in 1 .. MaxLog, NEW g \in ClientCh'[t][k]
          PROVE  handler'[g].st = "waiting" /\ handler'[g].server = t /\ handler'[g].index = k
        <3>1. CASE g = h /\ t = s /\ k = index
            BY <1>2, <2>3, <2>7, <3>1
        <3>2. CASE g \in ClientCh[t][k]
            <4>1. handler[g].st = "waiting" /\ handler[g].server = t /\ handler[g].index = k
                BY <3>2, ChannelState, SMT
            <4>2. g \in Call /\ g # h
                BY <1>5, <3>2, <4>1
            <4> QED
                BY <2>7, <4>1, <4>2
        <3> QED
            BY <2>8, <3>1, <3>2
    <2> QED
        BY <2>5, <2>6, <2>8, <2>9 DEF ChannelInv
<1> QED
    BY <1>6, <1>7, <1>8

(* Entering ClientCh after Start has returned. *)
LEMMA RegisterLaterKeeps ==
    ASSUME ServiceInv, NEW h \in Call, RegisterLater(h)
    PROVE  ServiceInv'
<1>1. /\ handler[h].st = "started" /\ Register(h, handler[h].index)
      /\ UNCHANGED <<log, chosen, lead, commit, applyCh, storeVars, applier, snapVars, clerk, since>>
    BY DEF RegisterLater, raftVars
<1>2. handler[h] # Unused /\ CallAt(h, handler[h])
    BY <1>1, CallState
<1>3. handler[h].index \in 1 .. MaxLog
    BY <1>1, <1>2 DEF CallAt
<1>4. /\ \E r : GoesOn(h, r) /\ handler' = [handler EXCEPT ![h] = r]
      /\ ClientCh' \in [Server -> [1 .. MaxLog -> SUBSET Call]] /\ ChannelInv'
    BY <1>1, <1>2, <1>3, RegisterFacts
<1>5. PICK r : GoesOn(h, r) /\ handler' = [handler EXCEPT ![h] = r]
    BY <1>4
<1>6. handler'[h] = r /\ \A g \in Call : g # h => handler'[g] = handler[g]
    BY <1>5 DEF ServiceInv, Types
<1>7. log' \in [Server -> Seq(Ops)] /\ OrderInv'
    BY <1>1 DEF ServiceInv, Types, OrderInv
<1>8. \A x \in Command : Placed(x)' => Placed(x)
    BY <1>1, <1>2, <1>5, <1>6 DEF Placed, GoesOn
<1> QED
    BY <1>1, <1>2, <1>4, <1>5, <1>7, <1>8, HandlerStep

(* A command is appended while its clerk waits for it. *)
LEMMA StartKeeps ==
    ASSUME ServiceInv, NEW h \in Call, Start(h)
    PROVE  ServiceInv'
<1>1. /\ handler[h].st = "sent"
      /\ UNCHANGED <<lead, chosen, commit, applyCh, storeVars, applier, snapVars, clerk, since>>
    BY DEF Start
<1>2. PICK q \in CallRec : q = handler[h] /\ CallAt(h, q) /\ q # Unused
    BY <1>1, CallState
<1>3. PICK s \in Server : s = q.server
    BY <1>2, CallFields
<1>4. CASE s \notin leaders
    <2>1. handler' = [handler EXCEPT ![h] = Answered(h, "ErrWrongLeader", <<>>)] /\ UNCHANGED <<log, ClientCh>>
        BY <1>2, <1>3, <1>4 DEF Start
    <2>2. "ErrWrongLeader" \in Errs /\ <<>> \in Values
        BY SMT DEF Errs, Values
    <2>3. "ErrWrongLeader" # "OK" /\ handler[h].st # "waiting"
        BY <1>1
    <2> QED
        BY <1>1, <1>2, <2>1, <2>2, <2>3, Answers
<1>5. CASE s \in leaders
    <2>1. PICK index : index = Len(log[s]) + 1
        OBVIOUS
    <2>2. /\ Len(log[s]) < MaxLog /\ log' = [log EXCEPT ![s] = Append(log[s], q.op)]
          /\ \/ Register(h, index)
             \/ handler' = [handler EXCEPT ![h].st = "started", ![h].index = index] /\ ClientCh' = ClientCh
        BY <1>2, <1>3, <1>5, <2>1 DEF Start
    <2>3. index \in 1 .. MaxLog
        BY <2>1, <2>2, Lengths, Constants, SMT
    <2>4. /\ \E r : GoesOn(h, r) /\ handler' = [handler EXCEPT ![h] = r]
          /\ ClientCh' \in [Server -> [1 .. MaxLog -> SUBSET Call]] /\ ChannelInv'
        <3>1. CASE Register(h, index)
            BY <1>1, <1>2, <2>3, <3>1, RegisterFacts
        <3>2. CASE handler' = [handler EXCEPT ![h].st = "started", ![h].index = index] /\ ClientCh' = ClientCh
            <4>1. PICK r : r = [q EXCEPT !.st = "started", !.index = index]
                OBVIOUS
            <4>2. handler \in [Call -> {Unused} \cup CallRec]
                BY DEF ServiceInv, Types
            <4>3. handler' = [handler EXCEPT ![h] = r]
                BY <1>2, <3>2, <4>1, <4>2
            <4>4. index \in 0 .. MaxLog
                BY <2>3, Constants, SMT
            <4>5. r \in CallRec /\ r.op = q.op /\ r.live = q.live /\ r.st = "started" /\ r.index = index
                <5>1. PICK p : p = [q EXCEPT !.st = "started"]
                    OBVIOUS
                <5>2. r = [p EXCEPT !.index = index] /\ "started" \in States
                    BY <4>1, <5>1 DEF States
                <5>3. p \in CallRec /\ p.st = "started" /\ p.op = q.op /\ p.live = q.live
                    BY <5>1, <5>2, SetSt
                <5> QED
                    BY <4>4, <5>2, <5>3, SetIndex
            <4>6. CallAt(h, r)
                BY <1>2, <2>3, <4>5 DEF CallAt
            <4>7. GoesOn(h, r)
                BY <1>2, <4>5, <4>6, CallFields DEF GoesOn
            <4>8. \A g \in Call : g # h => handler'[g] = handler[g]
                BY <4>2, <4>3
            <4>9. handler[h].st # "waiting"
                BY <1>1
            <4> QED
                BY <3>2, <4>3, <4>7, <4>8, <4>9, ChannelsKeep
        <3> QED
            BY <2>2, <3>1, <3>2
    <2>5. PICK r : GoesOn(h, r) /\ handler' = [handler EXCEPT ![h] = r]
        BY <2>4
    <2>6. handler'[h] = r /\ \A g \in Call : g # h => handler'[g] = handler[g]
        BY <2>5 DEF ServiceInv, Types
    <2>7. \A g \in Call : handler'[g] # Unused => handler[g] # Unused /\ handler'[g].op = handler[g].op
        BY <1>2, <2>5, <2>6 DEF GoesOn
    <2>8. q.op \in Ops /\ q.op \in Command /\ Placed(q.op) /\ q.op.Num = clerk[q.op.Id].number
        BY <1>1, <1>2, CallPlaced, Commands DEF CallAt
    <2>9. /\ log' \in [Server -> Seq(Ops)] /\ OrderInv'
          /\ \A y \in Command : Placed(y)' => Placed(y)
        BY <1>1, <2>2, <2>7, <2>8, LogAppended
    <2> QED
        BY <1>1, <1>2, <2>4, <2>5, <2>9, HandlerStep
<1> QED
    BY <1>4, <1>5

(* A handler that finds its own command at its index reports its result. *)
LEMMA FinishKeeps ==
    ASSUME ServiceInv, NEW h \in Call, Finish(h)
    PROVE  ServiceInv'
<1>1. /\ handler[h].st = "woken"
      /\ UNCHANGED <<log, ClientCh, chosen, lead, commit, applyCh, storeVars, applier, snapVars, clerk, since>>
    BY DEF Finish, raftVars, serviceVars
<1>2. PICK q \in CallRec : q = handler[h] /\ CallAt(h, q) /\ q # Unused
    BY <1>1, CallState
<1>3. PICK op \in Command : op = q.op
    BY <1>2, CallFields
<1>4. PICK k \in 1 .. Len(chosen) : q.cm = ResultAt(chosen, k)
    BY <1>1, <1>2 DEF CallAt
<1>5. PICK cm : cm = q.cm
    OBVIOUS
<1>6. chosen \in Seq(Ops)
    BY DEF ServiceInv, Types
<1>7. /\ cm.Type # DiscardType
      /\ SameCommand(cm, op) =>
            /\ chosen[k] \in Command /\ chosen[k].Id = op.Id /\ chosen[k].Num = op.Num
            /\ op.Type = GetType => cm.Value = ContentsOf(chosen)[k][chosen[k].Key] /\ cm.Value \in Values
    BY <1>4, <1>5, <1>6, ResultFacts
<1>8. SameCommand(cm, op) => chosen[k] = op
    <2>1. Placed(chosen[k])
        BY DEF Placed
    <2>2. Placed(op)
        BY <1>2, <1>3, CallPlaced
    <2> QED
        BY <1>7, <2>1, <2>2 DEF ServiceInv, OpsInv
<1>9. ASSUME SameCommand(cm, op), q.live PROVE k \in since[h[1]] .. Len(chosen)
    <2>1. op.Id = h[1] /\ op.Num = clerk[op.Id].number
        BY <1>2, <1>3, <1>9, CallPlaced
    <2>2. since[h[1]] <= k /\ since[h[1]] \in Nat /\ Len(chosen) \in Nat
        <3>1. since[h[1]] <= k
            BY <1>8, <1>9, <2>1, CallState DEF ServiceInv, SinceInv
        <3>2. since[h[1]] \in Nat /\ Len(chosen) \in Nat
            BY <1>6, CallState, SeqFacts DEF ServiceInv, Types
        <3> QED
            BY <3>1, <3>2
    <2> QED
        BY <2>2, SMT
<1>10. <<>> \in Values
    BY SMT DEF Values
<1>11. "ErrNoKey" # "OK" /\ "command fail" # "OK" /\ {"ErrNoKey", "command fail", "OK"} \subseteq Errs
    BY DEF Errs
<1>12. \E err \in Errs, v \in Values :
          /\ handler' = [handler EXCEPT ![h] = Answered(h, err, v)]
          /\ err = "OK" => SameCommand(cm, op) /\ (op.Type = GetType => v = cm.Value)
    <2>1. handler' = [handler EXCEPT ![h] =
              IF op.Type = GetType
              THEN IF cm.Type = NoKeyType THEN Answered(h, "ErrNoKey", <<>>)
                   ELSE IF SameCommand(cm, op) THEN Answered(h, "OK", cm.Value)
                   ELSE Answered(h, "command fail", <<>>)
              ELSE Answered(h, IF SameCommand(cm, op) THEN "OK" ELSE "command fail", <<>>)]
        BY <1>2, <1>3, <1>5, <1>7 DEF Finish
    <2>2. CASE op.Type = GetType /\ cm.Type = NoKeyType
        BY <1>10, <1>11, <2>1, <2>2
    <2>3. CASE op.Type = GetType /\ cm.Type # NoKeyType /\ SameCommand(cm, op)
        BY <1>7, <1>11, <2>1, <2>3
    <2>4. CASE op.Type = GetType /\ cm.Type # NoKeyType /\ ~SameCommand(cm, op)
        BY <1>10, <1>11, <2>1, <2>4
    <2>5. CASE op.Type # GetType /\ SameCommand(cm, op)
        BY <1>10, <1>11, <2>1, <2>5
    <2>6. CASE op.Type # GetType /\ ~SameCommand(cm, op)
        BY <1>10, <1>11, <2>1, <2>6
    <2> QED
        BY <2>2, <2>3, <2>4, <2>5, <2>6
<1>13. PICK err \in Errs, v \in Values :
          /\ handler' = [handler EXCEPT ![h] = Answered(h, err, v)]
          /\ err = "OK" => SameCommand(cm, op) /\ (op.Type = GetType => v = cm.Value)
    BY <1>12
<1>14. err = "OK" /\ handler[h].live =>
          /\ \E i \in 1 .. Len(chosen) : chosen[i] = handler[h].op
          /\ handler[h].op.Type = GetType =>
                \E i \in since[h[1]] .. Len(chosen) : Contents[i][handler[h].op.Key] = v
    BY <1>2, <1>3, <1>7, <1>8, <1>9, <1>13 DEF Contents
<1>15. handler[h].st # "waiting"
    BY <1>1
<1> QED
    BY <1>1, <1>2, <1>13, <1>14, <1>15, Answers

-----------------------------------------------------------------------------
(* The Applier *)

(* The rest of what is sent. *)
LEMMA FeedsTail ==
    ASSUME NEW q \in Seq(Nat), NEW n \in Nat, NEW c \in Nat, Feeds(q, n, c), q # <<>>
    PROVE  /\ Head(q) \in Nat /\ Head(q) \in 1 .. c /\ (Head(q) = n \/ Head(q) = n + 1)
           /\ Tail(q) \in Seq(Nat) /\ Feeds(Tail(q), Head(q), c)
<1>1. PICK m \in Nat : m = Len(q) /\ m >= 1
    <2>1. Len(q) \in Nat /\ Len(q) # 0
        BY SeqFacts
    <2> QED
        BY <2>1, SMT
<1>2. PICK k : k = Head(q) /\ k = q[1]
    BY TailFacts
<1>3. PICK p \in Seq(Nat) : p = Tail(q) /\ Len(p) = m - 1 /\ \A i \in 1 .. m - 1 : p[i] = q[i + 1]
    <2>1. Tail(q) \in Seq(Nat) /\ Len(Tail(q)) = Len(q) - 1 /\ \A i \in 1 .. Len(q) - 1 : Tail(q)[i] = q[i + 1]
        BY TailFacts
    <2> QED
        BY <1>1, <2>1
<1>4. 1 \in 1 .. m
    BY <1>1, SMT
<1>5. k \in 1 .. c /\ (k = n \/ k = n + 1)
    BY <1>1, <1>2, <1>4 DEF Feeds
<1>6. k \in Nat /\ k <= c
    BY <1>5, SMT
<1>7. p = <<>> <=> m = 1
    <2>1. p = <<>> <=> Len(p) = 0
        BY <1>3, SeqFacts
    <2> QED
        BY <1>1, <1>3, <2>1, SMT
<1>8. q[m] = c
    BY <1>1 DEF Feeds
<1>9. p = <<>> => k = c
    BY <1>2, <1>7, <1>8
<1>10. \A i \in 1 .. Len(p) : p[i] \in 1 .. c
    <2>1. \A i \in 1 .. Len(p) : i \in 1 .. m - 1 /\ i + 1 \in 1 .. m
        BY <1>1, <1>3, SMT
    <2> QED
        BY <1>1, <1>3, <2>1 DEF Feeds
<1>11. ASSUME p # <<>> PROVE p[1] \in {k, k + 1} /\ p[Len(p)] = c
    <2>1. m > 1
        BY <1>1, <1>7, <1>11, SMT
    <2>2. 1 \in 1 .. m - 1 /\ m - 1 \in 1 .. m - 1 /\ (m - 1) + 1 = m /\ 1 + 1 \in 1 .. m
        BY <1>1, <2>1, SMT
    <2>3. p[1] = q[1 + 1] /\ p[m - 1] = q[m]
        BY <1>3, <2>2
    <2>4. q[1 + 1] \in {q[1], q[1] + 1}
        BY <1>1, <2>2 DEF Feeds
    <2> QED
        BY <1>2, <1>3, <1>8, <2>3, <2>4
<1>12. \A i \in 1 .. Len(p) - 1 : p[i + 1] \in {p[i], p[i] + 1}
    <2>1. TAKE i \in 1 .. Len(p) - 1
    <2>2. i \in 1 .. m - 1 /\ i + 1 \in 1 .. m - 1
        BY <1>1, <1>3, SMT
    <2>3. p[i] = q[i + 1] /\ p[i + 1] = q[(i + 1) + 1]
        BY <1>3, <2>2
    <2> QED
        BY <1>1, <2>2, <2>3 DEF Feeds
<1> QED
    BY <1>2, <1>3, <1>5, <1>6, <1>9, <1>10, <1>11, <1>12 DEF Feeds

(* Replacing a value inside a value. *)
LEMMA NestedUpdate ==
    ASSUME NEW S, NEW f, NEW g, f = [t \in S |-> g[t]], NEW s \in S, NEW x, NEW y
    PROVE  /\ [f EXCEPT ![s][x] = y] = [f EXCEPT ![s] = [f[s] EXCEPT ![x] = y]]
           /\ [f EXCEPT ![s] = f[s]] = f
<1>1. [f EXCEPT ![s][x] = y] = [f EXCEPT ![s] = [f[s] EXCEPT ![x] = y]]
    OBVIOUS
<1>2. [f EXCEPT ![s] = f[s]] = f
    BY SMT
<1> QED
    BY <1>1, <1>2

(* The store and the clients' numbers after a command has been applied. *)
LEMMA ApplyStore ==
    ASSUME ServiceInv, NEW s \in Server, Apply(s)
    PROVE  LET k == Head(applyCh[s])
           IN  /\ mp' = [mp EXCEPT ![s] = ContentsOf(chosen)[k]]
               /\ CliMap' = [CliMap EXCEPT ![s] = NumbersOf(chosen, k)]
               /\ Result(s, chosen[k]) = ResultAt(chosen, k)
<1>1. PICK q \in Seq(Nat) : q = applyCh[s] /\ q # <<>>
    BY Lengths DEF Apply
<1>2. PICK k : k = Head(q)
    OBVIOUS
<1>3. PICK n \in Nat : n = lastApplied[s] /\ n \in 0 .. Len(chosen) /\ mp[s] = ContentsOf(chosen)[n]
                       /\ CliMap[s] = NumbersOf(chosen, n)
    BY Lengths
<1>4. k \in 1 .. commit[s] /\ (k = n \/ k = n + 1) /\ commit[s] \in Nat
    BY <1>1, <1>2, <1>3, FeedsTail, Lengths DEF ServiceInv, ApplyInv
<1>5. k \in 1 .. Len(chosen)
    BY <1>4, Lengths, SMT
<1>6. chosen \in Seq(Ops) /\ Ordered(chosen) /\ Unique(chosen)
    BY Lengths, ChosenUnique DEF ServiceInv, OrderInv
<1>7. PICK cm \in Ops : cm = chosen[k]
    BY <1>5, <1>6, SeqFacts
<1>8. PICK C : C = ContentsOf(chosen)
    OBVIOUS
<1>9. PICK N : N = CliMap[s]
    OBVIOUS
<1>10. /\ cm \in Command => NumbersOf(chosen, k) = [N EXCEPT ![cm.Id] = cm.Num]
       /\ cm \notin Command => NumbersOf(chosen, k) = N
    <2>1. /\ chosen[k] \in Command => NumbersOf(chosen, k) = [NumbersOf(chosen, n) EXCEPT ![chosen[k].Id] = chosen[k].Num]
          /\ chosen[k] \notin Command => NumbersOf(chosen, k) = NumbersOf(chosen, n)
        BY <1>3, <1>4, <1>5, <1>6, ApplyNumbers, SMT
    <2> QED
        BY <1>3, <1>7, <1>9, <2>1
<1>11. /\ cm.Type \notin {PutType, AppendType} => C[k] = C[n]
       /\ cm \in Command /\ ~(N[cm.Id] < cm.Num) => C[k] = C[n] /\ N[cm.Id] = cm.Num
       /\ cm \in Command /\ N[cm.Id] < cm.Num => k = n + 1 /\ First(chosen, k)
    <2>1. /\ chosen[k].Type \notin {PutType, AppendType} => ContentsOf(chosen)[k] = ContentsOf(chosen)[n]
          /\ chosen[k] \in Command /\ ~(NumbersOf(chosen, n)[chosen[k].Id] < chosen[k].Num) =>
                ContentsOf(chosen)[k] = ContentsOf(chosen)[n] /\ NumbersOf(chosen, n)[chosen[k].Id] = chosen[k].Num
          /\ chosen[k] \in Command /\ NumbersOf(chosen, n)[chosen[k].Id] < chosen[k].Num =>
                k = n + 1 /\ First(chosen, k)
        BY <1>3, <1>4, <1>5, <1>6, ApplyContents
    <2> QED
        BY <1>3, <1>7, <1>8, <1>9, <2>1
<1>12. PICK new : new = IF cm.Type = AppendType THEN Append(C[n][cm.Key], Value(cm)) ELSE <<Value(cm)>>
    OBVIOUS
<1>13. Executes(s, cm) <=> cm.Type \in {PutType, AppendType} /\ N[cm.Id] < cm.Num
    BY <1>9 DEF Executes
<1>14. /\ mp' = IF Executes(s, cm) THEN [mp EXCEPT ![s][cm.Key] = new] ELSE mp
       /\ CliMap' = IF Executes(s, cm) \/ cm.Type = GetType THEN [CliMap EXCEPT ![s][cm.Id] = cm.Num] ELSE CliMap
    BY <1>1, <1>2, <1>3, <1>7, <1>8, <1>12 DEF Apply
<1>15. /\ [mp EXCEPT ![s][cm.Key] = new] = [mp EXCEPT ![s] = [mp[s] EXCEPT ![cm.Key] = new]]
       /\ [mp EXCEPT ![s] = mp[s]] = mp
    <2>1. mp = [t \in Server |-> mp[t]]
        BY DEF ServiceInv, StoreInv
    <2> QED
        BY <2>1, NestedUpdate
<1>16. /\ [CliMap EXCEPT ![s][cm.Id] = cm.Num] = [CliMap EXCEPT ![s] = [N EXCEPT ![cm.Id] = cm.Num]]
       /\ [CliMap EXCEPT ![s] = N] = CliMap
    <2>1. CliMap = [t \in Server |-> CliMap[t]]
        BY DEF ServiceInv, StoreInv
    <2> QED
        BY <1>9, <2>1, NestedUpdate
<1>17. mp' = [mp EXCEPT ![s] = C[k]]
    <2>1. CASE Executes(s, cm)
        <3>1. cm \in Command /\ k = n + 1 /\ First(chosen, k) /\ cm.Type \in {PutType, AppendType}
            BY <1>11, <1>13, <2>1, Commands
        <3>2. k - 1 = n
            BY <3>1, SMT
        <3>3. C[k] = Executed(chosen, k, C[n])
            BY <1>5, <1>6, <1>8, <3>2, ContentsUnfold, SeqFacts
        <3>4. PutType # AppendType
            BY SMT DEF PutType, AppendType
        <3>5. C[k] = [C[n] EXCEPT ![cm.Key] = new]
            BY <1>7, <1>12, <3>1, <3>3, <3>4 DEF Executed
        <3> QED
            BY <1>3, <1>8, <1>14, <1>15, <2>1, <3>5
    <2>2. CASE ~Executes(s, cm)
        <3>1. C[k] = C[n]
            BY <1>11, <1>13, <2>2, Commands
        <3> QED
            BY <1>3, <1>8, <1>14, <1>15, <2>2, <3>1
    <2> QED
        BY <2>1, <2>2
<1>18. CliMap' = [CliMap EXCEPT ![s] = NumbersOf(chosen, k)]
    <2>1. CASE Executes(s, cm) \/ cm.Type = GetType
        <3>1. cm \in Command
            BY <1>13, <2>1, Commands
        <3> QED
            BY <1>10, <1>14, <1>16, <2>1, <3>1
    <2>2. CASE ~(Executes(s, cm) \/ cm.Type = GetType) /\ cm \in Command
        <3>1. N[cm.Id] = cm.Num
            BY <1>11, <1>13, <2>2, Commands
        <3>2. N \in [Client -> Nat]
            <4>1. NumbersOf(chosen, n) \in [Client -> Nat]
                BY <1>3, <1>6, NumbersFacts
            <4> QED
                BY <1>3, <1>9, <4>1
        <3>3. [N EXCEPT ![cm.Id] = cm.Num] = N
            BY <3>1, <3>2, SMT
        <3> QED
            BY <1>10, <1>14, <1>16, <2>2, <3>3
    <2>3. CASE ~(Executes(s, cm) \/ cm.Type = GetType) /\ cm \notin Command
        BY <1>10, <1>14, <1>16, <2>3
    <2> QED
        BY <2>1, <2>2, <2>3
<1>19. Result(s, cm) = ResultAt(chosen, k)
    <2>1. CASE cm.Type # GetType
        BY <1>7, <2>1 DEF Result, ResultAt
    <2>2. CASE cm.Type = GetType
        <3>1. GetType \notin {PutType, AppendType}
            BY SMT DEF GetType, PutType, AppendType
        <3>2. mp[s] = ContentsOf(chosen)[k]
            BY <1>3, <1>8, <1>11, <2>2, <3>1
        <3> QED
            BY <1>7, <2>2, <3>2 DEF Result, ResultAt
    <2> QED
        BY <2>1, <2>2
<1> QED
    BY <1>1, <1>2, <1>7, <1>8, <1>17, <1>18, <1>19

(* Applying a command leaves the store as the reference has it. *)
LEMMA ApplyKeeps ==
    ASSUME ServiceInv, NEW s \in Server, Apply(s)
    PROVE  ServiceInv'
<1>1. PICK q \in Seq(Nat) : q = applyCh[s] /\ q # <<>>
    BY Lengths DEF Apply
<1>2. PICK k : k = Head(q)
    OBVIOUS
<1>3. /\ applyCh' = [applyCh EXCEPT ![s] = Tail(q)] /\ lastApplied' = [lastApplied EXCEPT ![s] = k]
      /\ applier' = [applier EXCEPT ![s] = [st |-> "handing", index |-> k, cm |-> Result(s, chosen[k])]]
      /\ UNCHANGED <<log, lead, chosen, commit, ClientCh, snap, offer, handler, clerk, since>>
    BY <1>1, <1>2 DEF Apply, snapVars, clientVars
<1>4. /\ mp' = [mp EXCEPT ![s] = ContentsOf(chosen)[k]]
      /\ CliMap' = [CliMap EXCEPT ![s] = NumbersOf(chosen, k)]
      /\ Result(s, chosen[k]) = ResultAt(chosen, k)
    BY <1>1, <1>2, ApplyStore
<1>5. PICK n \in Nat : n = lastApplied[s]
    BY Lengths
<1>6. /\ k \in Nat /\ k \in 1 .. commit[s] /\ (k = n \/ k = n + 1) /\ commit[s] \in Nat
      /\ Tail(q) \in Seq(Nat) /\ Feeds(Tail(q), k, commit[s])
    BY <1>1, <1>2, <1>5, FeedsTail, Lengths DEF ServiceInv, ApplyInv
<1>7. k \in 1 .. Len(chosen) /\ k \in 0 .. Len(chosen) /\ n \in 0 .. k
    BY <1>5, <1>6, Lengths, SMT
<1>8. chosen \in Seq(Ops)
    BY Lengths
<1>9. PICK res : res = ResultAt(chosen, k) /\ res \in Ops \cup Found
    BY <1>7, <1>8, ResultFacts
<1>10. PICK a : a = [st |-> "handing", index |-> k, cm |-> res]
    OBVIOUS
<1>11. a \in [st : {"handing"}, index : Nat, cm : Ops \cup Found] /\ a.index = k /\ a.cm = res
    BY <1>6, <1>9, <1>10, SMT
<1>12. /\ applyCh \in [Server -> Seq(Nat)] /\ lastApplied \in [Server -> Nat]
       /\ applier \in [Server -> {Idle} \cup [st : {"handing"}, index : Nat, cm : Ops \cup Found]]
    BY DEF ServiceInv, Types
<1>13. applier' = [applier EXCEPT ![s] = a]
    BY <1>3, <1>4, <1>9, <1>10
<1>14. /\ applyCh' \in [Server -> Seq(Nat)] /\ lastApplied' \in [Server -> Nat]
       /\ applier' \in [Server -> {Idle} \cup [st : {"handing"}, index : Nat, cm : Ops \cup Found]]
       /\ applyCh'[s] = Tail(q) /\ lastApplied'[s] = k /\ applier'[s] = a
       /\ \A t \in Server : t # s => applyCh'[t] = applyCh[t] /\ lastApplied'[t] = lastApplied[t] /\ applier'[t] = applier[t]
    <2>1. PICK v \in Seq(Nat) : v = Tail(q)
        BY <1>6
    <2>2. applyCh' \in [Server -> Seq(Nat)] /\ applyCh'[s] = v /\ \A t \in Server : t # s => applyCh'[t] = applyCh[t]
        BY <1>3, <1>12, <2>1
    <2>3. /\ lastApplied' \in [Server -> Nat] /\ lastApplied'[s] = k
          /\ \A t \in Server : t # s => lastApplied'[t] = lastApplied[t]
        BY <1>3, <1>6, <1>12
    <2>4. /\ applier' \in [Server -> {Idle} \cup [st : {"handing"}, index : Nat, cm : Ops \cup Found]]
          /\ applier'[s] = a /\ \A t \in Server : t # s => applier'[t] = applier[t]
        BY <1>11, <1>12, <1>13
    <2> QED
        BY <2>1, <2>2, <2>3, <2>4
<1>15. Types'
    BY <1>3, <1>14 DEF ServiceInv, Types, CallRec, ClerkRec
<1>16. OpsInv'
    <2>1. \A x \in Command : Placed(x)' => Placed(x)
        BY <1>3 DEF Placed
    <2> QED
        BY <1>3, <2>1, OpsKeeps DEF ServiceInv
<1>17. OrderInv' /\ ClerkInv' /\ SinceInv' /\ ChannelInv'
    BY <1>3, SameOrder, SameClerks DEF ServiceInv
<1>18. ApplyInv'
    BY <1>3, <1>6, <1>14 DEF ServiceInv, ApplyInv
<1>19. StoreInv'
    <2>1. /\ mp = [t \in Server |-> ContentsOf(chosen)[lastApplied[t]]]
          /\ CliMap = [t \in Server |-> NumbersOf(chosen, lastApplied[t])]
        BY DEF ServiceInv, StoreInv, Contents, Numbers
    <2>2. ContentsOf(chosen') = ContentsOf(chosen) /\ \A t \in Server : NumbersOf(chosen', lastApplied'[t]) = NumbersOf(chosen, lastApplied'[t])
        BY <1>3
    <2>3. mp' = [t \in Server |-> ContentsOf(chosen')[lastApplied'[t]]]
        BY <1>4, <1>14, <2>1, <2>2
    <2>4. CliMap' = [t \in Server |-> NumbersOf(chosen', lastApplied'[t])]
        BY <1>4, <1>14, <2>1, <2>2
    <2> QED
        BY <2>3, <2>4 DEF StoreInv, Contents, Numbers
<1>20. HandInv'
    BY <1>3, <1>7, <1>9, <1>11, <1>14 DEF ServiceInv, HandInv
<1>21. CallInv'
    <2>1. SUFFICES ASSUME NEW h \in Call, handler'[h] # Unused PROVE CallAt(h, handler[h])'
        BY DEF CallInv
    <2>2. PICK r \in CallRec : r = handler[h] /\ CallAt(h, r)
        BY <1>3, <2>1, CallState
    <2>3. r.server \in Server /\ r.op \in Command
        BY <2>2, CallFields
    <2>4. r.op.Id \in Client /\ r.op.Num \in Nat
        BY <2>3, Commands
    <2>5. CliMap[r.server][r.op.Id] >= r.op.Num => CliMap'[r.server][r.op.Id] >= r.op.Num
        <3>1. CASE r.server # s
            BY <1>4, <2>3, <3>1 DEF ServiceInv, StoreInv
        <3>2. CASE r.server = s
            <4>1. CliMap[s] = NumbersOf(chosen, n) /\ CliMap'[s] = NumbersOf(chosen, k)
                BY <1>4, <1>5, Lengths DEF ServiceInv, StoreInv
            <4>2. NumbersOf(chosen, n)[r.op.Id] <= NumbersOf(chosen, k)[r.op.Id]
                BY <1>7, <1>8, <2>4, NumbersGrow
            <4>3. n \in 0 .. Len(chosen)
                BY <1>5, Lengths
            <4>4. NumbersOf(chosen, n)[r.op.Id] \in Nat /\ NumbersOf(chosen, k)[r.op.Id] \in Nat
                <5>1. NumbersOf(chosen, n) \in [Client -> Nat] /\ NumbersOf(chosen, k) \in [Client -> Nat]
                    BY <1>7, <1>8, <4>3, NumbersFacts
                <5> QED
                    BY <2>4, <5>1
            <4>5. ASSUME NEW i \in Nat, NEW j \in Nat, NEW v \in Nat, i >= v, i <= j PROVE j >= v
                BY <4>5, SMT
            <4>6. PICK i \in Nat, j \in Nat : i = CliMap[s][r.op.Id] /\ j = CliMap'[s][r.op.Id] /\ i <= j
                BY <4>1, <4>2, <4>4
            <4>7. i >= r.op.Num => j >= r.op.Num
                BY <2>4, <4>5, <4>6
            <4> QED
                BY <3>2, <4>6, <4>7
        <3> QED
            BY <3>1, <3>2
    <2>6. since[h[1]] \in Nat
        BY CallState DEF ServiceInv, Types
    <2>7. StartsWith(chosen', chosen)
        BY <1>3, <1>8, SeqFacts, SameStart
    <2>8. CallAt(h, r)'
        BY <1>3, <1>8, <2>2, <2>5, <2>6, <2>7, CallKeeps
    <2> QED
        BY <1>3, <2>2, <2>8 DEF CallAt, OKed
<1> QED
    BY <1>15, <1>16, <1>17, <1>18, <1>19, <1>20, <1>21 DEF ServiceInv

(* The handlers at an index receive the result of its command. *)
LEMMA HandOutKeeps ==
    ASSUME ServiceInv, NEW s \in Server, HandOut(s)
    PROVE  ServiceInv'
<1>1. PICK k : k = applier[s].index
    OBVIOUS
<1>2. PICK W : W = ClientCh[s][k]
    OBVIOUS
<1>3. PICK cm : cm = applier[s].cm
    OBVIOUS
<1>4. /\ applier[s].st = "handing" /\ handler' = Woken(W, cm) /\ ClientCh' = [ClientCh EXCEPT ![s][k] = {}]
      /\ applier' = [applier EXCEPT ![s] = Idle]
      /\ UNCHANGED <<log, lead, chosen, commit, applyCh, mp, CliMap, lastApplied, snap, offer, clerk, since>>
    BY <1>1, <1>2, <1>3 DEF HandOut, AfterHandOut, raftVars, storeVars, snapVars
<1>5. applier[s] # Idle
    <2>1. Idle.st = "idle"
        BY SMT DEF Idle
    <2> QED
        BY <1>4, <2>1
<1>6. k \in 1 .. Len(chosen) /\ cm = ResultAt(chosen, k)
    BY <1>1, <1>3, <1>5 DEF ServiceInv, HandInv
<1>7. chosen \in Seq(Ops) /\ Len(chosen) \in Nat /\ Len(chosen) <= MaxLog
    BY Lengths DEF ServiceInv, Types
<1>8. k \in 1 .. MaxLog
    BY <1>6, <1>7, Constants, SMT
<1>9. ClientCh \in [Server -> [1 .. MaxLog -> SUBSET Call]]
    BY DEF ServiceInv, Types
<1>10. /\ ClientCh' \in [Server -> [1 .. MaxLog -> SUBSET Call]]
       /\ \A t \in Server, j \in 1 .. MaxLog : \A g \in ClientCh'[t][j] : g \in ClientCh[t][j] /\ ~(t = s /\ j = k)
    <2>1. /\ ClientCh' \in [Server -> [1 .. MaxLog -> SUBSET Call]] /\ ClientCh'[s][k] = {}
          /\ \A t \in Server, j \in 1 .. MaxLog : ~(t = s /\ j = k) => ClientCh'[t][j] = ClientCh[t][j]
        <3>1. PICK N \in SUBSET Call : N = {}
            OBVIOUS
        <3>2. ClientCh' = [ClientCh EXCEPT ![s][k] = N]
            BY <1>4, <3>1
        <3>3. /\ ClientCh' \in [Server -> [1 .. MaxLog -> SUBSET Call]] /\ ClientCh'[s][k] = N
              /\ \A t \in Server, j \in 1 .. MaxLog : ~(t = s /\ j = k) => ClientCh'[t][j] = ClientCh[t][j]
            BY <1>8, <1>9, <3>2, ChannelUpdate
        <3> QED
            BY <3>1, <3>3
    <2> QED
        BY <2>1
<1>11. \A g \in W : g \in Call /\ handler[g].st = "waiting" /\ handler[g].server = s /\ handler[g].index = k
    BY <1>2, <1>8, ChannelState, SMT
<1>12. handler' = [g \in Call |-> IF g \in W THEN [handler[g] EXCEPT !.st = "woken", !.cm = cm] ELSE handler[g]]
    BY <1>4 DEF Woken
<1>13. ASSUME NEW g \in W
       PROVE  handler[g] # Unused /\ GoesOn(g, handler'[g]) /\ handler'[g].st = "woken"
    <2>1. PICK q \in CallRec : q = handler[g] /\ CallAt(g, q)
        BY <1>11, CallState
    <2>2. PICK r : r = [q EXCEPT !.st = "woken", !.cm = cm]
        OBVIOUS
    <2>3. handler'[g] = r
        BY <1>11, <1>12, <2>1, <2>2
    <2>4. cm \in Ops \cup Found
        BY <1>6, <1>7, ResultFacts
    <2>5. r \in CallRec /\ r.op = q.op /\ r.live = q.live /\ r.st = "woken" /\ r.cm = cm
        <3>1. PICK p : p = [q EXCEPT !.st = "woken"]
            OBVIOUS
        <3>2. r = [p EXCEPT !.cm = cm] /\ "woken" \in States
            BY <2>2, <3>1 DEF States
        <3>3. p \in CallRec /\ p.st = "woken" /\ p.op = q.op /\ p.live = q.live
            BY <3>1, <3>2, SetSt
        <3> QED
            BY <2>4, <3>2, <3>3, SetCm
    <2>6. q.st = "waiting"
        BY <1>11, <2>1
    <2>7. CallAt(g, r)
        BY <1>6, <2>1, <2>5 DEF CallAt
    <2> QED
        BY <1>11, <2>1, <2>3, <2>5, <2>7, CallFields, CallState DEF GoesOn
<1>14. \A g \in Call : g \notin W => handler'[g] = handler[g]
    BY <1>12
<1>15. /\ \A g \in Call : /\ handler'[g] \in {Unused} \cup CallRec
                          /\ handler'[g] # Unused => handler[g] # Unused /\ handler'[g].op = handler[g].op
       /\ ClerkInv' /\ CallInv' /\ SinceInv'
    BY <1>4, <1>13, <1>14, CallsGoOn
<1>16. handler' \in [Call -> {Unused} \cup CallRec]
    BY <1>12, <1>15
<1>17. /\ applier' \in [Server -> {Idle} \cup [st : {"handing"}, index : Nat, cm : Ops \cup Found]]
       /\ applier'[s] = Idle /\ \A t \in Server : t # s => applier'[t] = applier[t]
    BY <1>4 DEF ServiceInv, Types
<1>18. Types'
    BY <1>4, <1>10, <1>16, <1>17 DEF ServiceInv, Types, CallRec, ClerkRec
<1>19. OpsInv'
    <2>1. \A x \in Command : Placed(x)' => Placed(x)
        BY <1>4, <1>15 DEF Placed
    <2> QED
        BY <1>4, <2>1, OpsKeeps DEF ServiceInv
<1>20. OrderInv' /\ ApplyInv'
    BY <1>4 DEF ServiceInv, OrderInv, ApplyInv
<1>21. StoreInv'
    BY <1>4 DEF ServiceInv, StoreInv, Contents, Numbers
<1>22. HandInv'
    BY <1>4, <1>17 DEF ServiceInv, HandInv
<1>23. ChannelInv'
    <2>1. SUFFICES ASSUME NEW t \in Server, NEW j \in 1 .. MaxLog, NEW g \in ClientCh'[t][j]
                   PROVE  handler'[g].st = "waiting" /\ handler'[g].server = t /\ handler'[g].index = j
        BY DEF ChannelInv
    <2>2. g \in ClientCh[t][j] /\ ~(t = s /\ j = k)
        BY <1>10
    <2>3. handler[g].st = "waiting" /\ handler[g].server = t /\ handler[g].index = j /\ g \in Call
        BY <2>2, ChannelState, SMT
    <2>4. g \notin W
        BY <1>11, <2>2, <2>3
    <2> QED
        BY <1>14, <2>3, <2>4
<1> QED
    BY <1>15, <1>18, <1>19, <1>20, <1>21, <1>22, <1>23 DEF ServiceInv

-----------------------------------------------------------------------------
(* Restart *)

(* A restarted server applies the log again, from its first entry. *)
LEMMA RestartKeeps ==
    ASSUME ServiceInv, NEW s \in Server, Restart(s)
    PROVE  ServiceInv'
<1>1. snap[s] = [Mp |-> Empty, CliMap |-> [c \in Client |-> 0], LastIndex |-> 0]
    BY DEF ServiceInv, Types
<1>2. snap[s].Mp = Empty /\ snap[s].CliMap = [c \in Client |-> 0] /\ snap[s].LastIndex = 0
    BY <1>1, SMT
<1>3. /\ lead' = (IF lead = s THEN Nobody ELSE lead)
      /\ commit' = [commit EXCEPT ![s] = 0] /\ applyCh' = [applyCh EXCEPT ![s] = <<>>]
      /\ mp' = [mp EXCEPT ![s] = Empty] /\ CliMap' = [CliMap EXCEPT ![s] = [c \in Client |-> 0]]
      /\ lastApplied' = [lastApplied EXCEPT ![s] = 0]
      /\ applier' = [applier EXCEPT ![s] = Idle] /\ offer' = [offer EXCEPT ![s] = NoOffer]
      /\ UNCHANGED <<log, chosen, snap, clerk, since>>
    BY <1>2 DEF Restart
<1>4. chosen \in Seq(Ops) /\ Len(chosen) \in Nat /\ 0 \in 0 .. Len(chosen) /\ 0 <= Len(chosen)
    <2>1. chosen \in Seq(Ops) /\ Len(chosen) \in Nat
        BY Lengths
    <2> QED
        BY <2>1, SMT
<1>5. ContentsOf(chosen)[0] = Empty
    BY <1>4, ContentsUnfold
<1>6. NumbersOf(chosen, 0) = [c \in Client |-> 0]
    <2>1. \A j : j \notin 1 .. 0
        BY SMT
    <2>2. \A c \in Client : IsNumber(chosen, 0, c, 0)
        BY <2>1 DEF IsNumber
    <2>3. NumbersOf(chosen, 0) \in [Client -> Nat] /\ \A c \in Client : NumbersOf(chosen, 0)[c] = 0
        <3>1. 0 \in Nat
            BY SMT
        <3>2. /\ NumbersOf(chosen, 0) \in [Client -> Nat]
              /\ \A c \in Client, v \in Nat : IsNumber(chosen, 0, c, v) => v = NumbersOf(chosen, 0)[c]
            BY <1>4, NumbersFacts
        <3> QED
            BY <2>2, <3>1, <3>2
    <2>4. PICK f : f = NumbersOf(chosen, 0)
        OBVIOUS
    <2> QED
        BY <2>3, <2>4, SMT
<1>7. /\ commit \in [Server -> Nat] /\ applyCh \in [Server -> Seq(Nat)] /\ lastApplied \in [Server -> Nat]
      /\ applier \in [Server -> {Idle} \cup [st : {"handing"}, index : Nat, cm : Ops \cup Found]]
      /\ ClientCh \in [Server -> [1 .. MaxLog -> SUBSET Call]] /\ handler \in [Call -> {Unused} \cup CallRec]
      /\ lead \in Server \cup {Nobody} /\ offer = [t \in Server |-> NoOffer]
    BY DEF ServiceInv, Types
<1>8. /\ commit' \in [Server -> Nat] /\ lastApplied' \in [Server -> Nat]
      /\ commit'[s] = 0 /\ lastApplied'[s] = 0
      /\ \A t \in Server : t # s => commit'[t] = commit[t] /\ lastApplied'[t] = lastApplied[t]
    BY <1>3, <1>7, SMT
<1>9. /\ applyCh' \in [Server -> Seq(Nat)] /\ applyCh'[s] = <<>>
      /\ \A t \in Server : t # s => applyCh'[t] = applyCh[t]
    BY <1>3, <1>7, SMT
<1>10. /\ applier' \in [Server -> {Idle} \cup [st : {"handing"}, index : Nat, cm : Ops \cup Found]]
       /\ applier'[s] = Idle /\ \A t \in Server : t # s => applier'[t] = applier[t]
    BY <1>3, <1>7
<1>11. offer' = [t \in Server |-> NoOffer] /\ lead' \in Server \cup {Nobody}
    BY <1>3, <1>7
<1>12. ClientCh' = [ClientCh EXCEPT ![s] = [k \in DOMAIN ClientCh[s] |-> {}]]
    BY DEF Restart
<1>13. /\ ClientCh' \in [Server -> [1 .. MaxLog -> SUBSET Call]]
       /\ \A k \in 1 .. MaxLog : ClientCh'[s][k] = {}
       /\ \A t \in Server : t # s => ClientCh'[t] = ClientCh[t]
    <2>1. DOMAIN ClientCh[s] = 1 .. MaxLog
        BY <1>7
    <2>2. PICK e : e = [k \in 1 .. MaxLog |-> {}]
        OBVIOUS
    <2>3. e \in [1 .. MaxLog -> SUBSET Call] /\ \A k \in 1 .. MaxLog : e[k] = {}
        BY <2>2
    <2>4. ClientCh' = [ClientCh EXCEPT ![s] = e]
        BY <1>12, <2>1, <2>2
    <2> QED
        BY <1>7, <2>3, <2>4
<1>14. handler' = [h \in Call |->
           IF handler[h].st \in {"none", "sent", "replied", "dead"} \/ handler[h].server # s THEN handler[h]
           ELSE IF handler[h].live THEN [handler[h] EXCEPT !.st = "dead"] ELSE Unused]
    BY DEF Restart
<1>15. ASSUME NEW g \in Call, ~(handler[g].st \in {"none", "sent", "replied", "dead"} \/ handler[g].server # s)
       PROVE  handler[g] # Unused /\ GoesOn(g, handler'[g]) /\ handler'[g].st # "reading"
    <2>1. PICK q \in CallRec : q = handler[g] /\ CallAt(g, q) /\ q # Unused
        BY <1>15, CallState
    <2>2. CASE q.live
        <3>1. PICK r : r = [q EXCEPT !.st = "dead"]
            OBVIOUS
        <3>2. handler'[g] = r
            BY <1>14, <1>15, <2>1, <2>2, <3>1
        <3>3. r \in CallRec /\ r.op = q.op /\ r.live = q.live /\ r.st = "dead"
            <4>1. "dead" \in States
                BY DEF States
            <4> QED
                BY <3>1, <4>1, SetSt
        <3>4. CallAt(g, r)
            BY <2>1, <2>2, <3>3 DEF CallAt
        <3> QED
            BY <2>1, <3>2, <3>3, <3>4, CallFields DEF GoesOn
    <2>3. CASE ~q.live
        <3>1. handler'[g] = Unused
            BY <1>14, <1>15, <2>1, <2>3
        <3>2. Unused.st = "none"
            BY SMT DEF Unused
        <3> QED
            BY <2>1, <2>3, <3>1, <3>2 DEF GoesOn
    <2> QED
        BY <2>2, <2>3
<1>16. \A g \in Call : handler[g].st \in {"none", "sent", "replied", "dead"} \/ handler[g].server # s =>
                           handler'[g] = handler[g]
    BY <1>14
<1>17. \A g \in Call : handler'[g].st = "reading" => CliMap'[handler'[g].server] = CliMap[handler'[g].server]
    <2>1. TAKE g \in Call
    <2>2. HAVE handler'[g].st = "reading"
    <2>3. handler'[g] = handler[g] /\ handler[g].st = "reading" /\ handler[g].server # s
        BY <1>15, <1>16, <2>2
    <2>4. handler[g].server \in Server
        BY <2>3, CallState, CallFields
    <2> QED
        BY <1>3, <2>3, <2>4 DEF ServiceInv, StoreInv
<1>18. /\ \A g \in Call : /\ handler'[g] \in {Unused} \cup CallRec
                          /\ handler'[g] # Unused => handler[g] # Unused /\ handler'[g].op = handler[g].op
       /\ ClerkInv' /\ CallInv' /\ SinceInv'
    BY <1>3, <1>15, <1>16, <1>17, CallsGoOn
<1>19. handler' \in [Call -> {Unused} \cup CallRec]
    BY <1>14, <1>18
<1>20. Types'
    BY <1>3, <1>8, <1>9, <1>10, <1>11, <1>13, <1>19 DEF ServiceInv, Types, CallRec, ClerkRec
<1>21. OpsInv'
    <2>1. \A x \in Command : Placed(x)' => Placed(x)
        BY <1>3, <1>18 DEF Placed
    <2> QED
        BY <1>3, <2>1, OpsKeeps DEF ServiceInv
<1>22. OrderInv'
    BY <1>3 DEF ServiceInv, OrderInv
<1>23. ApplyInv'
    <2>1. Feeds(<<>>, 0, 0)
        BY SMT DEF Feeds
    <2> QED
        BY <1>3, <1>4, <1>8, <1>9, <2>1 DEF ServiceInv, ApplyInv
<1>24. StoreInv'
    <2>1. /\ mp = [t \in Server |-> ContentsOf(chosen)[lastApplied[t]]]
          /\ CliMap = [t \in Server |-> NumbersOf(chosen, lastApplied[t])]
        BY DEF ServiceInv, StoreInv, Contents, Numbers
    <2>2. mp' = [t \in Server |-> ContentsOf(chosen)[lastApplied'[t]]]
        BY <1>3, <1>5, <1>8, <2>1
    <2>3. CliMap' = [t \in Server |-> NumbersOf(chosen, lastApplied'[t])]
        BY <1>3, <1>6, <1>8, <2>1
    <2> QED
        BY <1>3, <2>2, <2>3 DEF StoreInv, Contents, Numbers
<1>25. HandInv'
    BY <1>3, <1>8, <1>10 DEF ServiceInv, HandInv
<1>26. ChannelInv'
    <2>1. SUFFICES ASSUME NEW t \in Server, NEW j \in 1 .. MaxLog, NEW g \in ClientCh'[t][j]
                   PROVE  handler'[g].st = "waiting" /\ handler'[g].server = t /\ handler'[g].index = j
        BY DEF ChannelInv
    <2>2. t # s /\ g \in ClientCh[t][j]
        BY <1>13
    <2>3. handler[g].st = "waiting" /\ handler[g].server = t /\ handler[g].index = j /\ g \in Call
        BY <2>2, ChannelState, SMT
    <2> QED
        BY <1>16, <2>2, <2>3
<1> QED
    BY <1>18, <1>20, <1>21, <1>22, <1>23, <1>24, <1>25, <1>26 DEF ServiceInv

-----------------------------------------------------------------------------
(* Clerks *)

(* A step of a clerk leaves the servers alone. *)
LEMMA ClerkStep ==
    ASSUME ServiceInv, UNCHANGED <<raftVars, storeVars, serviceVars, snapVars>>,
           handler' \in [Call -> {Unused} \cup CallRec], clerk' \in [Client -> ClerkRec], since' \in [Client -> Nat]
    PROVE  Types' /\ OrderInv' /\ ApplyInv' /\ StoreInv' /\ HandInv'
<1>1. /\ Types /\ mp' = mp /\ CliMap' = CliMap /\ lastApplied' = lastApplied /\ ClientCh' = ClientCh
      /\ applier' = applier /\ snap' = snap /\ offer' = offer
      /\ log' = log /\ chosen' = chosen /\ lead' = lead /\ commit' = commit /\ applyCh' = applyCh
    BY DEF ServiceInv, raftVars, storeVars, serviceVars, snapVars
<1>2. Types'
    BY <1>1 DEF Types, CallRec, ClerkRec
<1>3. OrderInv' /\ ApplyInv'
    BY <1>1 DEF ServiceInv, OrderInv, ApplyInv
<1>4. StoreInv' /\ HandInv'
    BY <1>1 DEF ServiceInv, StoreInv, HandInv, Contents, Numbers
<1> QED
    BY <1>2, <1>3, <1>4

(* A request. *)
LEMMA Requests ==
    ASSUME NEW c \in Client, NEW b \in Slot, NEW s \in Server, NEW op \in Command
    PROVE  /\ Send(c, b, s, op) \in CallRec /\ Send(c, b, s, op).op = op /\ Send(c, b, s, op).st = "sent"
           /\ Send(c, b, s, op).live = TRUE
<1>1. <<>> \in Values /\ 0 \in 0 .. MaxLog /\ NoopOp \in Ops \cup Found
    BY Constants, Commands, SMT DEF Values
<1>2. "sent" \in States /\ "" \in Errs /\ TRUE \in BOOLEAN
    BY DEF States, Errs
<1>3. Send(c, b, s, op) \in CallRec
    BY <1>1, <1>2 DEF Send, CallRec
<1>4. Send(c, b, s, op).op = op /\ Send(c, b, s, op).st = "sent" /\ Send(c, b, s, op).live = TRUE
    BY SMT DEF Send
<1> QED
    BY <1>3, <1>4

(* A call nobody waits for does not depend on the clerk. *)
LEMMA UnattendedKeeps ==
    ASSUME NEW h \in Call, NEW r, CallAt(h, r), ~r.live, chosen' = chosen, CliMap' = CliMap
    PROVE  CallAt(h, r)'
BY DEF CallAt, Used

(* A call of another clerk neither. *)
LEMMA OtherKeeps ==
    ASSUME NEW h \in Call, NEW r, CallAt(h, r), chosen' = chosen, CliMap' = CliMap,
           clerk'[h[1]] = clerk[h[1]], since'[h[1]] = since[h[1]]
    PROVE  CallAt(h, r)'
BY DEF CallAt, OKed, Used, Contents

(* A new command has a number that nobody has used. *)
LEMMA IssueKeeps ==
    ASSUME ServiceInv, NEW c \in Client, NEW type \in Kinds, NEW key \in Key, Issue(c, type, key)
    PROVE  ServiceInv'
<1>1. PICK n : n = clerk[c].number
    OBVIOUS
<1>2. PICK op : op = [Id |-> c, Num |-> n + 1, Type |-> type, Key |-> key]
    OBVIOUS
<1>3. op.Id = c /\ op.Num = n + 1
    BY <1>2, SMT
<1>4. /\ ~clerk[c].busy /\ n < MaxNum
      /\ since' = [since EXCEPT ![c] = Len(chosen)]
      /\ UNCHANGED <<raftVars, storeVars, serviceVars, snapVars>>
      /\ \E b \in Slot :
            /\ handler[<<c, b>>] = Unused
            /\ handler' = [handler EXCEPT ![<<c, b>>] = Send(c, b, clerk[c].leader, op)]
            /\ clerk' = [clerk EXCEPT ![c] =
                            [number |-> op.Num, leader |-> clerk[c].leader, busy |-> TRUE, slot |-> b]]
    BY <1>1, <1>2 DEF Issue
<1>5. PICK b \in Slot :
          /\ handler[<<c, b>>] = Unused
          /\ handler' = [handler EXCEPT ![<<c, b>>] = Send(c, b, clerk[c].leader, op)]
          /\ clerk' = [clerk EXCEPT ![c] = [number |-> op.Num, leader |-> clerk[c].leader, busy |-> TRUE, slot |-> b]]
    BY <1>4
<1>6. /\ clerk \in [Client -> ClerkRec] /\ since \in [Client -> Nat] /\ handler \in [Call -> {Unused} \cup CallRec]
      /\ clerk[c].leader \in Server /\ n \in 0 .. MaxNum
    BY <1>1 DEF ServiceInv, Types, ClerkRec
<1>7. n \in Nat /\ n + 1 \in 1 .. MaxNum /\ n + 1 \in 0 .. MaxNum
    BY <1>4, <1>6, Constants, SMT
<1>8. op \in Command
    BY <1>2, <1>7, SMT DEF Command
<1>9. PICK k : k = [number |-> n + 1, leader |-> clerk[c].leader, busy |-> TRUE, slot |-> b]
    OBVIOUS
<1>10. k \in ClerkRec /\ k.number = n + 1 /\ k.busy = TRUE /\ k.slot = b
    BY <1>6, <1>7, <1>9, SMT DEF ClerkRec
<1>11. PICK h \in Call : h = <<c, b>> /\ h[1] = c /\ h[2] = b
    <2>1. <<c, b>> \in Call /\ <<c, b>>[1] = c /\ <<c, b>>[2] = b
        BY SMT DEF Call
    <2> QED
        BY <2>1
<1>12. PICK r : r = Send(c, b, clerk[c].leader, op)
    OBVIOUS
<1>13. r \in CallRec /\ r.op = op /\ r.st = "sent" /\ r.live = TRUE /\ r # Unused
    <2>1. PICK s \in Server : s = clerk[c].leader
        BY <1>6
    <2>2. Send(c, b, s, op) \in CallRec /\ Send(c, b, s, op).op = op /\ Send(c, b, s, op).st = "sent"
          /\ Send(c, b, s, op).live = TRUE
        BY <1>8, Requests
    <2> QED
        BY <1>12, <2>1, <2>2, CallFields
<1>14. /\ clerk' \in [Client -> ClerkRec] /\ clerk'[c] = k /\ \A d \in Client : d # c => clerk'[d] = clerk[d]
    BY <1>3, <1>5, <1>6, <1>9, <1>10
<1>15. /\ handler' \in [Call -> {Unused} \cup CallRec] /\ handler'[h] = r
       /\ \A g \in Call : g # h => handler'[g] = handler[g]
    BY <1>5, <1>6, <1>11, <1>12, <1>13
<1>16. Len(chosen) \in Nat /\ chosen' = chosen /\ log' = log /\ ClientCh' = ClientCh /\ CliMap' = CliMap
    BY <1>4, SeqFacts DEF ServiceInv, Types, raftVars, serviceVars, storeVars
<1>17. /\ since' \in [Client -> Nat] /\ since'[c] = Len(chosen)
       /\ \A d \in Client : d # c => since'[d] = since[d]
    BY <1>4, <1>6, <1>16
<1>18. Types' /\ OrderInv' /\ ApplyInv' /\ StoreInv' /\ HandInv'
    BY <1>4, <1>14, <1>15, <1>17, ClerkStep
<1>19. \A x \in Command : Placed(x)' => Placed(x) \/ x = op
    BY <1>13, <1>15, <1>16 DEF Placed
<1>20. \A x \in Command : Placed(x) /\ x.Id = c => x.Num <= n /\ x.Num <= n + 1 /\ x.Num # n + 1
    <2>1. \A i \in Nat : i <= n => i <= n + 1 /\ i # n + 1
        BY <1>7, SMT
    <2> QED
        BY <1>1, <2>1, Commands DEF ServiceInv, OpsInv
<1>21. OpsInv'
    <2>1. SUFFICES ASSUME NEW x \in Command, Placed(x)'
                   PROVE  /\ x.Num <= clerk'[x.Id].number
                          /\ \A y \in Command : Placed(y)' /\ y.Id = x.Id /\ y.Num = x.Num => y = x
        BY DEF OpsInv
    <2>2. x.Num <= clerk'[x.Id].number
        <3>1. CASE x = op
            <4>1. n + 1 <= n + 1
                BY <1>7, SMT
            <4> QED
                BY <1>3, <1>10, <1>14, <3>1, <4>1
        <3>2. CASE Placed(x) /\ x.Id = c
            BY <1>10, <1>14, <1>20, <3>2
        <3>3. CASE Placed(x) /\ x.Id # c
            BY <1>14, <3>3, Commands DEF ServiceInv, OpsInv
        <3> QED
            BY <1>19, <2>1, <3>1, <3>2, <3>3
    <2>3. ASSUME NEW y \in Command, Placed(y)', y.Id = x.Id, y.Num = x.Num
          PROVE  y = x
        <3>1. CASE x = op
            BY <1>3, <1>19, <1>20, <2>3, <3>1
        <3>2. CASE y = op
            BY <1>3, <1>19, <1>20, <2>1, <2>3, <3>2
        <3>3. CASE x # op /\ y # op
            BY <1>19, <2>1, <2>3, <3>3 DEF ServiceInv, OpsInv
        <3> QED
            BY <3>1, <3>2, <3>3
    <2> QED
        BY <2>2, <2>3
<1>22. ClerkInv'
    <2>1. SUFFICES ASSUME NEW d \in Client, clerk'[d].busy
                   PROVE  handler'[<<d, clerk'[d].slot>>] # Unused /\ handler'[<<d, clerk'[d].slot>>].live
        BY DEF ClerkInv
    <2>2. CASE d = c
        BY <1>10, <1>11, <1>13, <1>14, <1>15, <2>2
    <2>3. CASE d # c
        <3>1. PICK g : g = <<d, clerk[d].slot>>
            OBVIOUS
        <3>2. clerk'[d] = clerk[d] /\ clerk[d].slot \in Slot
            BY <1>6, <1>14, <2>3 DEF ClerkRec
        <3>3. g \in Call /\ g # h
            BY <1>11, <2>3, <3>1, <3>2, SMT DEF Call
        <3>4. handler[g] # Unused /\ handler[g].live
            BY <2>1, <3>1, <3>2 DEF ServiceInv, ClerkInv
        <3> QED
            BY <1>15, <3>1, <3>2, <3>3, <3>4
    <2> QED
        BY <2>2, <2>3
<1>23. CallInv'
    <2>1. SUFFICES ASSUME NEW g \in Call, handler'[g] # Unused PROVE CallAt(g, handler[g])'
        BY DEF CallInv
    <2>2. PICK v : v = handler'[g]
        OBVIOUS
    <2>3. CallAt(g, v)'
        <3>1. CASE g = h
            BY <1>3, <1>10, <1>11, <1>13, <1>14, <1>15, <2>2, <3>1 DEF CallAt
        <3>2. CASE g # h /\ g[1] = c
            <4>1. CallAt(g, v)
                BY <1>15, <2>1, <2>2, <3>2, CallState
            <4>2. ~v.live
                BY <1>4, <3>2, <4>1 DEF CallAt
            <4> QED
                BY <1>16, <4>1, <4>2, UnattendedKeeps
        <3>3. CASE g # h /\ g[1] # c
            <4>1. CallAt(g, v) /\ g[1] \in Client
                BY <1>15, <2>1, <2>2, <3>3, CallState
            <4> QED
                BY <1>14, <1>16, <1>17, <3>3, <4>1, OtherKeeps
        <3> QED
            BY <3>1, <3>2, <3>3
    <2> QED
        BY <2>2, <2>3 DEF CallAt, OKed
<1>24. SinceInv'
    <2>1. \A j \in 1 .. Len(chosen) : Placed(chosen[j])
        BY DEF Placed
    <2>2. Len(chosen) <= Len(chosen)
        BY <1>16, SMT
    <2>3. ASSUME NEW d \in Client
          PROVE  /\ since'[d] <= Len(chosen)
                 /\ \A j \in 1 .. Len(chosen) :
                       chosen[j] \in Command /\ chosen[j].Id = d /\ chosen[j].Num = clerk'[d].number => since'[d] <= j
        <3>1. CASE d = c
            BY <1>10, <1>14, <1>17, <1>20, <2>1, <2>2, <3>1
        <3>2. CASE d # c
            BY <1>14, <1>17, <3>2 DEF ServiceInv, SinceInv
        <3> QED
            BY <3>1, <3>2
    <2> QED
        BY <1>16, <2>3 DEF SinceInv
<1>25. ChannelInv'
    <2>1. Unused.st # "waiting"
        BY SMT DEF Unused
    <2> QED
        BY <1>5, <1>11, <1>15, <1>16, <2>1, ChannelsKeep
<1> QED
    BY <1>18, <1>21, <1>22, <1>23, <1>24, <1>25 DEF ServiceInv

(* The call of a busy clerk. *)
LEMMA BusyCall ==
    ASSUME ServiceInv, NEW c \in Client, clerk[c].busy
    PROVE  \E h \in Call :
               /\ h = <<c, clerk[c].slot>> /\ h[1] = c /\ h[2] = clerk[c].slot /\ h[2] \in Slot
               /\ handler[h] \in CallRec /\ handler[h] # Unused /\ handler[h].live /\ CallAt(h, handler[h])
               /\ \A g \in Call : g # h /\ g[1] = c /\ handler[g] # Unused => ~handler[g].live
<1>1. PICK b \in Slot : b = clerk[c].slot
    BY DEF ServiceInv, Types, ClerkRec
<1>2. PICK h \in Call : h = <<c, b>> /\ h[1] = c /\ h[2] = b
    <2>1. <<c, b>> \in Call /\ <<c, b>>[1] = c /\ <<c, b>>[2] = b
        BY SMT DEF Call
    <2> QED
        BY <2>1
<1>3. handler[h] # Unused /\ handler[h].live
    BY <1>1, <1>2 DEF ServiceInv, ClerkInv
<1>4. handler[h] \in CallRec /\ CallAt(h, handler[h])
    BY <1>3, CallState
<1>5. ASSUME NEW g \in Call, g # h, g[1] = c, handler[g] # Unused
      PROVE  ~handler[g].live
    <2>1. g[2] # b
        BY <1>2, <1>5, CallState
    <2>2. CallAt(g, handler[g])
        BY <1>5, CallState
    <2> QED
        BY <1>1, <1>5, <2>1, <2>2 DEF CallAt
<1> QED
    BY <1>1, <1>2, <1>3, <1>4, <1>5

(* The server after the last is the first. *)
LEMMA ServerAfter ==
    ASSUME NEW s \in Server
    PROVE  NextServer(s) \in Server
BY Constants, SMT DEF NextServer, Server

(* The clerk sends the request again, in the slot of the call that is over. *)
LEMMA SendsAgain ==
    ASSUME ServiceInv, NEW h \in Call, handler[h] # Unused, handler[h].live, handler[h].st # "waiting",
           NEW s \in Server, handler' = [handler EXCEPT ![h] = Send(h[1], h[2], s, handler[h].op)],
           UNCHANGED <<raftVars, storeVars, serviceVars, snapVars, clerk, since>>
    PROVE  ServiceInv'
<1>1. PICK r : r = Send(h[1], h[2], s, handler[h].op)
    OBVIOUS
<1>2. handler[h].op \in Command /\ handler[h] \in CallRec /\ CallAt(h, handler[h]) /\ h[1] \in Client /\ h[2] \in Slot
    BY CallState, CallFields
<1>3. r \in CallRec /\ r.op = handler[h].op /\ r.st = "sent" /\ r.live = TRUE
    BY <1>1, <1>2, Requests
<1>4. CallAt(h, r)
    BY <1>2, <1>3 DEF CallAt
<1>5. handler[h].live = TRUE
    BY <1>2, CallFields
<1>6. GoesOn(h, r)
    BY <1>3, <1>4, <1>5, CallFields DEF GoesOn
<1>7. UNCHANGED <<log, ClientCh, chosen, lead, commit, applyCh, storeVars, applier, snapVars, clerk, since>>
    BY DEF raftVars, serviceVars
<1> QED
    BY <1>1, <1>6, <1>7, QuietHandler

(* A clerk returns, or sends its command again. *)
LEMMA ReceiveKeeps ==
    ASSUME ServiceInv, NEW c \in Client, Receive(c)
    PROVE  ServiceInv'
<1>1. clerk[c].busy /\ UNCHANGED <<raftVars, storeVars, serviceVars, snapVars, since>>
    BY DEF Receive
<1>2. PICK h \in Call :
          /\ h = <<c, clerk[c].slot>> /\ h[1] = c /\ h[2] = clerk[c].slot /\ h[2] \in Slot
          /\ handler[h] \in CallRec /\ handler[h] # Unused /\ handler[h].live /\ CallAt(h, handler[h])
          /\ \A g \in Call : g # h /\ g[1] = c /\ handler[g] # Unused => ~handler[g].live
    BY <1>1, BusyCall
<1>3. PICK r \in CallRec : r = handler[h]
    BY <1>2
<1>4. r.st = "replied" /\ r.server \in Server /\ r.Err # "discarded"
    <2>1. r.st = "replied"
        BY <1>2, <1>3 DEF Receive
    <2>2. r.server \in Server /\ r.Err \in {"", "OK", "ErrNoKey", "ErrWrongLeader", "command fail"}
        BY CallFields DEF Errs
    <2> QED
        BY <2>1, <2>2
<1>5. \/ /\ clerk' = [clerk EXCEPT ![c].busy = FALSE, ![c].leader = r.server]
         /\ handler' = [handler EXCEPT ![h] = Unused]
      \/ /\ handler' = [handler EXCEPT ![h] = Send(h[1], h[2], NextServer(r.server), r.op)]
         /\ clerk' = clerk
    BY <1>2, <1>3, <1>4 DEF Receive
<1>6. CASE /\ handler' = [handler EXCEPT ![h] = Send(h[1], h[2], NextServer(r.server), r.op)]
           /\ clerk' = clerk
    <2>1. NextServer(r.server) \in Server
        BY <1>4, ServerAfter
    <2>2. handler[h].st # "waiting"
        BY <1>3, <1>4
    <2> QED
        BY <1>1, <1>2, <1>3, <1>6, <2>1, <2>2, SendsAgain
<1>7. CASE /\ clerk' = [clerk EXCEPT ![c].busy = FALSE, ![c].leader = r.server]
           /\ handler' = [handler EXCEPT ![h] = Unused]
    <2>1. /\ clerk \in [Client -> ClerkRec] /\ since \in [Client -> Nat] /\ handler \in [Call -> {Unused} \cup CallRec]
        BY DEF ServiceInv, Types
    <2>2. PICK q \in ClerkRec : q = clerk[c]
        BY <2>1
    <2>3. PICK k : k = [q EXCEPT !.busy = FALSE, !.leader = r.server]
        OBVIOUS
    <2>4. k \in ClerkRec /\ k.number = q.number /\ k.busy = FALSE /\ k.slot = q.slot
        BY <1>4, <2>3 DEF ClerkRec
    <2>5. clerk' = [clerk EXCEPT ![c] = k]
        BY <1>7, <2>1, <2>2, <2>3
    <2>6. /\ clerk' \in [Client -> ClerkRec] /\ clerk'[c] = k /\ \A d \in Client : d # c => clerk'[d] = clerk[d]
        BY <2>1, <2>4, <2>5
    <2>7. /\ handler' \in [Call -> {Unused} \cup CallRec] /\ handler'[h] = Unused
          /\ \A g \in Call : g # h => handler'[g] = handler[g]
        BY <1>7, <2>1
    <2>8. Types' /\ OrderInv' /\ ApplyInv' /\ StoreInv' /\ HandInv'
        BY <1>1, <2>1, <2>6, <2>7, ClerkStep
    <2>9. chosen' = chosen /\ log' = log /\ ClientCh' = ClientCh /\ CliMap' = CliMap /\ since' = since
        BY <1>1 DEF raftVars, serviceVars, storeVars
    <2>10. \A d \in Client : clerk'[d].number = clerk[d].number
        BY <2>2, <2>4, <2>6
    <2>11. OpsInv'
        <3>1. \A x \in Command : Placed(x)' => Placed(x)
            BY <2>7, <2>9 DEF Placed
        <3> QED
            BY <2>10, <3>1, OpsKeeps DEF ServiceInv
    <2>12. ClerkInv'
        <3>1. SUFFICES ASSUME NEW d \in Client, clerk'[d].busy
                       PROVE  handler'[<<d, clerk'[d].slot>>] # Unused /\ handler'[<<d, clerk'[d].slot>>].live
            BY DEF ClerkInv
        <3>2. d # c /\ clerk'[d] = clerk[d] /\ clerk[d].slot \in Slot
            BY <2>1, <2>4, <2>6, <3>1 DEF ClerkRec
        <3>3. PICK g : g = <<d, clerk[d].slot>>
            OBVIOUS
        <3>4. g \in Call /\ g # h
            BY <1>2, <3>2, <3>3, SMT DEF Call
        <3>5. handler[g] # Unused /\ handler[g].live
            BY <3>1, <3>2, <3>3 DEF ServiceInv, ClerkInv
        <3> QED
            BY <2>7, <3>2, <3>3, <3>4, <3>5
    <2>13. CallInv'
        <3>1. SUFFICES ASSUME NEW g \in Call, handler'[g] # Unused PROVE CallAt(g, handler[g])'
            BY DEF CallInv
        <3>2. PICK v : v = handler[g]
            OBVIOUS
        <3>3. g # h /\ handler'[g] = v /\ CallAt(g, v) /\ g[1] \in Client
            BY <2>7, <3>1, <3>2, CallState
        <3>4. CallAt(g, v)'
            <4>1. CASE g[1] = c
                BY <1>2, <2>9, <3>1, <3>2, <3>3, <4>1, UnattendedKeeps
            <4>2. CASE g[1] # c
                BY <2>6, <2>9, <3>3, <4>2, OtherKeeps
            <4> QED
                BY <4>1, <4>2
        <3> QED
            BY <3>3, <3>4 DEF CallAt, OKed
    <2>14. SinceInv'
        BY <2>9, <2>10 DEF ServiceInv, SinceInv
    <2>15. ChannelInv'
        <3>1. handler[h].st # "waiting"
            BY <1>3, <1>4
        <3> QED
            BY <2>7, <2>9, <3>1, ChannelsKeep
    <2> QED
        BY <2>8, <2>11, <2>12, <2>13, <2>14, <2>15 DEF ServiceInv
<1> QED
    BY <1>5, <1>6, <1>7

(* The second of two assignments to one element is the one that counts. *)
LEMMA SetTwice ==
    ASSUME NEW S, NEW T, NEW f \in [S -> T], NEW x \in S, NEW u, NEW v
    PROVE  [f EXCEPT ![x] = u, ![x] = v] = [f EXCEPT ![x] = v]
OBVIOUS

(* A clerk whose call failed sends its command to the next server. *)
LEMMA CallFailsKeeps ==
    ASSUME ServiceInv, ~LateRequests, NEW c \in Client, CallFails(c)
    PROVE  ServiceInv'
<1>1. clerk[c].busy /\ UNCHANGED <<raftVars, storeVars, serviceVars, snapVars, since>>
    BY DEF CallFails
<1>2. PICK h \in Call :
          /\ h = <<c, clerk[c].slot>> /\ h[1] = c /\ h[2] = clerk[c].slot /\ h[2] \in Slot
          /\ handler[h] \in CallRec /\ handler[h] # Unused /\ handler[h].live /\ CallAt(h, handler[h])
          /\ \A g \in Call : g # h /\ g[1] = c /\ handler[g] # Unused => ~handler[g].live
    BY <1>1, BusyCall
<1>3. PICK r \in CallRec : r = handler[h]
    BY <1>2
<1>4. PICK b \in Slot :
          /\ b = h[2] \/ handler[<<c, b>>] = Unused
          /\ (b = h[2]) <=> Abandoned(r) = Unused
          /\ handler' = [handler EXCEPT ![h] = Abandoned(r), ![<<c, b>>] = Send(c, b, NextServer(r.server), r.op)]
          /\ clerk' = [clerk EXCEPT ![c].slot = b]
    BY <1>2, <1>3 DEF CallFails
<1>5. NextServer(r.server) \in Server /\ r.op \in Command
    BY CallFields, ServerAfter
<1>6. PICK m : m = Send(c, b, NextServer(r.server), r.op)
    OBVIOUS
<1>7. m \in CallRec /\ m.op = r.op /\ m.st = "sent" /\ m.live = TRUE /\ m # Unused
    <2>1. PICK s \in Server : s = NextServer(r.server)
        BY <1>5
    <2>2. Send(c, b, s, r.op) \in CallRec /\ Send(c, b, s, r.op).op = r.op /\ Send(c, b, s, r.op).st = "sent"
          /\ Send(c, b, s, r.op).live = TRUE
        BY <1>5, Requests
    <2> QED
        BY <1>6, <2>1, <2>2, CallFields
<1>8. /\ clerk \in [Client -> ClerkRec] /\ since \in [Client -> Nat] /\ handler \in [Call -> {Unused} \cup CallRec]
    BY DEF ServiceInv, Types
<1>9. PICK q \in ClerkRec : q = clerk[c]
    BY <1>8
<1>10. CASE b = h[2]
    <2>1. r.st \in {"replied", "dead", "sent"}
        <3>1. SUFFICES ASSUME r.st \notin {"replied", "dead", "sent"} PROVE FALSE
            OBVIOUS
        <3>2. PICK a : a = [r EXCEPT !.live = FALSE]
            OBVIOUS
        <3>3. a \in CallRec
            BY <3>2, SetLive
        <3>4. Abandoned(r) = a
            BY <3>1, <3>2 DEF Abandoned
        <3> QED
            BY <1>4, <1>10, <3>3, <3>4, CallFields
    <2>2. handler[h].st # "waiting"
        BY <1>3, <2>1
    <2>3. <<c, b>> = h
        BY <1>2, <1>10
    <2>4. handler' = [handler EXCEPT ![h] = m]
        <3>1. handler' = [handler EXCEPT ![h] = Abandoned(r), ![h] = m]
            BY <1>4, <1>6, <1>8, <2>3
        <3> QED
            BY <1>4, <3>1, SetTwice
    <2>5. clerk' = clerk
        <3>1. clerk' = [clerk EXCEPT ![c] = [q EXCEPT !.slot = b]]
            BY <1>4, <1>8, <1>9, SMT
        <3>2. [q EXCEPT !.slot = b] = q
            BY <1>2, <1>9, <1>10, SMT DEF ClerkRec
        <3> QED
            BY <1>8, <1>9, <3>1, <3>2, SMT
    <2>6. handler' = [handler EXCEPT ![h] = Send(h[1], h[2], NextServer(r.server), handler[h].op)]
        BY <1>2, <1>3, <1>6, <1>10, <2>4
    <2> QED
        BY <1>1, <1>2, <1>5, <2>2, <2>5, <2>6, SendsAgain
<1>11. CASE b # h[2]
    <2>1. PICK f \in Call : f = <<c, b>> /\ f[1] = c /\ f[2] = b
        <3>1. <<c, b>> \in Call /\ <<c, b>>[1] = c /\ <<c, b>>[2] = b
            BY SMT DEF Call
        <3> QED
            BY <3>1
    <2>2. f # h /\ handler[f] = Unused
        BY <1>2, <1>4, <1>11, <2>1
    <2>3. PICK a : a = [r EXCEPT !.live = FALSE]
        OBVIOUS
    <2>4. Abandoned(r) = a /\ r.st \notin {"replied", "dead", "sent"}
        BY <1>4, <1>11, <2>3 DEF Abandoned
    <2>5. /\ a \in CallRec /\ a.op = r.op /\ a.st = r.st /\ a.server = r.server /\ a.index = r.index
          /\ a.cm = r.cm /\ a.live = FALSE
        BY <2>3, SetLive
    <2>6. a # Unused
        BY <2>5, CallFields
    <2>7. /\ handler' \in [Call -> {Unused} \cup CallRec] /\ handler'[h] = a /\ handler'[f] = m
          /\ \A g \in Call : g # h /\ g # f => handler'[g] = handler[g]
        <3>1. handler' = [[handler EXCEPT ![h] = a] EXCEPT ![f] = m]
            BY <1>4, <1>6, <2>1, <2>4
        <3>2. PICK e : e = [handler EXCEPT ![h] = a]
            OBVIOUS
        <3>3. /\ e \in [Call -> {Unused} \cup CallRec] /\ e[h] = a
              /\ \A g \in Call : g # h => e[g] = handler[g]
            BY <1>8, <2>5, <3>2
        <3> QED
            BY <1>7, <2>2, <3>1, <3>2, <3>3
    <2>8. PICK k : k = [q EXCEPT !.slot = b]
        OBVIOUS
    <2>9. k \in ClerkRec /\ k.number = q.number /\ k.busy = q.busy /\ k.slot = b
        BY <2>8, SMT DEF ClerkRec
    <2>10. clerk' = [clerk EXCEPT ![c] = k]
        BY <1>4, <1>8, <1>9, <2>8, SMT
    <2>11. /\ clerk' \in [Client -> ClerkRec] /\ clerk'[c] = k /\ \A d \in Client : d # c => clerk'[d] = clerk[d]
        BY <1>8, <2>9, <2>10
    <2>12. Types' /\ OrderInv' /\ ApplyInv' /\ StoreInv' /\ HandInv'
        BY <1>1, <1>8, <2>7, <2>11, ClerkStep
    <2>13. chosen' = chosen /\ log' = log /\ ClientCh' = ClientCh /\ CliMap' = CliMap /\ since' = since
        BY <1>1 DEF raftVars, serviceVars, storeVars
    <2>14. \A d \in Client : clerk'[d].number = clerk[d].number
        BY <1>9, <2>9, <2>11
    <2>15. OpsInv'
        <3>1. \A g \in Call : handler'[g] # Unused =>
                  \E e \in Call : handler[e] # Unused /\ handler[e].op = handler'[g].op
            BY <1>2, <1>3, <1>7, <2>5, <2>7
        <3>2. \A x \in Command : Placed(x)' => Placed(x)
            BY <2>13, <3>1 DEF Placed
        <3> QED
            BY <2>14, <3>2, OpsKeeps DEF ServiceInv
    <2>16. ClerkInv'
        <3>1. SUFFICES ASSUME NEW d \in Client, clerk'[d].busy
                       PROVE  handler'[<<d, clerk'[d].slot>>] # Unused /\ handler'[<<d, clerk'[d].slot>>].live
            BY DEF ClerkInv
        <3>2. CASE d = c
            BY <1>7, <2>1, <2>7, <2>9, <2>11, <3>2
        <3>3. CASE d # c
            <4>1. clerk'[d] = clerk[d] /\ clerk[d].slot \in Slot
                BY <1>8, <2>11, <3>3 DEF ClerkRec
            <4>2. PICK g : g = <<d, clerk[d].slot>>
                OBVIOUS
            <4>3. g \in Call /\ g[1] = d
                BY <4>1, <4>2, SMT DEF Call
            <4>4. handler[g] # Unused /\ handler[g].live
                BY <3>1, <4>1, <4>2 DEF ServiceInv, ClerkInv
            <4> QED
                BY <1>2, <2>1, <2>7, <3>3, <4>1, <4>2, <4>3, <4>4
        <3> QED
            BY <3>2, <3>3
    <2>17. CallInv'
        <3>1. SUFFICES ASSUME NEW g \in Call, handler'[g] # Unused PROVE CallAt(g, handler[g])'
            BY DEF CallInv
        <3>2. PICK v : v = handler'[g]
            OBVIOUS
        <3>3. CallAt(g, v)'
            <4>1. CASE g = f
                <5>1. m.op.Id = c /\ m.op.Num = q.number /\ q.busy
                    BY <1>1, <1>2, <1>3, <1>7, <1>9 DEF CallAt
                <5> QED
                    BY <1>7, <2>1, <2>7, <2>9, <2>11, <3>2, <4>1, <5>1 DEF CallAt
            <4>2. CASE g = h
                <5>1. CallAt(h, a)
                    BY <1>2, <1>3, <2>4, <2>5 DEF CallAt
                <5> QED
                    BY <2>5, <2>7, <2>13, <3>2, <4>2, <5>1, UnattendedKeeps
            <4>3. CASE g # f /\ g # h
                <5>1. v = handler[g] /\ CallAt(g, v) /\ g[1] \in Client /\ handler[g] # Unused
                    BY <2>7, <3>1, <3>2, <4>3, CallState
                <5>2. CASE g[1] = c
                    BY <1>2, <2>13, <4>3, <5>1, <5>2, UnattendedKeeps
                <5>3. CASE g[1] # c
                    BY <2>11, <2>13, <5>1, <5>3, OtherKeeps
                <5> QED
                    BY <5>2, <5>3
            <4> QED
                BY <4>1, <4>2, <4>3
        <3> QED
            BY <3>2, <3>3 DEF CallAt, OKed
    <2>18. SinceInv'
        BY <2>13, <2>14 DEF ServiceInv, SinceInv
    <2>19. ChannelInv'
        <3>1. SUFFICES ASSUME NEW t \in Server, NEW j \in 1 .. MaxLog, NEW g \in ClientCh[t][j]
                       PROVE  handler'[g].st = "waiting" /\ handler'[g].server = t /\ handler'[g].index = j
            BY <2>13 DEF ChannelInv
        <3>2. handler[g].st = "waiting" /\ handler[g].server = t /\ handler[g].index = j /\ g \in Call
            BY ChannelState, SMT
        <3>3. g # f
            <4>1. Unused.st # "waiting"
                BY SMT DEF Unused
            <4> QED
                BY <2>2, <3>2, <4>1
        <3> QED
            BY <1>3, <2>5, <2>7, <3>2, <3>3
    <2> QED
        BY <2>12, <2>15, <2>16, <2>17, <2>18, <2>19 DEF ServiceInv
<1> QED
    BY <1>10, <1>11

-----------------------------------------------------------------------------
(* The service *)

(* The invariant holds initially. *)
LEMMA ServiceInit ==
    ASSUME Init
    PROVE  ServiceInv
<1>1. chosen = <<NoopOp>> /\ Len(chosen) = 1 /\ <<NoopOp>>[1] = NoopOp
    BY SMT DEF Init
<1>2. \A k \in 1 .. 1 : k = 1
    BY SMT
<1>3. <<NoopOp>> \in Seq(Ops) /\ <<>> \in Seq(Nat)
    BY Commands, SMT
<1>4. 1 \in Nat /\ 1 \in 1 .. 1 /\ 1 - 1 = 0 /\ 1 <= 1 /\ 0 \in 0 .. 1 /\ 1 \in 0 .. 1 /\ 1 <= MaxLog
    BY Constants, SMT
<1>5. \A k \in 1 .. Len(chosen) : chosen[k] = NoopOp
    BY <1>1, <1>2
<1>6. Types
    <2>1. /\ log \in [Server -> Seq(Ops)] /\ chosen \in Seq(Ops) /\ lead \in Server \cup {Nobody}
          /\ ClientCh \in [Server -> [1 .. MaxLog -> SUBSET Call]]
          /\ applier \in [Server -> {Idle} \cup [st : {"handing"}, index : Nat, cm : Ops \cup Found]]
          /\ handler \in [Call -> {Unused} \cup CallRec]
        BY <1>3, Constants DEF Init
    <2>2. commit \in [Server -> Nat] /\ applyCh \in [Server -> Seq(Nat)] /\ lastApplied \in [Server -> Nat]
          /\ since \in [Client -> Nat]
        BY <1>3, <1>4 DEF Init
    <2>3. clerk \in [Client -> ClerkRec]
        <3>1. (CHOOSE b \in Slot : TRUE) \in Slot /\ 0 \in Server /\ 0 \in 0 .. MaxNum
            BY Constants, SMT
        <3>2. PICK b \in Slot : b = CHOOSE e \in Slot : TRUE
            BY <3>1
        <3>3. [number |-> 0, leader |-> 0, busy |-> FALSE, slot |-> b] \in ClerkRec
            BY <3>1, SMT DEF ClerkRec
        <3> QED
            BY <3>2, <3>3 DEF Init
    <2>4. Len(chosen) <= MaxLog
        BY <1>1, <1>4
    <2> QED
        BY <2>1, <2>2, <2>3, <2>4 DEF Types, Init
<1>7. \A s \in Server : Len(log[s]) = 1 /\ \A k \in 1 .. Len(log[s]) : log[s][k] = NoopOp
    BY <1>1, <1>2 DEF Init
<1>8. OpsInv
    <2>1. \A x \in Command : ~Placed(x)
        BY <1>5, <1>7, Commands DEF Placed, Init
    <2> QED
        BY <2>1 DEF OpsInv
<1>9. OrderInv
    <2>1. \A s \in Server : StartsWith(log[s], chosen)
        BY <1>1, <1>4, <1>5, <1>7 DEF StartsWith
    <2>2. lead \in Server
        BY Constants DEF Init
    <2> QED
        BY <1>5, <1>7, <2>1, <2>2, Commands DEF OrderInv, Ordered
<1>10. ApplyInv
    <2>1. Feeds(<<>>, 1, 1)
        BY SMT DEF Feeds
    <2> QED
        BY <1>1, <1>4, <2>1 DEF Init, ApplyInv
<1>11. StoreInv
    <2>1. ContentsOf(chosen)[0] = Empty /\ ContentsOf(chosen)[1] = Executed(chosen, 1, ContentsOf(chosen)[0])
        BY <1>1, <1>4, ContentsUnfold
    <2>2. NoopType \notin {PutType, AppendType}
        BY SMT DEF NoopType, PutType, AppendType
    <2>3. ContentsOf(chosen)[1] = Empty
        BY <1>1, <2>1, <2>2, Commands DEF Executed
    <2>4. NumbersOf(chosen, 1) = [c \in Client |-> 0]
        <3>1. \A c \in Client : IsNumber(chosen, 1, c, 0)
            BY <1>1, <1>5, Commands DEF IsNumber
        <3>2. NumbersOf(chosen, 1) \in [Client -> Nat] /\ \A c \in Client : NumbersOf(chosen, 1)[c] = 0
            <4>1. chosen \in Seq(Ops) /\ 1 \in 0 .. Len(chosen) /\ 0 \in Nat
                BY <1>1, <1>3, <1>4, SMT
            <4>2. /\ NumbersOf(chosen, 1) \in [Client -> Nat]
                  /\ \A c \in Client, v \in Nat : IsNumber(chosen, 1, c, v) => v = NumbersOf(chosen, 1)[c]
                BY <4>1, NumbersFacts
            <4> QED
                BY <3>1, <4>1, <4>2
        <3>3. PICK f : f = NumbersOf(chosen, 1)
            OBVIOUS
        <3> QED
            BY <3>2, <3>3, SMT
    <2> QED
        BY <2>3, <2>4 DEF Init, StoreInv, Contents, Numbers
<1>12. HandInv /\ CallInv /\ ChannelInv
    BY DEF Init, HandInv, CallInv, ChannelInv
<1>13. ClerkInv
    <2>1. \A c \in Client : clerk[c].busy = FALSE
        BY SMT DEF Init
    <2> QED
        BY <2>1 DEF ClerkInv
<1>14. SinceInv
    BY <1>1, <1>4, <1>5, Commands DEF Init, SinceInv
<1> QED
    BY <1>6, <1>8, <1>9, <1>10, <1>11, <1>12, <1>13, <1>14 DEF ServiceInv

(* Without snapshots nothing is copied, saved or installed. *)
LEMMA NoSnapshots ==
    ASSUME ServiceInv, Snapshots = {}, NEW s \in Server
    PROVE  /\ ~CopyMap(s) /\ ~CopyCliMap(s) /\ ~OfferSnapshot(s) /\ ~persistV2(s)
           /\ ~InstallSnapshot(s) /\ ~InstallCliMap(s) /\ ~InstallIndex(s) /\ ~Wake(s)
<1>1. offer[s] = NoOffer /\ applier[s].st \in {"idle", "handing"}
    <2>1. offer[s] = NoOffer /\ applier[s] \in {Idle} \cup [st : {"handing"}, index : Nat, cm : Ops \cup Found]
        BY DEF ServiceInv, Types
    <2> QED
        BY <2>1, SMT DEF Idle
<1>2. offer[s].st = "none"
    BY <1>1, SMT DEF NoOffer
<1>3. \A t \in Server : snap[t].LastIndex = 0
    BY SMT DEF ServiceInv, Types
<1>4. ~CopyMap(s)
    BY DEF CopyMap
<1>5. ~CopyCliMap(s) /\ ~OfferSnapshot(s) /\ ~persistV2(s)
    BY <1>2 DEF CopyCliMap, OfferSnapshot, persistV2
<1>6. ~InstallSnapshot(s)
    <2>1. ~(0 > 0)
        BY SMT
    <2>2. lead # Nobody => lead \in Server
        BY DEF ServiceInv, Types
    <2> QED
        BY <1>3, <2>1, <2>2 DEF InstallSnapshot
<1>7. ~InstallCliMap(s) /\ ~InstallIndex(s) /\ ~Wake(s)
    BY <1>1 DEF InstallCliMap, InstallIndex, Wake
<1> QED
    BY <1>4, <1>5, <1>6, <1>7

(* Every step keeps the invariant. *)
LEMMA ServiceStep ==
    ASSUME PlainService, ServiceInv, [Next]_vars
    PROVE  ServiceInv'
<1>1. CASE UNCHANGED vars
    <2>1. UNCHANGED <<raftVars, storeVars, serviceVars, snapVars, clientVars>>
        BY <1>1 DEF vars
    <2>2. Types'
        BY <2>1 DEF raftVars, storeVars, serviceVars, snapVars, clientVars, ServiceInv, Types
    <2>3. OpsInv' /\ OrderInv'
        <3>1. OpsInv'
            BY <2>1 DEF raftVars, serviceVars, clientVars, ServiceInv, OpsInv, Placed
        <3> QED
            BY <2>1, <3>1 DEF raftVars, ServiceInv, OrderInv
    <2>4. ApplyInv' /\ StoreInv' /\ HandInv'
        <3>1. ApplyInv'
            BY <2>1 DEF raftVars, serviceVars, storeVars, ServiceInv, ApplyInv
        <3>2. StoreInv'
            BY <2>1 DEF raftVars, storeVars, ServiceInv, StoreInv, Contents, Numbers
        <3> QED
            BY <2>1, <3>1, <3>2 DEF raftVars, storeVars, serviceVars, ServiceInv, HandInv
    <2>5. CallInv'
        <3>1. handler' = handler /\ clerk' = clerk /\ chosen' = chosen /\ since' = since /\ CliMap' = CliMap
            BY <2>1 DEF raftVars, storeVars, serviceVars, clientVars
        <3>2. \A h \in Call : OKed(h, handler[h])' = OKed(h, handler[h])
            BY <3>1 DEF OKed, Contents
        <3>3. \A h \in Call : CallAt(h, handler[h])' = CallAt(h, handler[h])
            BY <3>1, <3>2 DEF CallAt, Used
        <3> QED
            BY <3>1, <3>3 DEF ServiceInv, CallInv
    <2>6. ClerkInv' /\ SinceInv' /\ ChannelInv'
        <3>1. ClerkInv' /\ SinceInv'
            BY <2>1 DEF raftVars, serviceVars, clientVars, ServiceInv, ClerkInv, SinceInv
        <3>2. ClientCh' = ClientCh /\ handler' = handler
            BY <2>1 DEF serviceVars, clientVars
        <3>3. ChannelInv
            BY DEF ServiceInv
        <3>4. ChannelInv'
            BY <3>2, <3>3, SMT DEF ChannelInv
        <3> QED
            BY <3>1, <3>4
    <2> QED
        BY <2>2, <2>3, <2>4, <2>5, <2>6 DEF ServiceInv
<1>2. CASE Next
    <2>1. CASE \E s \in Server : BecomeLeader(s) \/ StartNoop(s) \/ AppendEntries(s)
        BY <2>1, BecomeLeaderKeeps, StartNoopKeeps, AppendEntriesKeeps
    <2>2. CASE \E k \in 1 .. MaxLog : updateCommit(k)
        BY <2>2, updateCommitKeeps
    <2>3. CASE \E h \in Call : Start(h) \/ RegisterLater(h) \/ ReadValue(h) \/ Finish(h)
        BY <2>3, StartKeeps, RegisterLaterKeeps, ReadValueKeeps, FinishKeeps
    <2>4. CASE \E s \in Server : Apply(s) \/ HandOut(s) \/ Restart(s)
        BY <2>4, ApplyKeeps, HandOutKeeps, RestartKeeps
    <2>5. CASE \E c \in Client, type \in Kinds, key \in Key : Issue(c, type, key)
        BY <2>5, IssueKeeps
    <2>6. CASE \E c \in Client : Receive(c) \/ CallFails(c)
        BY <2>6, ReceiveKeeps, CallFailsKeeps DEF PlainService
    <2>7. \A s \in Server : /\ ~CopyMap(s) /\ ~CopyCliMap(s) /\ ~OfferSnapshot(s) /\ ~persistV2(s)
                            /\ ~InstallSnapshot(s) /\ ~InstallCliMap(s) /\ ~InstallIndex(s) /\ ~Wake(s)
        BY NoSnapshots DEF PlainService
    <2> QED
        BY <1>2, <2>1, <2>2, <2>3, <2>4, <2>5, <2>6, <2>7 DEF Next
<1> QED
    BY <1>1, <1>2

(* The invariant of the service, for every number of servers, clerks, keys *)
(* and slots and all bounds, as long as no server takes snapshots and the  *)
(* network drops the request of a call that has failed.                    *)
THEOREM ServiceInvariant == PlainService => (Spec => []ServiceInv)
<1>1. SUFFICES ASSUME PlainService PROVE Spec => []ServiceInv
    OBVIOUS
<1>2. Init => ServiceInv
    BY ServiceInit
<1>3. ServiceInv /\ [Next]_vars => ServiceInv'
    BY <1>1, ServiceStep
<1> QED
    BY <1>2, <1>3, PTL DEF Spec

(* Replicas: at all times a server that has applied up to an index holds   *)
(* what the chosen commands up to there, each executed once, produce, and  *)
(* the highest number of each client among them, although clerks retry,    *)
(* followers deliver entries twice and servers restart.                    *)
THEOREM ReplicasAgree == PlainService => (Spec => []ReplicaState)
<1>1. ServiceInv => ReplicaState
    BY DEF ServiceInv, StoreInv, ReplicaState
<1> QED
    BY <1>1, ServiceInvariant, PTL

(* Retries: no write takes effect twice on a key, although a clerk sends   *)
(* its command again to every server until one answers.                    *)
THEOREM WritesOnce == PlainService => (Spec => []ExecuteOnce)
<1>1. ServiceInv => ExecuteOnce
    <2>1. SUFFICES ASSUME ServiceInv, NEW s \in Server, NEW key \in Key,
                          NEW i \in DOMAIN mp[s][key], NEW j \in DOMAIN mp[s][key], mp[s][key][i] = mp[s][key][j]
                   PROVE  i = j
        BY DEF ExecuteOnce
    <2>2. PICK n \in 0 .. Len(chosen) : mp[s] = ContentsOf(chosen)[n]
        BY <2>1, Lengths
    <2>3. chosen \in Seq(Ops) /\ Unique(chosen)
        BY <2>1, ChosenUnique DEF ServiceInv, Types
    <2>4. Once(chosen, n, mp[s][key]) /\ mp[s] \in Stores
        BY <2>1, <2>2, <2>3, ContentsOnce, ContentsType
    <2>5. DOMAIN mp[s][key] = 1 .. Len(mp[s][key])
        <3>1. mp[s][key] \in Seq(Client \X (1 .. MaxNum))
            BY <2>4 DEF Stores
        <3>2. PICK D : D = Client \X (1 .. MaxNum)
            OBVIOUS
        <3>3. PICK q \in Seq(D) : q = mp[s][key]
            BY <3>1, <3>2
        <3> QED
            BY <3>3, SMT
    <2> QED
        BY <2>1, <2>4, <2>5 DEF Once
<1> QED
    BY <1>1, ServiceInvariant, PTL

(* Writes: a call that is answered "OK" has its command among the chosen. *)
THEOREM OKIsChosen == PlainService => (Spec => []Acknowledged)
<1>1. ServiceInv => Acknowledged
    <2>1. SUFFICES ASSUME ServiceInv, NEW h \in Call, handler[h].st = "replied", handler[h].Err = "OK"
                   PROVE  \E k \in 1 .. Len(chosen) : chosen[k] = handler[h].op
        BY DEF Acknowledged, Replied
    <2>2. CallAt(h, handler[h])
        BY <2>1, CallState
    <2> QED
        BY <2>1, <2>2 DEF CallAt, OKed
<1> QED
    BY <1>1, ServiceInvariant, PTL

(* Reads: a Get that is answered "OK" returns what the key held at some    *)
(* point since the clerk issued it.                                        *)
THEOREM GetsAreCurrent == PlainService => (Spec => []ReadsCurrent)
<1>1. ServiceInv => ReadsCurrent
    <2>1. SUFFICES ASSUME ServiceInv, NEW h \in Call, handler[h].st = "replied", handler[h].Err = "OK",
                          handler[h].op.Type = GetType
                   PROVE  \E k \in since[h[1]] .. Len(chosen) : Contents[k][handler[h].op.Key] = handler[h].Value
        BY DEF ReadsCurrent, Replied
    <2>2. CallAt(h, handler[h])
        BY <2>1, CallState
    <2> QED
        BY <2>1, <2>2 DEF CallAt, OKed
<1> QED
    BY <1>1, ServiceInvariant, PTL

(* Channels: every channel in ClientCh has a handler that receives from    *)
(* it, so the Applier is never blocked while it holds mucli.               *)
THEOREM ChannelsHaveReceivers == PlainService => (Spec => []NoStaleChannels)
<1>1. ServiceInv => NoStaleChannels
    <2>1. SUFFICES ASSUME ServiceInv, NEW s \in Server, NEW k \in DOMAIN ClientCh[s], NEW h \in ClientCh[s][k]
                   PROVE  h # Stale /\ handler[h].st = "waiting" /\ handler[h].server = s /\ handler[h].index = k
        BY DEF NoStaleChannels
    <2>2. ClientCh[s] \in [1 .. MaxLog -> SUBSET Call]
        BY <2>1 DEF ServiceInv, Types
    <2>3. k \in 1 .. MaxLog /\ h \in Call
        BY <2>1, <2>2
    <2> QED
        BY <2>1, <2>3, Constants, ChannelState, SMT
<1> QED
    BY <1>1, ServiceInvariant, PTL
=============================================================================
