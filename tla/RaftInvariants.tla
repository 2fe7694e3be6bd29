--------------------------- MODULE RaftInvariants ---------------------------
(***************************************************************************)
(* The inductive invariants of Raft: of its elections, and of its logs as  *)
(* long as nothing is compacted (labs 2 and 3A, where kv.maxraftstate is   *)
(* -1).                                                                    *)
(*                                                                         *)
(* The invariant of the logs speaks of the past: T[t] is the log that the  *)
(* leader of term t had when it last led, and <<j, t, n>> is in W when j   *)
(* has accepted an AppendEntries of term t that covers the entries up to   *)
(* n.  Neither is a variable: the invariant says that such T and W exist,  *)
(* and the proof of each step says what they become.                       *)
(***************************************************************************)
EXTENDS Raft

-----------------------------------------------------------------------------
(* What the proofs use of the data: hypotheses of their lemmas, which      *)
(* RaftProofs proves.                                                      *)

(* A set of peers that can elect a leader or commit an entry. *)
Majorities == {Q \in SUBSET Server : Cardinality(Q) > N \div 2}

(* Two majorities have a peer in common, and a nonempty set of naturals    *)
(* has a least element.                                                    *)
CountingFacts ==
    /\ \A Q, R \in Majorities : \E j \in Server : j \in Q /\ j \in R
    /\ \A B \in SUBSET Nat : B # {} => \E n \in B : \A k \in B : n <= k

(* updateCommit's median, with an odd number of at least three peers: it   *)
(* is one of the values, a majority is not below it, and raising the       *)
(* largest value does not raise it.                                        *)
MedianFacts ==
    \A m \in [Server -> Nat] :
        /\ \E j \in Server : MedianMatch(m) = m[j]
        /\ \E Q \in Majorities : \A j \in Q : MedianMatch(m) <= m[j]
        /\ \A i \in Server : \A p \in [Server -> Nat] :
              (\A j \in Server : m[j] <= m[i]) /\ (\A j \in Server \ {i} : p[j] = m[j]) =>
                  MedianMatch(p) <= MedianMatch(m)

(* findEntry returns a position up to p. *)
SearchFacts == \A l \in Seq(Entry) : \A p \in Nat : findEntry(l, p) \in 0 .. p

-----------------------------------------------------------------------------
(* The Persister *)

(* A snapshot travels with its own index and term. *)
SnapshotsLabelled ==
    \A m \in isReq : m.Data = [LastIndex |-> m.LastIncludedIndex, LastTerm |-> m.LastIncludedTerm]

DurableInv == Durable /\ SnapshotsLabelled

-----------------------------------------------------------------------------
(* Elections *)

(* A vote is for a term its voter has reached, and the voter's votedFor    *)
(* remembers the vote of its current term.                                 *)
VotesKnown ==
    \A v \in votes :
        /\ v[2] > 0 /\ v[2] <= currentTerm[v[1]]
        /\ v[2] = currentTerm[v[1]] => votedFor[v[1]] = v[3]

(* Peer i can still gain the vote of j in term t: it has not counted it.   *)
Uncounted(i, j, t) == t <= currentTerm[i] /\ (t = currentTerm[i] => j \notin tally[i])

SameCall(a, b) == a.from = b.from /\ a.to = b.to
Spawned(i, j, t) == [term |-> t, to |-> j] \in voters[i]

(* A candidate asks each peer once per term: the goroutine, the request or *)
(* the reply is there, never two of them.                                  *)
SpawnedOnce == \A i \in Server : \A g \in voters[i] : g.term > 0 /\ Uncounted(i, g.to, g.term)
AskedOnce ==
    \A m \in rvReq :
        /\ m.Term > 0
        /\ m.live => Uncounted(m.from, m.to, m.Term) /\ ~Spawned(m.from, m.to, m.Term)
        /\ \A n \in rvReq : m.live /\ n.live /\ SameCall(m, n) /\ m.Term = n.Term => m = n
AnsweredOnce ==
    \A r \in rvRep :
        /\ Uncounted(r.from, r.to, r.termTemp) /\ ~Spawned(r.from, r.to, r.termTemp)
        /\ r.VoteGranted => <<r.to, r.termTemp, r.from>> \in votes
        /\ \A m \in rvReq : m.live /\ SameCall(m, r) => m.Term # r.termTemp
        /\ \A q \in rvRep : SameCall(q, r) /\ q.termTemp = r.termTemp => q = r

(* The inductive invariant of the elections. *)
ElectionInv ==
    /\ VotesKnown /\ VoteOnce
    /\ SpawnedOnce /\ AskedOnce /\ AnsweredOnce
    /\ VotesCountedOnce

(* A majority voted for each leader. *)
Elected == \A l \in leaders : \E Q \in Majorities : \A j \in Q : <<j, l[1], l[2]>> \in votes

-----------------------------------------------------------------------------
(* Logs *)

(* L has an entry of term t at k. *)
Has(L, t, k) == k \in 1 .. Len(L) /\ L[k].Term = t

(* L and M reach k and are the same up to there. *)
Agree(L, M, k) == k <= Len(L) /\ k <= Len(M) /\ \A h \in 1 .. k : L[h] = M[h]

(* Up to each of its entries, L is the log of the leader that made it, and *)
(* no entry is newer than term b.                                          *)
Sound(T, L, b) ==
    \A k \in 1 .. Len(L) : L[k].Term \in DOMAIN T /\ L[k].Term <= b /\ Agree(L, T[L[k].Term], k)

(* The entry that the leader of term t made at k has reached the log of j: *)
(* j made it, or has accepted it from that leader.                         *)
Acked(T, W, j, t, k) ==
    /\ t \in DOMAIN T /\ Has(T[t], t, k)
    /\ <<t, j>> \in leaders \/ \E w \in W : w[1] = j /\ w[2] = t /\ k <= w[3]

(* A leader of a later term s does not have that entry. *)
Lost(T, s, t, k) == s \in DOMAIN T /\ t < s /\ ~Has(T[s], t, k)

(* A majority has acknowledged it. *)
Committed(T, W, t, k) == \E Q \in Majorities : \A j \in Q : Acked(T, W, j, t, k)

(* The first n entries of L are those up to n of a leader of term t <= b,  *)
(* and a majority has acknowledged an entry it made at n or later.         *)
Chosen(T, W, L, n, b) ==
    /\ n <= Len(L)
    /\ n > 0 => \E t \in DOMAIN T : \E k \in 1 .. Len(T[t]) :
                    t <= b /\ n <= k /\ Committed(T, W, t, k) /\ Agree(L, T[t], n)

-----------------------------------------------------------------------------
(* The invariant *)

HistTypes(T, W) ==
    /\ DOMAIN T \subseteq Nat /\ \A t \in DOMAIN T : T[t] \in Seq(Entry)
    /\ W \subseteq Server \X Nat \X Nat

(* T has the terms that had leaders; a peer that has led its term has not  *)
(* changed its log since, not even by restarting.                          *)
LedInv(T) ==
    /\ \A t \in DOMAIN T : \E i \in Server : <<t, i>> \in leaders
    /\ \A l \in leaders :
          /\ l[1] \in DOMAIN T /\ l[1] <= currentTerm[l[2]]
          /\ l[1] = currentTerm[l[2]] => tp[l[2]] # Candidate /\ log[l[2]] = T[l[1]]
    /\ \A i \in Server : tp[i] = Leader => <<currentTerm[i], i>> \in leaders

SoundInv(T) ==
    /\ \A i \in Server : Sound(T, log[i], currentTerm[i])
    /\ \A t \in DOMAIN T : Sound(T, T[t], t)

(* Everything of the log L of the sender that m covers is in L; m covers   *)
(* all that is older than the sender's term, and brings nothing else.      *)
Slice(m, L) ==
    LET end == m.PrevLogIndex + Len(m.Entries)
    IN  /\ end <= Len(L)
        /\ \A k \in 1 .. Len(m.Entries) : m.Entries[k] = L[m.PrevLogIndex + k]
        /\ m.PrevLogIndex > 0 => m.PrevLogTerm = L[m.PrevLogIndex].Term
        /\ \A k \in 1 .. Len(L) : L[k].Term # m.Term => k <= end
        /\ m.Entries # <<>> => L[end].Term = m.Term
        /\ m.LeaderCommit <= end

(* AppendEntries calls on their way: one for each pair of peers, and none  *)
(* covers less than its receiver has accepted from that leader.            *)
SentAt(T, W, m) ==
    /\ m.from # m.to /\ <<m.Term, m.from>> \in leaders
    /\ m.live /\ m.Term = currentTerm[m.from] => tp[m.from] = Leader
    /\ Slice(m, T[m.Term])
    /\ \A w \in W : w[1] = m.to /\ w[2] = m.Term => w[3] <= m.PrevLogIndex + Len(m.Entries)
OneCall == \A m, n \in aeReq : SameCall(m, n) => m = n
SentInv(T, W) == OneCall /\ \A m \in aeReq : SentAt(T, W, m)

(* Replies on their way. *)
AnswerAt(T, W, r) ==
    /\ r.from # r.to /\ <<r.termTemp, r.from>> \in leaders
    /\ r.termTemp = currentTerm[r.from] => tp[r.from] = Leader
    /\ r.PrevLogIndex + r.Count <= Len(T[r.termTemp])
    /\ r.Count > 0 => T[r.termTemp][r.PrevLogIndex + r.Count].Term = r.termTemp
    /\ r.Success => <<r.to, r.termTemp, r.PrevLogIndex + r.Count>> \in W
    /\ r.Miss => r.Len <= r.PrevLogIndex
    /\ r.TermStart <= r.PrevLogIndex
AnswerInv(T, W) == \A r \in aeRep : AnswerAt(T, W, r)

(* While a peer stays in the term in which it has accepted entries, it has *)
(* them.                                                                   *)
AcceptAt(T, w) ==
    /\ w[2] \in DOMAIN T /\ w[2] <= currentTerm[w[1]] /\ w[3] <= Len(T[w[2]])
    /\ w[2] = currentTerm[w[1]] => Agree(log[w[1]], T[w[2]], w[3])
AcceptInv(T, W) == \A w \in W : AcceptAt(T, w)

(* Afterwards it still has them, or some leader since then did not. *)
KeptAt(T, j, t, k) == Has(log[j], t, k) \/ \E s \in DOMAIN T : s <= currentTerm[j] /\ Lost(T, s, t, k)
KeptInv(T, W) ==
    \A j \in Server : \A t \in DOMAIN T : \A k \in 1 .. Len(T[t]) : Acked(T, W, j, t, k) => KeptAt(T, j, t, k)

(* A vote request tells the log of its candidate. *)
AskAt(m) ==
    /\ m.Term <= currentTerm[m.from]
    /\ m.Term = currentTerm[m.from] /\ tp[m.from] = Candidate =>
          m.LastLogIndex = Len(log[m.from]) /\ m.LastLogTerm = TermAt(log[m.from], Len(log[m.from]))
AskInv == (\A m \in rvReq : AskAt(m)) /\ (\A v \in votes : v[2] <= currentTerm[v[3]])

(* The log L has what j has acknowledged before term u, or some leader up  *)
(* to term b has lost it.                                                  *)
Covers(T, W, L, j, u, b) ==
    \A t \in DOMAIN T : \A k \in 1 .. Len(T[t]) : t < u /\ Acked(T, W, j, t, k) =>
        Has(L, t, k) \/ \E s \in DOMAIN T : s <= b /\ Lost(T, s, t, k)

(* A candidate covers what its voters have acknowledged. *)
VotedAt(T, W, v) ==
    v[2] = currentTerm[v[3]] /\ tp[v[3]] = Candidate => Covers(T, W, log[v[3]], v[1], v[2], v[2])
VotedInv(T, W) == \A v \in votes : VotedAt(T, W, v)

(* So does the leader of term u, with the majority that elected it. *)
Won(T, W, u) ==
    \E Q \in Majorities : \A j \in Q : u <= currentTerm[j] /\ Covers(T, W, T[u], j, u, u - 1)
WonInv(T, W) == \A u \in DOMAIN T : Won(T, W, u)

(* The bookkeeping of a leader. *)
LeadAt(W, i) ==
    tp[i] = Leader =>
        /\ \A j \in Server : nextIndex[i][j] <= Len(log[i]) + 1
        /\ startAppend[i] => /\ Has(log[i], currentTerm[i], Len(log[i]))
                             /\ matchIndex[i][i] = Len(log[i])
        /\ ~startAppend[i] => \A j \in Server : nextIndex[i][j] = Len(log[i]) + 1 /\ matchIndex[i][j] = 0
        /\ \A j \in Server \ {i} : matchIndex[i][j] > 0 =>
              Has(log[i], currentTerm[i], matchIndex[i][j]) /\ <<j, currentTerm[i], matchIndex[i][j]>> \in W

LeadInv(W) == \A i \in Server : LeadAt(W, i)

(* Install goroutines and calls exist only once nextIndex has been lowered. *)
Started(i, t) == <<t, i>> \in leaders /\ (t = currentTerm[i] /\ tp[i] = Leader => startAppend[i])
InstallsInv ==
    /\ \A i \in Server : \A g \in installs[i] : Started(i, g.termTemp)
    /\ \A m \in isReq : Started(m.from, m.termTemp)
    /\ \A r \in isRep : Started(r.from, r.termTemp)

(* What is committed is chosen.  If it was chosen in the peer's own term,  *)
(* the peer led that term or has accepted that much in it.                 *)
CommitAt(T, W, i) ==
    /\ Chosen(T, W, log[i], commitIndex[i], currentTerm[i])
    /\ \/ <<currentTerm[i], i>> \in leaders
       \/ \E w \in W : w[1] = i /\ w[2] = currentTerm[i] /\ commitIndex[i] <= w[3]
       \/ Chosen(T, W, log[i], commitIndex[i], currentTerm[i] - 1)
CommitSent(T, W, m) == Chosen(T, W, T[m.Term], m.LeaderCommit, m.Term)
CommitInv(T, W) == (\A i \in Server : CommitAt(T, W, i)) /\ (\A m \in aeReq : CommitSent(T, W, m))

(* And so is what has been applied. *)
AppliedAt(T, W, a) ==
    \E t \in DOMAIN T : \E k \in 1 .. Len(T[t]) :
        t <= a[3] /\ a[1] \in 1 .. k /\ Committed(T, W, t, k) /\ T[t][a[1]] = a[2]
AppliedInv(T, W) == \A a \in applied : AppliedAt(T, W, a)

(* Nothing has been compacted. *)
SnapFree ==
    /\ \A i \in Server : snapshotIndex[i] = 0 /\ snapshotTerm[i] = 0 /\ Ss[i] = 0
    /\ \A m \in isReq : m.LastIncludedIndex = 0

(* What a peer has told its service: the commands from the first on,       *)
(* without a gap, up to commitIndex.                                       *)
CommandMsg == [CommandValid : BOOLEAN, CommandIndex : Nat, Command : Entry]
ToldAt(i) ==
    LET told == applyCh[i]
    IN  /\ told \in Seq(CommandMsg)
        /\ \A k \in 1 .. Len(told) :
              told[k].CommandIndex <= 1 + (IF k = 1 THEN 0 ELSE told[k - 1].CommandIndex)
        /\ commitIndex[i] = IF told = <<>> THEN 0 ELSE told[Len(told)].CommandIndex
        /\ lastApplied[i] = commitIndex[i]

(* The services together have been told the commands from 1 to n. *)
ToldUpTo(n) == {a[1] : a \in applied} = 1 .. n /\ \A i \in Server : commitIndex[i] <= n

ToldInv ==
    /\ applied \subseteq Nat \X Entry \X Nat /\ applyCh \in [Server -> Seq(CommandMsg)]
    /\ \A i \in Server : ToldAt(i)
    /\ \E n \in Nat : ToldUpTo(n)

History(T, W) ==
    /\ HistTypes(T, W)
    /\ LedInv(T) /\ SoundInv(T)
    /\ SentInv(T, W) /\ AnswerInv(T, W) /\ AcceptInv(T, W) /\ KeptInv(T, W)
    /\ AskInv /\ VotedInv(T, W) /\ WonInv(T, W)
    /\ LeadInv(W) /\ InstallsInv /\ CommitUpToDate
    /\ CommitInv(T, W) /\ AppliedInv(T, W)
HistoryInv == \E T, W : History(T, W)

(* The inductive invariant of the logs. *)
LogInv == SnapFree /\ HistoryInv

(* What the theorems about the logs assume.  AtomicCheck and InOrder: the  *)
(* code does not ensure them, and without them a term can have two leaders *)
(* and an overtaken request removes committed entries.  No peer compacts   *)
(* its log.  The number of peers is odd, as in the tests: the median that  *)
(* updateCommit takes of an even number is held by half of them only.      *)
PlainCluster == AtomicCheck /\ InOrder /\ Snapshots = {} /\ N % 2 = 1 /\ N > 1
=============================================================================
