------------------------- MODULE RaftHistoryProofs -------------------------
(***************************************************************************)
(* The histories of the logs: what remains true of them when a step        *)
(* extends them, the steps that change neither a log nor a leader, and     *)
(* what follows from the invariant of the logs: the safety properties, the *)
(* order in which a service is told the commands, and the step of the      *)
(* replicated log that each step of a peer is.                             *)
(***************************************************************************)
EXTENDS RaftInvariants, RaftReplicates, TLAPS

(* A leaf is left to Zenon unless it names another prover. *)
USE ZenonT(60)

-----------------------------------------------------------------------------
(* Facts about logs *)

(* The length and the entries of a log. *)
LEMMA LogFacts ==
    ASSUME NEW L \in Seq(Entry)
    PROVE  Len(L) \in Nat /\ (L # <<>> => Len(L) > 0) /\ \A k \in 1 .. Len(L) : L[k] \in Entry /\ L[k].Term \in Nat
<1>1. \A k \in 1 .. Len(L) : L[k] \in Entry
    BY SMT
<1>2. Len(L) \in Nat /\ (L # <<>> => Len(L) > 0)
    BY SMT
<1> QED
    BY <1>1, <1>2 DEF Entry

(* The logs of the histories, with the types of their parts. *)
LEMMA HistFacts ==
    ASSUME NEW T, NEW W, HistTypes(T, W), NEW t \in DOMAIN T
    PROVE  /\ t \in Nat /\ T[t] \in Seq(Entry) /\ Len(T[t]) \in Nat
           /\ \A k \in 1 .. Len(T[t]) : T[t][k].Term \in Nat
<1>1. t \in Nat /\ T[t] \in Seq(Entry)
    BY DEF HistTypes
<1> QED
    BY <1>1, LogFacts

(* What two logs share up to k. *)
LEMMA AgreeFacts ==
    ASSUME NEW L \in Seq(Entry), NEW M \in Seq(Entry), NEW k \in Nat, Agree(L, M, k)
    PROVE  /\ Agree(M, L, k)
           /\ \A n \in 0 .. k : Agree(L, M, n)
           /\ \A R \in Seq(Entry) : Agree(M, R, k) => Agree(L, R, k)
           /\ \A n \in 1 .. k : \A t : Has(L, t, n) <=> Has(M, t, n)
<1>1. Len(L) \in Nat /\ Len(M) \in Nat
    BY LogFacts
<1>2. Agree(M, L, k)
    BY DEF Agree
<1>3. \A n \in 0 .. k : Agree(L, M, n)
    BY <1>1, SMT DEF Agree
<1>4. \A R \in Seq(Entry) : Agree(M, R, k) => Agree(L, R, k)
    BY DEF Agree
<1>5. \A n \in 1 .. k : \A t : Has(L, t, n) <=> Has(M, t, n)
    BY <1>1, SMT DEF Agree, Has
<1> QED
    BY <1>2, <1>3, <1>4, <1>5

(* Order of naturals. *)
LEMMA NatOrder ==
    /\ ~(0 > 0)
    /\ \A a \in Nat : a <= a /\ 0 <= a /\ a <= a + 1 /\ a + 1 \in Nat /\ a - 0 = a
    /\ \A a, b \in Nat : (a > 0 \/ a <= b) /\ (a <= b \/ b < a) /\ (a <= b => a <= b + 1) /\ a + 1 \in 1 .. a + 1
    /\ \A a, b \in Nat : (a < b => a # b) /\ (a > b => a # b) /\ (a <= b => a \in 0 .. b) /\ (a <= b => a = b \/ b > a)
    /\ \A a, b, c \in Nat : (a <= b /\ b <= c => a <= c) /\ (b > 0 /\ a + b <= c => a + b \in 1 .. c)
BY SMT

(* The roles of a peer are different numbers. *)
LEMMA Roles ==
    Leader # Candidate /\ Leader # Follower /\ Candidate # Follower
BY SMT DEF Leader, Candidate, Follower

(* A log with one more entry. *)
LEMMA Longer ==
    ASSUME NEW l, NEW m, Len(l) \in Nat, Len(m) = Len(l) + 1, \A h \in 1 .. Len(l) : m[h] = l[h]
    PROVE  /\ \A t, k : Has(l, t, k) => Has(m, t, k)
           /\ \A x : \A k \in 1 .. Len(l) : Agree(l, x, k) => m[k] = l[k] /\ Agree(m, x, k)
           /\ \A k \in 1 .. Len(m) : k \in 1 .. Len(l) \/ k = Len(l) + 1
<1>1. \A k \in 1 .. Len(l) : k \in 1 .. Len(m) /\ k <= Len(m) /\ \A h \in 1 .. k : h \in 1 .. Len(l)
    BY SMT
<1>2. \A k \in 1 .. Len(m) : k \in 1 .. Len(l) \/ k = Len(l) + 1
    BY SMT
<1> QED
    BY <1>1, <1>2 DEF Has, Agree

(* A log that has an entry of term t at k is the log of that leader up to  *)
(* k, and has only older entries before it.                                *)
LEMMA SoundHas ==
    ASSUME NEW T, NEW W, HistTypes(T, W), SoundInv(T), NEW L \in Seq(Entry), NEW b, Sound(T, L, b),
           NEW t, NEW k, Has(L, t, k)
    PROVE  /\ t \in DOMAIN T /\ t \in Nat /\ t <= b
           /\ k \in 1 .. Len(T[t]) /\ k \in Nat \ {0}
           /\ Agree(L, T[t], k) /\ Has(T[t], t, k)
           /\ \A h \in 1 .. k : L[h].Term <= t
<1>1. k \in 1 .. Len(L) /\ L[k].Term = t /\ Len(L) \in Nat
    BY LogFacts DEF Has
<1>2. t \in DOMAIN T /\ t <= b /\ Agree(L, T[t], k)
    BY <1>1 DEF Sound
<1>3. t \in Nat /\ T[t] \in Seq(Entry) /\ Len(T[t]) \in Nat
    BY <1>2, HistFacts
<1>4. k \in 1 .. Len(T[t]) /\ T[t][k].Term = t
    BY <1>1, <1>2, <1>3, SMT DEF Agree
<1>5. \A h \in 1 .. k : L[h].Term <= t
    <2> TAKE h \in 1 .. k
    <2>1. h \in 1 .. Len(T[t]) /\ L[h] = T[t][h]
        BY <1>1, <1>2, <1>3, SMT DEF Agree
    <2>2. Sound(T, T[t], t)
        BY <1>2 DEF SoundInv
    <2> QED
        BY <2>1, <2>2 DEF Sound
<1> QED
    BY <1>1, <1>2, <1>3, <1>4, <1>5, SMT DEF Has

(* Two logs with an entry of one term at one index agree up to there. *)
LEMMA SoundAgree ==
    ASSUME NEW T, NEW W, HistTypes(T, W), SoundInv(T),
           NEW L \in Seq(Entry), NEW b, Sound(T, L, b), NEW M \in Seq(Entry), NEW c, Sound(T, M, c),
           NEW t, NEW k, Has(L, t, k), Has(M, t, k)
    PROVE  Agree(L, M, k)
<1>1. k \in Nat /\ t \in DOMAIN T /\ Agree(L, T[t], k)
    BY SoundHas
<1>2. Agree(M, T[t], k)
    BY SoundHas
<1>3. T[t] \in Seq(Entry)
    BY <1>1, HistFacts
<1>4. Agree(T[t], M, k)
    BY <1>1, <1>2, <1>3, AgreeFacts
<1> QED
    BY <1>1, <1>3, <1>4, AgreeFacts

(* No leader of a later term lacks an entry that a majority has            *)
(* acknowledged: the first one to lack it would have been elected by a     *)
(* majority with a peer that had it.                                       *)
LEMMA CommittedStays ==
    ASSUME CountingFacts, NEW T, NEW W, HistTypes(T, W), WonInv(T, W), NEW t, NEW k, Committed(T, W, t, k),
           NEW u \in DOMAIN T, t < u
    PROVE  Has(T[u], t, k)
<1> SUFFICES ASSUME ~Has(T[u], t, k) PROVE FALSE
    OBVIOUS
<1> DEFINE B == {s \in DOMAIN T : Lost(T, s, t, k)}
<1>1. PICK Q \in Majorities : \A j \in Q : Acked(T, W, j, t, k)
    BY DEF Committed
<1>2. t \in DOMAIN T /\ k \in 1 .. Len(T[t])
    <2>1. \E j \in Server : j \in Q
        BY DEF CountingFacts
    <2> QED
        BY <1>1, <2>1 DEF Acked, Has
<1>3. B \in SUBSET Nat /\ B # {}
    BY DEF Lost, HistTypes
<1>4. PICK s \in B : \A r \in B : s <= r
    <2> HIDE DEF B
    <2> QED
        BY <1>3 DEF CountingFacts
<1>5. s \in DOMAIN T /\ s \in Nat /\ t < s /\ ~Has(T[s], t, k)
    BY <1>3, <1>4 DEF Lost
<1>6. PICK R \in Majorities : \A j \in R : Acked(T, W, j, t, k) =>
          Has(T[s], t, k) \/ \E r \in DOMAIN T : r < s /\ Lost(T, r, t, k)
    <2>1. PICK R \in Majorities : \A j \in R : Covers(T, W, T[s], j, s, s - 1)
        BY <1>5 DEF WonInv, Won
    <2>2. \A r \in DOMAIN T : r <= s - 1 => r < s
        BY <1>5, SMT DEF HistTypes
    <2>3. \A j \in R : Acked(T, W, j, t, k) =>
              Has(T[s], t, k) \/ \E r \in DOMAIN T : r < s /\ Lost(T, r, t, k)
        BY <1>2, <1>5, <2>1, <2>2 DEF Covers
    <2> QED
        BY <2>3
<1>7. PICK j \in Server : j \in Q /\ j \in R
    BY DEF CountingFacts
<1>8. PICK r \in DOMAIN T : r < s /\ Lost(T, r, t, k)
    BY <1>1, <1>5, <1>6, <1>7
<1>9. r \in B /\ r \in Nat
    BY <1>3, <1>8
<1> QED
    BY <1>4, <1>5, <1>8, <1>9, SMT

-----------------------------------------------------------------------------
(* Growing histories *)

(* S continues T: a leader's log only grows, by entries of its term. *)
Grows(T, S) ==
    \A t \in DOMAIN T :
        /\ t \in DOMAIN S /\ Agree(T[t], S[t], Len(T[t]))
        /\ \A k \in 1 .. Len(S[t]) : k > Len(T[t]) => S[t][k].Term = t

(* From T and W, a step leads to S and V. *)
Extends(T, W, S, V) ==
    HistTypes(T, W) /\ HistTypes(S, V) /\ Grows(T, S) /\ W \subseteq V /\ leaders \subseteq leaders'

(* In terms that a peer has left it acknowledges nothing more. *)
Frozen(T, W, S, V) ==
    \A j \in Server : \A t \in DOMAIN S : \A k \in 1 .. Len(S[t]) :
        t < currentTerm[j] /\ Acked(S, V, j, t, k)' => Acked(T, W, j, t, k)

LEMMA GrowsHas ==
    ASSUME NEW T, NEW W, NEW S, NEW V, Extends(T, W, S, V), NEW t \in DOMAIN T
    PROVE  /\ t \in DOMAIN S /\ Len(T[t]) <= Len(S[t])
           /\ \A k \in Nat : k <= Len(T[t]) => Agree(T[t], S[t], k)
           /\ \A u, k : Has(T[t], u, k) => Has(S[t], u, k)
           /\ \A u, k : u # t /\ Has(S[t], u, k) => Has(T[t], u, k)
<1>1. HistTypes(T, W) /\ HistTypes(S, V) /\ Grows(T, S)
    BY DEF Extends
<1>2. t \in DOMAIN S /\ Agree(T[t], S[t], Len(T[t])) /\ \A k \in 1 .. Len(S[t]) : k > Len(T[t]) => S[t][k].Term = t
    BY <1>1 DEF Grows
<1>3. Len(T[t]) \in Nat /\ Len(S[t]) \in Nat /\ T[t] \in Seq(Entry) /\ S[t] \in Seq(Entry)
    BY <1>1, <1>2, HistFacts
<1>4. Len(T[t]) <= Len(S[t])
    BY <1>2 DEF Agree
<1>5. \A k \in Nat : k <= Len(T[t]) => Agree(T[t], S[t], k)
    BY <1>2, <1>3, AgreeFacts, SMT
<1>6. \A u, k : Has(T[t], u, k) => Has(S[t], u, k)
    BY <1>2, <1>3, SMT DEF Agree, Has
<1>7. \A u, k : u # t /\ Has(S[t], u, k) => Has(T[t], u, k)
    BY <1>2, <1>3, SMT DEF Agree, Has
<1> QED
    BY <1>2, <1>4, <1>5, <1>6, <1>7

LEMMA GrowsSound ==
    ASSUME NEW T, NEW W, NEW S, NEW V, Extends(T, W, S, V), NEW L \in Seq(Entry), NEW b, Sound(T, L, b)
    PROVE  Sound(S, L, b)
<1> SUFFICES ASSUME NEW k \in 1 .. Len(L)
             PROVE  L[k].Term \in DOMAIN S /\ L[k].Term <= b /\ Agree(L, S[L[k].Term], k)
    BY DEF Sound
<1> DEFINE t == L[k].Term
<1>1. t \in DOMAIN T /\ t <= b /\ Agree(L, T[t], k)
    BY DEF Sound
<1> HIDE DEF t
<1>2. t \in DOMAIN S /\ k \in Nat
    BY <1>1, GrowsHas, LogFacts, SMT
<1>3. T[t] \in Seq(Entry) /\ S[t] \in Seq(Entry)
    BY <1>1, <1>2, HistFacts DEF Extends
<1>4. Agree(T[t], S[t], k)
    <2>1. k <= Len(T[t])
        BY <1>1 DEF Agree
    <2> QED
        BY <1>1, <1>2, <2>1, GrowsHas
<1>5. Agree(L, S[t], k)
    BY <1>1, <1>2, <1>3, <1>4, AgreeFacts
<1> QED
    BY <1>1, <1>2, <1>5 DEF t

LEMMA GrowsLost ==
    ASSUME NEW T, NEW W, NEW S, NEW V, Extends(T, W, S, V), NEW s, NEW t \in Nat, NEW k, Lost(T, s, t, k)
    PROVE  Lost(S, s, t, k)
<1>1. s \in DOMAIN T /\ t < s /\ ~Has(T[s], t, k) /\ s \in Nat
    BY DEF Lost, Extends, HistTypes
<1>2. s \in DOMAIN S /\ ~Has(S[s], t, k)
    BY <1>1, GrowsHas, SMT
<1> QED
    BY <1>1, <1>2 DEF Lost

(* What has been acknowledged, committed and chosen remains so. *)
LEMMA GrowsAcked ==
    ASSUME NEW T, NEW W, NEW S, NEW V, Extends(T, W, S, V)
    PROVE  \A j, t, k : Acked(T, W, j, t, k) => Acked(S, V, j, t, k)'
<1> SUFFICES ASSUME NEW j, NEW t, NEW k, Acked(T, W, j, t, k) PROVE Acked(S, V, j, t, k)'
    OBVIOUS
<1>1. t \in DOMAIN S /\ Has(S[t], t, k)
    BY GrowsHas DEF Acked
<1>2. \/ <<t, j>> \in leaders'
      \/ \E w \in V : w[1] = j /\ w[2] = t /\ k <= w[3]
    BY DEF Acked, Extends
<1> QED
    BY <1>1, <1>2 DEF Acked

LEMMA GrowsCommitted ==
    ASSUME NEW T, NEW W, NEW S, NEW V, Extends(T, W, S, V)
    PROVE  \A t, k : Committed(T, W, t, k) => Committed(S, V, t, k)'
<1> SUFFICES ASSUME NEW t, NEW k, Committed(T, W, t, k) PROVE Committed(S, V, t, k)'
    OBVIOUS
<1>1. PICK Q \in Majorities : \A j \in Q : Acked(T, W, j, t, k)
    BY DEF Committed
<1>2. \A j \in Q : Acked(S, V, j, t, k)'
    BY <1>1, GrowsAcked
<1> QED
    BY <1>2 DEF Committed, Majorities

LEMMA GrowsChosen ==
    ASSUME NEW T, NEW W, NEW S, NEW V, Extends(T, W, S, V),
           NEW L \in Seq(Entry), NEW n \in Nat, NEW b \in Int, Chosen(T, W, L, n, b),
           NEW M \in Seq(Entry), Agree(L, M, n), NEW c \in Int, b <= c
    PROVE  Chosen(S, V, M, n, c)'
<1>1. n <= Len(M)
    BY DEF Agree
<1>2. CASE n = 0
    BY <1>1, <1>2, SMT DEF Chosen
<1>3. CASE n > 0
    <2>1. PICK t \in DOMAIN T : \E k \in 1 .. Len(T[t]) :
              t <= b /\ n <= k /\ Committed(T, W, t, k) /\ Agree(L, T[t], n)
        BY <1>3 DEF Chosen
    <2>2. PICK k \in 1 .. Len(T[t]) : t <= b /\ n <= k /\ Committed(T, W, t, k) /\ Agree(L, T[t], n)
        BY <2>1
    <2>3. t \in Nat /\ T[t] \in Seq(Entry) /\ Len(T[t]) \in Nat
        BY HistFacts DEF Extends
    <2>4. t \in DOMAIN S /\ Len(T[t]) <= Len(S[t]) /\ Agree(T[t], S[t], n)
        BY <2>2, <2>3, GrowsHas, SMT
    <2>5. S[t] \in Seq(Entry) /\ Len(S[t]) \in Nat
        BY <2>4, HistFacts DEF Extends
    <2>6. Agree(M, S[t], n)
        BY <2>2, <2>3, <2>4, <2>5, AgreeFacts
    <2>7. Committed(S, V, t, k)'
        BY <2>2, GrowsCommitted
    <2>8. t <= c /\ k \in 1 .. Len(S[t])
        BY <2>2, <2>3, <2>4, <2>5, SMT
    <2> QED
        BY <1>1, <2>2, <2>4, <2>6, <2>7, <2>8 DEF Chosen
<1> QED
    BY <1>2, <1>3, SMT

-----------------------------------------------------------------------------
(* What a step leaves alone *)

TermsGrow == \A j \in Server : currentTerm[j] <= currentTerm'[j]

(* No peer becomes a leader, nor a candidate in the same term. *)
Settled ==
    \A j \in Server :
        \/ currentTerm'[j] = currentTerm[j] /\ tp'[j] \in {tp[j], Follower}
        \/ currentTerm'[j] > currentTerm[j] /\ tp'[j] # Leader

(* Peer j remains leader as long as its term does not change. *)
Stays(j) == tp[j] = Leader /\ currentTerm'[j] = currentTerm[j] => tp'[j] = Leader

(* Nor does the log of a candidate change. *)
CandidatesKept ==
    \A c \in Server :
        tp'[c] = Candidate /\ currentTerm'[c] = currentTerm[c] => tp[c] = Candidate /\ log'[c] = log[c]

(* What every step does to the histories. *)
Moves(T, W, S, V) ==
    /\ TypeOK /\ TypeOK' /\ ElectionInv /\ History(T, W)
    /\ Extends(T, W, S, V) /\ Frozen(T, W, S, V) /\ TermsGrow /\ CandidatesKept

LEMMA TermFacts ==
    ASSUME TypeOK, TypeOK', TermsGrow, NEW i \in Server
    PROVE  currentTerm[i] \in Nat /\ currentTerm'[i] \in Nat /\ currentTerm[i] <= currentTerm'[i]
BY DEF TypeOK, TermTypes, TermsGrow

LEMMA SoundFrame ==
    ASSUME NEW T, NEW W, NEW S, NEW V, Moves(T, W, S, V), NEW i \in Server, log'[i] = log[i]
    PROVE  Sound(S, log'[i], currentTerm'[i])
<1>1. TypeOK /\ TypeOK' /\ TermsGrow /\ Extends(T, W, S, V)
    BY DEF Moves
<1>2. currentTerm[i] \in Nat /\ currentTerm'[i] \in Nat /\ log[i] \in Seq(Entry) /\ currentTerm[i] <= currentTerm'[i]
    BY <1>1, TermFacts DEF TypeOK, LogTypes
<1>3. \A k \in 1 .. Len(log[i]) : log[i][k].Term \in Nat
    BY <1>2, LogFacts
<1>4. Sound(T, log[i], currentTerm[i])
    BY DEF Moves, History, SoundInv
<1>5. Sound(T, log[i], currentTerm'[i])
    BY <1>2, <1>3, <1>4, SMT DEF Sound
<1> QED
    BY <1>1, <1>2, <1>5, GrowsSound

(* The calls in flight still tell the truth. *)
LEMMA SliceGrows ==
    ASSUME NEW T, NEW W, NEW S, NEW V, Extends(T, W, S, V), NEW m \in AppendRequest, m.Term \in DOMAIN T,
           Slice(m, T[m.Term])
    PROVE  Slice(m, S[m.Term])
<1> DEFINE L == T[m.Term]
           M == S[m.Term]
           end == m.PrevLogIndex + Len(m.Entries)
<1>1. m.PrevLogIndex \in Nat /\ Len(m.Entries) \in Nat /\ m.Entries \in Seq(Entry)
    BY LogFacts DEF AppendRequest
<1>2. Len(L) \in Nat /\ m.Term \in DOMAIN S
    BY HistFacts, GrowsHas DEF Extends
<1>3. Len(M) \in Nat
    BY <1>2, HistFacts DEF Extends
<1>4. Len(L) <= Len(M) /\ \A k \in 1 .. Len(L) : L[k] = M[k]
    BY DEF Extends, Grows, Agree
<1>5. \A k \in 1 .. Len(M) : k > Len(L) => M[k].Term = m.Term
    BY DEF Extends, Grows
<1>6. /\ end <= Len(L) /\ m.LeaderCommit <= end
      /\ \A k \in 1 .. Len(m.Entries) : m.Entries[k] = L[m.PrevLogIndex + k]
      /\ m.PrevLogIndex > 0 => m.PrevLogTerm = L[m.PrevLogIndex].Term
      /\ \A k \in 1 .. Len(L) : L[k].Term # m.Term => k <= end
      /\ m.Entries # <<>> => L[end].Term = m.Term
    BY DEF Slice
<1> HIDE DEF L, M
<1>7. end <= Len(M)
    BY <1>1, <1>2, <1>3, <1>4, <1>6, SMT
<1>8. ASSUME NEW k \in 1 .. Len(m.Entries) PROVE m.Entries[k] = M[m.PrevLogIndex + k]
    <2>1. m.PrevLogIndex + k \in 1 .. Len(L) /\ m.Entries[k] = L[m.PrevLogIndex + k]
        BY <1>1, <1>2, <1>6, SMT
    <2> QED
        BY <1>4, <2>1
<1>9. m.PrevLogIndex > 0 => m.PrevLogTerm = M[m.PrevLogIndex].Term
    <2>1. m.PrevLogIndex > 0 => m.PrevLogIndex \in 1 .. Len(L)
        BY <1>1, <1>2, <1>6, SMT
    <2> QED
        BY <1>4, <1>6, <2>1
<1>10. \A k \in 1 .. Len(M) : M[k].Term # m.Term => k <= end
    BY <1>1, <1>2, <1>3, <1>4, <1>5, <1>6, SMT
<1>11. m.Entries # <<>> => M[end].Term = m.Term
    <2>1. m.Entries # <<>> => end \in 1 .. Len(L)
        BY <1>1, <1>2, <1>6, LogFacts, SMT
    <2> QED
        BY <1>4, <1>6, <2>1
<1> QED
    BY <1>6, <1>7, <1>8, <1>9, <1>10, <1>11 DEF Slice, M

LEMMA SentFrame ==
    ASSUME NEW T, NEW W, NEW S, NEW V, Moves(T, W, S, V), NEW m \in aeReq, Stays(m.from)
    PROVE  SentAt(S, W, m)'
<1>1. TypeOK /\ TypeOK' /\ TermsGrow /\ Extends(T, W, S, V) /\ LedInv(T) /\ SentAt(T, W, m)
    BY DEF Moves, History, SentInv
<1>2. m \in AppendRequest /\ m.from \in Server /\ m.Term \in Nat
    BY <1>1 DEF TypeOK, AppendNetTypes, AppendRequest
<1>3. /\ m.from # m.to /\ <<m.Term, m.from>> \in leaders
      /\ m.live /\ m.Term = currentTerm[m.from] => tp[m.from] = Leader
      /\ Slice(m, T[m.Term])
      /\ \A w \in W : w[1] = m.to /\ w[2] = m.Term => w[3] <= m.PrevLogIndex + Len(m.Entries)
    BY <1>1 DEF SentAt
<1>4. m.Term \in DOMAIN T /\ m.Term <= currentTerm[m.from]
    BY <1>1, <1>3 DEF LedInv
<1>5. Slice(m, S[m.Term])
    BY <1>1, <1>2, <1>3, <1>4, SliceGrows
<1>6. m.Term = currentTerm'[m.from] => currentTerm'[m.from] = currentTerm[m.from]
    BY <1>1, <1>2, <1>4, TermFacts, SMT
<1>7. m.live /\ m.Term = currentTerm'[m.from] => tp'[m.from] = Leader
    BY <1>3, <1>6 DEF Stays
<1>8. <<m.Term, m.from>> \in leaders'
    BY <1>1, <1>3 DEF Extends
<1> QED
    BY <1>3, <1>5, <1>7, <1>8 DEF SentAt, Slice

LEMMA AnswerFrame ==
    ASSUME NEW T, NEW W, NEW S, NEW V, Moves(T, W, S, V), NEW r \in aeRep, Stays(r.from)
    PROVE  AnswerAt(S, V, r)'
<1> DEFINE end == r.PrevLogIndex + r.Count
<1>1. TypeOK /\ TypeOK' /\ TermsGrow /\ Extends(T, W, S, V) /\ LedInv(T) /\ AnswerAt(T, W, r)
    BY DEF Moves, History, AnswerInv
<1>2. r.from \in Server /\ r.termTemp \in Nat /\ r.PrevLogIndex \in Nat /\ r.Count \in Nat
    BY <1>1 DEF TypeOK, AppendNetTypes, AppendAnswer
<1>3. /\ r.from # r.to /\ <<r.termTemp, r.from>> \in leaders
      /\ r.termTemp = currentTerm[r.from] => tp[r.from] = Leader
      /\ end <= Len(T[r.termTemp])
      /\ r.Count > 0 => T[r.termTemp][end].Term = r.termTemp
      /\ r.Success => <<r.to, r.termTemp, end>> \in W
      /\ r.Miss => r.Len <= r.PrevLogIndex
      /\ r.TermStart <= r.PrevLogIndex
    BY <1>1 DEF AnswerAt
<1>4. r.termTemp \in DOMAIN T /\ r.termTemp <= currentTerm[r.from]
    BY <1>1, <1>3 DEF LedInv
<1>5. r.termTemp = currentTerm'[r.from] => currentTerm'[r.from] = currentTerm[r.from]
    BY <1>1, <1>2, <1>4, TermFacts, SMTT(30)
<1>6. r.termTemp = currentTerm'[r.from] => tp'[r.from] = Leader
    BY <1>3, <1>5 DEF Stays
<1>7. <<r.termTemp, r.from>> \in leaders' /\ (r.Success => <<r.to, r.termTemp, end>> \in V)
    BY <1>1, <1>3 DEF Extends
<1>8. Len(T[r.termTemp]) \in Nat /\ Len(S[r.termTemp]) \in Nat /\ Len(T[r.termTemp]) <= Len(S[r.termTemp])
    BY <1>1, <1>4, GrowsHas, HistFacts DEF Extends
<1>9. end <= Len(S[r.termTemp])
    BY <1>2, <1>3, <1>8, SMT
<1>10. r.Count > 0 => S[r.termTemp][end].Term = r.termTemp
    <2>1. r.Count > 0 => Has(T[r.termTemp], r.termTemp, end)
        BY <1>2, <1>3, <1>8, SMT DEF Has
    <2>2. r.Count > 0 => Has(S[r.termTemp], r.termTemp, end)
        BY <1>1, <1>4, <2>1, GrowsHas
    <2> QED
        BY <2>2 DEF Has
<1> QED
    BY <1>3, <1>6, <1>7, <1>9, <1>10 DEF AnswerAt

LEMMA AcceptFrame ==
    ASSUME NEW T, NEW W, NEW S, NEW V, Moves(T, W, S, V), NEW w \in W,
           w[2] = currentTerm[w[1]] => Agree(log[w[1]], log'[w[1]], w[3])
    PROVE  AcceptAt(S, w)'
<1>1. TypeOK /\ TypeOK' /\ TermsGrow /\ Extends(T, W, S, V) /\ AcceptAt(T, w)
    BY DEF Moves, History, AcceptInv
<1>2. w[1] \in Server /\ w[2] \in Nat /\ w[3] \in Nat
    BY <1>1 DEF Extends, HistTypes
<1>3. /\ w[2] \in DOMAIN T /\ w[2] <= currentTerm[w[1]] /\ w[3] <= Len(T[w[2]])
      /\ w[2] = currentTerm[w[1]] => Agree(log[w[1]], T[w[2]], w[3])
    BY <1>1 DEF AcceptAt
<1>4. /\ currentTerm[w[1]] \in Nat /\ currentTerm'[w[1]] \in Nat /\ currentTerm[w[1]] <= currentTerm'[w[1]]
      /\ log[w[1]] \in Seq(Entry) /\ log'[w[1]] \in Seq(Entry)
    BY <1>1, <1>2, TermFacts DEF TypeOK, LogTypes
<1>5. w[2] \in DOMAIN S /\ Len(T[w[2]]) <= Len(S[w[2]]) /\ Agree(T[w[2]], S[w[2]], w[3])
    BY <1>1, <1>2, <1>3, GrowsHas
<1>6. T[w[2]] \in Seq(Entry) /\ S[w[2]] \in Seq(Entry) /\ Len(T[w[2]]) \in Nat /\ Len(S[w[2]]) \in Nat
    BY <1>1, <1>3, <1>5, HistFacts DEF Extends
<1>7. ASSUME w[2] = currentTerm[w[1]] PROVE Agree(log'[w[1]], S[w[2]], w[3])
    <2>1. Agree(log'[w[1]], log[w[1]], w[3])
        BY <1>2, <1>4, <1>7, AgreeFacts
    <2>2. Agree(log'[w[1]], T[w[2]], w[3])
        BY <1>2, <1>3, <1>4, <1>6, <1>7, <2>1, AgreeFacts
    <2> QED
        BY <1>2, <1>4, <1>5, <1>6, <2>2, AgreeFacts
<1>8. w[2] <= currentTerm'[w[1]] /\ w[3] <= Len(S[w[2]])
    BY <1>2, <1>3, <1>4, <1>5, <1>6, SMTT(30)
<1>9. w[2] = currentTerm'[w[1]] => w[2] = currentTerm[w[1]]
    BY <1>2, <1>3, <1>4, SMT
<1> QED
    BY <1>5, <1>7, <1>8, <1>9 DEF AcceptAt, Agree

LEMMA KeptFrame ==
    ASSUME NEW T, NEW W, NEW S, NEW V, Moves(T, W, S, V), NEW j \in Server, NEW t, NEW k, Acked(T, W, j, t, k),
           Has(log[j], t, k) => Has(log'[j], t, k)
    PROVE  KeptAt(S, j, t, k)'
<1>1. TypeOK /\ TypeOK' /\ TermsGrow /\ Extends(T, W, S, V) /\ KeptInv(T, W)
    BY DEF Moves, History
<1>2. t \in DOMAIN T /\ k \in 1 .. Len(T[t])
    BY DEF Acked, Has
<1>3. Has(log[j], t, k) \/ \E s \in DOMAIN T : s <= currentTerm[j] /\ Lost(T, s, t, k)
    BY <1>1, <1>2 DEF KeptInv, KeptAt
<1>4. t \in Nat /\ currentTerm[j] \in Nat /\ currentTerm'[j] \in Nat /\ currentTerm[j] <= currentTerm'[j]
    BY <1>1, <1>2, HistFacts, TermFacts DEF Extends
<1>5. ASSUME NEW s \in DOMAIN T, s <= currentTerm[j], Lost(T, s, t, k)
      PROVE  s \in DOMAIN S /\ s <= currentTerm'[j] /\ Lost(S, s, t, k)
    <2>1. s \in Nat /\ s <= currentTerm'[j]
        BY <1>1, <1>4, <1>5, HistFacts, SMTT(30) DEF Extends
    <2> QED
        BY <1>1, <1>4, <1>5, <2>1, GrowsLost DEF Lost
<1> QED
    BY <1>3, <1>5 DEF KeptAt, Has

LEMMA AskFrame ==
    ASSUME NEW T, NEW W, NEW S, NEW V, Moves(T, W, S, V), NEW m \in rvReq
    PROVE  AskAt(m)'
<1>1. TypeOK /\ TypeOK' /\ TermsGrow /\ CandidatesKept /\ AskAt(m)
    BY DEF Moves, History, AskInv
<1>2. m.from \in Server /\ m.Term \in Nat
    BY <1>1 DEF TypeOK, VoteNetTypes, VoteRequest
<1>3. currentTerm[m.from] \in Nat /\ currentTerm'[m.from] \in Nat /\ currentTerm[m.from] <= currentTerm'[m.from]
    BY <1>1, <1>2, TermFacts
<1>4. m.Term <= currentTerm[m.from]
    BY <1>1 DEF AskAt
<1>5. m.Term <= currentTerm'[m.from] /\ (m.Term = currentTerm'[m.from] => currentTerm'[m.from] = currentTerm[m.from])
    BY <1>2, <1>3, <1>4, SMT
<1>6. tp'[m.from] = Candidate /\ m.Term = currentTerm'[m.from] =>
          tp[m.from] = Candidate /\ log'[m.from] = log[m.from] /\ m.Term = currentTerm[m.from]
    BY <1>1, <1>2, <1>5 DEF CandidatesKept
<1> QED
    BY <1>1, <1>5, <1>6 DEF AskAt, TermAt

LEMMA CoversFrame ==
    ASSUME TypeOK, NEW T, NEW W, NEW S, NEW V, Extends(T, W, S, V), Frozen(T, W, S, V),
           NEW j \in Server, NEW u \in Nat, u <= currentTerm[j], NEW b, NEW L, Covers(T, W, L, j, u, b)
    PROVE  Covers(S, V, L, j, u, b)'
<1> SUFFICES ASSUME NEW t \in DOMAIN S, NEW k \in 1 .. Len(S[t]), t < u, Acked(S, V, j, t, k)'
             PROVE  Has(L, t, k) \/ \E s \in DOMAIN S : s <= b /\ Lost(S, s, t, k)
    BY DEF Covers
<1>1. t \in Nat /\ currentTerm[j] \in Nat
    BY HistFacts DEF Extends, TypeOK, TermTypes
<1>2. Acked(T, W, j, t, k)
    BY <1>1, SMT DEF Frozen
<1>3. t \in DOMAIN T /\ k \in 1 .. Len(T[t])
    BY <1>2 DEF Acked, Has
<1>4. Has(L, t, k) \/ \E s \in DOMAIN T : s <= b /\ Lost(T, s, t, k)
    BY <1>2, <1>3 DEF Covers
<1>5. ASSUME NEW s \in DOMAIN T, s <= b, Lost(T, s, t, k) PROVE \E r \in DOMAIN S : r <= b /\ Lost(S, r, t, k)
    <2>1. Lost(S, s, t, k) /\ s \in DOMAIN S
        BY <1>1, <1>5, GrowsLost DEF Lost
    <2> QED
        BY <1>5, <2>1
<1> QED
    BY <1>4, <1>5

LEMMA VotedFrame ==
    ASSUME NEW T, NEW W, NEW S, NEW V, Moves(T, W, S, V), NEW v \in votes
    PROVE  v[2] <= currentTerm'[v[3]] /\ VotedAt(S, V, v)'
<1>1. /\ TypeOK /\ TypeOK' /\ TermsGrow /\ CandidatesKept /\ Extends(T, W, S, V) /\ Frozen(T, W, S, V)
      /\ v[2] <= currentTerm[v[3]] /\ VotedAt(T, W, v)
    BY DEF Moves, History, AskInv, VotedInv
<1>2. v[1] \in Server /\ v[2] \in Nat /\ v[3] \in Server
    BY <1>1 DEF TypeOK, OtherTypes
<1>3. v[2] <= currentTerm[v[1]]
    BY DEF Moves, ElectionInv, VotesKnown
<1>4. v[2] <= currentTerm'[v[3]] /\ (v[2] = currentTerm'[v[3]] => currentTerm'[v[3]] = currentTerm[v[3]])
    BY <1>1, <1>2, TermFacts, SMT
<1>5. ASSUME v[2] = currentTerm'[v[3]], tp'[v[3]] = Candidate PROVE Covers(S, V, log[v[3]], v[1], v[2], v[2])'
    <2>1. tp[v[3]] = Candidate /\ log'[v[3]] = log[v[3]]
        BY <1>1, <1>2, <1>4, <1>5 DEF CandidatesKept
    <2>2. PICK L : L = log[v[3]]
        OBVIOUS
    <2>3. Covers(T, W, L, v[1], v[2], v[2])
        BY <1>1, <1>4, <1>5, <2>1, <2>2 DEF VotedAt
    <2>4. Covers(S, V, L, v[1], v[2], v[2])'
        BY <1>1, <1>2, <1>3, <2>3, CoversFrame
    <2> QED
        BY <2>1, <2>2, <2>4 DEF Covers
<1> QED
    BY <1>4, <1>5 DEF VotedAt

LEMMA WonFrame ==
    ASSUME NEW T, NEW W, NEW S, NEW V, Moves(T, W, S, V), NEW u \in DOMAIN T
    PROVE  Won(S, V, u)'
<1>1. TypeOK /\ TypeOK' /\ TermsGrow /\ Extends(T, W, S, V) /\ Frozen(T, W, S, V) /\ Won(T, W, u)
    BY DEF Moves, History, WonInv
<1>2. PICK Q \in Majorities : \A j \in Q : u <= currentTerm[j] /\ Covers(T, W, T[u], j, u, u - 1)
    BY <1>1 DEF Won
<1>3. u \in Nat /\ u \in DOMAIN S
    BY <1>1, HistFacts, GrowsHas DEF Extends
<1>4. ASSUME NEW j \in Q PROVE u <= currentTerm'[j] /\ Covers(S, V, S[u], j, u, u - 1)'
    <2>1. j \in Server /\ u <= currentTerm[j]
        BY <1>2 DEF Majorities
    <2>2. u <= currentTerm'[j]
        BY <1>1, <1>3, <2>1, TermFacts, SMT
    <2>3. Covers(S, V, T[u], j, u, u - 1)'
        BY <1>1, <1>2, <1>3, <2>1, CoversFrame
    <2>4. \A t, k : Has(T[u], t, k) => Has(S[u], t, k)
        BY <1>1, GrowsHas
    <2>5. Covers(S, V, S[u], j, u, u - 1)'
        BY <2>3, <2>4 DEF Covers
    <2> QED
        BY <2>2, <2>5
<1> QED
    BY <1>4 DEF Won, Majorities

LEMMA LeadFrame ==
    ASSUME NEW W, NEW V, W \subseteq V, NEW i \in Server, LeadAt(W, i),
           tp'[i] = Leader => tp[i] = Leader /\ currentTerm'[i] = currentTerm[i],
           nextIndex'[i] = nextIndex[i], matchIndex'[i] = matchIndex[i], startAppend'[i] = startAppend[i],
           log'[i] = log[i]
    PROVE  LeadAt(V, i)'
BY DEF LeadAt, Has

LEMMA StartedFrame ==
    ASSUME NEW T, NEW W, NEW S, NEW V, Moves(T, W, S, V), NEW i \in Server,
           tp'[i] = Leader => (tp[i] = Leader /\ (startAppend[i] => startAppend'[i])) \/ tp[i] = Candidate
    PROVE  \A t : Started(i, t) => Started(i, t)'
<1> SUFFICES ASSUME NEW t, Started(i, t) PROVE Started(i, t)'
    OBVIOUS
<1>1. TypeOK /\ TypeOK' /\ TermsGrow /\ LedInv(T) /\ leaders \subseteq leaders'
    BY DEF Moves, History, Extends
<1>2. <<t, i>> \in leaders /\ (t = currentTerm[i] /\ tp[i] = Leader => startAppend[i])
    BY DEF Started
<1>3. t \in Nat /\ t <= currentTerm[i] /\ (t = currentTerm[i] => tp[i] # Candidate)
    BY <1>1, <1>2 DEF LedInv, TypeOK, OtherTypes
<1>4. t = currentTerm'[i] => t = currentTerm[i]
    BY <1>1, <1>3, TermFacts, SMTT(30)
<1>5. t = currentTerm'[i] /\ tp'[i] = Leader => startAppend'[i]
    BY <1>2, <1>3, <1>4
<1> QED
    BY <1>1, <1>2, <1>5 DEF Started

LEMMA CommitFrame ==
    ASSUME NEW T, NEW W, NEW S, NEW V, Moves(T, W, S, V), NEW i \in Server,
           Agree(log[i], log'[i], commitIndex[i]), commitIndex'[i] = commitIndex[i]
    PROVE  CommitAt(S, V, i)'
<1>1. TypeOK /\ TypeOK' /\ TermsGrow /\ Extends(T, W, S, V) /\ CommitAt(T, W, i)
    BY DEF Moves, History, CommitInv
<1>2. /\ currentTerm[i] \in Nat /\ currentTerm'[i] \in Nat /\ currentTerm[i] <= currentTerm'[i]
      /\ log[i] \in Seq(Entry) /\ log'[i] \in Seq(Entry) /\ commitIndex[i] \in Nat
    BY <1>1, TermFacts DEF TypeOK, LogTypes, ServiceTypes
<1>3. PICK L, M, n, b, c : L = log[i] /\ M = log'[i] /\ n = commitIndex[i] /\ b = currentTerm[i] /\ c = currentTerm'[i]
    OBVIOUS
<1>4. L \in Seq(Entry) /\ M \in Seq(Entry) /\ n \in Nat /\ b \in Nat /\ c \in Nat /\ b <= c /\ Agree(L, M, n)
    BY <1>2, <1>3
<1>5. Chosen(T, W, L, n, b)
    BY <1>1, <1>3 DEF CommitAt
<1>6. Chosen(S, V, M, n, c)'
    BY <1>1, <1>4, <1>5, GrowsChosen, SMTT(30)
<1>7. Chosen(S, V, log[i], commitIndex[i], currentTerm[i])'
    BY <1>3, <1>6 DEF Chosen
<1>8. ASSUME Chosen(S, V, M, n, c - 1)' PROVE CommitAt(S, V, i)'
    <2>1. Chosen(S, V, log[i], commitIndex[i], currentTerm[i] - 1)'
        BY <1>3, <1>8 DEF Chosen
    <2> QED
        BY <1>7, <2>1 DEF CommitAt
<1>9. CASE b < c
    <2>1. Chosen(S, V, M, n, c - 1)'
        BY <1>1, <1>4, <1>5, <1>9, GrowsChosen, SMTT(30)
    <2> QED
        BY <1>8, <2>1
<1>10. CASE b = c
    <2>1. CASE <<b, i>> \in leaders
        <3>1. <<currentTerm'[i], i>> \in leaders'
            BY <1>1, <1>3, <1>10, <2>1 DEF Extends
        <3> QED
            BY <1>7, <3>1 DEF CommitAt
    <2>2. CASE \E w \in W : w[1] = i /\ w[2] = b /\ n <= w[3]
        <3>1. \E w \in V : w[1] = i /\ w[2] = currentTerm'[i] /\ commitIndex'[i] <= w[3]
            BY <1>1, <1>3, <1>10, <2>2 DEF Extends
        <3> QED
            BY <1>7, <3>1 DEF CommitAt
    <2>3. CASE Chosen(T, W, L, n, b - 1)
        <3>1. Chosen(S, V, M, n, c - 1)'
            BY <1>1, <1>4, <1>10, <2>3, GrowsChosen, SMTT(30)
        <3> QED
            BY <1>8, <3>1
    <2> QED
        BY <1>1, <1>3, <2>1, <2>2, <2>3 DEF CommitAt
<1> QED
    BY <1>4, <1>9, <1>10, SMT

LEMMA CommitSentFrame ==
    ASSUME NEW T, NEW W, NEW S, NEW V, Moves(T, W, S, V), NEW m \in aeReq
    PROVE  CommitSent(S, V, m)'
<1>1. /\ TypeOK /\ Extends(T, W, S, V) /\ LedInv(T) /\ SentAt(T, W, m)
      /\ Chosen(T, W, T[m.Term], m.LeaderCommit, m.Term)
    BY DEF Moves, History, SentInv, CommitInv, CommitSent
<1>2. m.Term \in Nat /\ m.LeaderCommit \in Nat
    BY <1>1 DEF TypeOK, AppendNetTypes, AppendRequest
<1>3. m.Term \in DOMAIN T
    BY <1>1 DEF LedInv, SentAt
<1>4. m.LeaderCommit <= Len(T[m.Term])
    BY <1>1 DEF Chosen
<1>5. m.Term \in DOMAIN S /\ Agree(T[m.Term], S[m.Term], m.LeaderCommit)
    BY <1>1, <1>2, <1>3, <1>4, GrowsHas
<1>6. T[m.Term] \in Seq(Entry) /\ S[m.Term] \in Seq(Entry)
    BY <1>1, <1>3, <1>5, HistFacts DEF Extends
<1>7. Chosen(S, V, S[m.Term], m.LeaderCommit, m.Term)'
    BY <1>1, <1>2, <1>5, <1>6, GrowsChosen, SMT
<1> QED
    BY <1>7 DEF CommitSent

LEMMA AppliedFrame ==
    ASSUME NEW T, NEW W, NEW S, NEW V, Moves(T, W, S, V), NEW a \in applied
    PROVE  AppliedAt(S, V, a)'
<1>1. Extends(T, W, S, V) /\ AppliedAt(T, W, a)
    BY DEF Moves, History, AppliedInv
<1>2. PICK t \in DOMAIN T : \E k \in 1 .. Len(T[t]) :
          t <= a[3] /\ a[1] \in 1 .. k /\ Committed(T, W, t, k) /\ T[t][a[1]] = a[2]
    BY <1>1 DEF AppliedAt
<1>3. PICK k \in 1 .. Len(T[t]) : t <= a[3] /\ a[1] \in 1 .. k /\ Committed(T, W, t, k) /\ T[t][a[1]] = a[2]
    BY <1>2
<1>4. t \in DOMAIN S /\ Len(T[t]) <= Len(S[t]) /\ Agree(T[t], S[t], Len(T[t]))
    BY <1>1, HistFacts, GrowsHas, SMTT(30) DEF Extends
<1>5. Len(T[t]) \in Nat /\ Len(S[t]) \in Nat
    BY <1>1, <1>4, HistFacts DEF Extends
<1>6. k \in 1 .. Len(S[t]) /\ S[t][a[1]] = a[2]
    <2>1. PICK n \in Nat : n = Len(T[t])
        BY <1>5
    <2>2. PICK h \in 1 .. k : h = a[1]
        BY <1>3
    <2>3. h \in 1 .. n /\ k \in 1 .. Len(S[t])
        BY <1>4, <1>5, <2>1, SMT
    <2> QED
        BY <1>3, <1>4, <2>1, <2>2, <2>3 DEF Agree
<1>7. Committed(S, V, t, k)'
    BY <1>1, <1>3, GrowsCommitted
<1> QED
    BY <1>3, <1>4, <1>6, <1>7 DEF AppliedAt

(* What every step keeps. *)
LEMMA Frames ==
    ASSUME NEW T, NEW W, NEW S, NEW V, Moves(T, W, S, V)
    PROVE  /\ HistTypes(S, V)'
           /\ rvReq' \subseteq rvReq /\ votes' = votes => AskInv' /\ VotedInv(S, V)'
           /\ DOMAIN S = DOMAIN T => WonInv(S, V)'
           /\ aeRep' \subseteq aeRep /\ (\A j \in Server : Stays(j)) => AnswerInv(S, V)'
           /\ aeReq' \subseteq aeReq /\ (\A j \in Server : Stays(j)) => SentInv(S, W)'
           /\ aeReq' \subseteq aeReq => \A m \in aeReq' : CommitSent(S, V, m)'
           /\ applied' = applied => AppliedInv(S, V)'
<1>1. HistTypes(S, V)'
    BY DEF Moves, Extends, HistTypes
<1>2. ASSUME rvReq' \subseteq rvReq, votes' = votes PROVE AskInv' /\ VotedInv(S, V)'
    <2>1. \A m \in rvReq' : AskAt(m)'
        BY <1>2, AskFrame
    <2>2. \A v \in votes' : v[2] <= currentTerm'[v[3]] /\ VotedAt(S, V, v)'
        BY <1>2, VotedFrame
    <2> QED
        BY <2>1, <2>2 DEF AskInv, VotedInv
<1>3. DOMAIN S = DOMAIN T => WonInv(S, V)'
    BY WonFrame DEF WonInv
<1>4. /\ aeRep' \subseteq aeRep /\ (\A j \in Server : Stays(j)) => AnswerInv(S, V)'
    <2>1. \A r \in aeRep : r.from \in Server
        BY DEF Moves, TypeOK, AppendNetTypes, AppendAnswer
    <2> QED
        BY <2>1, AnswerFrame DEF AnswerInv
<1>5. ASSUME aeReq' \subseteq aeReq, \A j \in Server : Stays(j) PROVE SentInv(S, W)'
    <2>1. \A m \in aeReq : m.from \in Server
        BY DEF Moves, TypeOK, AppendNetTypes, AppendRequest
    <2>2. \A m \in aeReq' : SentAt(S, W, m)'
        BY <1>5, <2>1, SentFrame
    <2>3. OneCall'
        BY <1>5 DEF Moves, History, SentInv, OneCall, SameCall
    <2> QED
        BY <2>2, <2>3 DEF SentInv
<1>6. aeReq' \subseteq aeReq => \A m \in aeReq' : CommitSent(S, V, m)'
    BY CommitSentFrame
<1>7. applied' = applied => AppliedInv(S, V)'
    BY AppliedFrame DEF AppliedInv
<1> QED
    BY <1>1, <1>2, <1>3, <1>4, <1>5, <1>6, <1>7

-----------------------------------------------------------------------------
(* Steps that change no log and elect nobody *)

(* No peer is elected, no candidate is made and no leader steps down but   *)
(* to a later term.                                                        *)
TermsCalm == Settled /\ \A j \in Server : Stays(j)

LEMMA SameHistory ==
    ASSUME NEW T, NEW W, HistTypes(T, W), leaders' = leaders
    PROVE  Extends(T, W, T, W) /\ Frozen(T, W, T, W)
<1>1. \A t \in DOMAIN T : Len(T[t]) \in Nat
    BY HistFacts
<1>2. Grows(T, T)
    BY <1>1, SMT DEF Grows, Agree
<1>3. Frozen(T, W, T, W)
    BY DEF Frozen, Acked
<1> QED
    BY <1>2, <1>3 DEF Extends

LEMMA QuietMoves ==
    ASSUME TypeOK, TypeOK', ElectionInv, NEW T, NEW W, History(T, W), Settled, UNCHANGED <<log, leaders>>
    PROVE  /\ Moves(T, W, T, W)
           /\ \A i \in Server : tp'[i] = Leader => tp[i] = Leader /\ currentTerm'[i] = currentTerm[i]
<1>1. currentTerm \in [Server -> Nat] /\ currentTerm' \in [Server -> Nat]
    BY DEF TypeOK, TermTypes
<1>2. TermsGrow
    BY <1>1, SMT DEF Settled, TermsGrow
<1>3. CandidatesKept
    BY <1>1, SMT DEF Settled, CandidatesKept, Candidate, Follower
<1>4. \A i \in Server : tp'[i] = Leader => tp[i] = Leader /\ currentTerm'[i] = currentTerm[i]
    BY SMT DEF Settled, Leader, Follower
<1>5. Extends(T, W, T, W) /\ Frozen(T, W, T, W)
    BY SameHistory DEF History
<1> QED
    BY <1>2, <1>3, <1>4, <1>5 DEF Moves

LEMMA LedFrame ==
    ASSUME TypeOK, TypeOK', NEW T, LedInv(T), Settled, UNCHANGED <<log, leaders>>
    PROVE  LedInv(T)'
<1>1. currentTerm \in [Server -> Nat] /\ currentTerm' \in [Server -> Nat] /\ leaders \subseteq Nat \X Server
    BY DEF TypeOK, TermTypes, OtherTypes
<1>2. \A t \in DOMAIN T : \E i \in Server : <<t, i>> \in leaders'
    BY DEF LedInv
<1>3. ASSUME NEW l \in leaders'
      PROVE  /\ l[1] \in DOMAIN T /\ l[1] <= currentTerm'[l[2]]
             /\ l[1] = currentTerm'[l[2]] => tp'[l[2]] # Candidate /\ log'[l[2]] = T[l[1]]
    <2>1. l \in leaders /\ l[1] \in Nat /\ l[2] \in Server
        BY <1>1
    <2>2. /\ l[1] \in DOMAIN T /\ l[1] <= currentTerm[l[2]]
          /\ l[1] = currentTerm[l[2]] => tp[l[2]] # Candidate /\ log[l[2]] = T[l[1]]
        BY <2>1 DEF LedInv
    <2> QED
        BY <1>1, <2>1, <2>2, SMTT(30) DEF Settled, Candidate, Follower
<1>4. \A i \in Server : tp'[i] = Leader => <<currentTerm'[i], i>> \in leaders'
    BY SMT DEF LedInv, Settled, Follower, Leader
<1> QED
    BY <1>2, <1>3, <1>4 DEF LedInv

LEMMA AgreeSame ==
    ASSUME NEW L \in Seq(Entry), NEW n \in Nat, n <= Len(L)
    PROVE  Agree(L, L, n)
BY DEF Agree

(* The logs of the peers and of the histories. *)
LEMMA QuietLogs ==
    ASSUME TypeOK, TypeOK', NEW T, NEW W, Moves(T, W, T, W), Settled, UNCHANGED <<log, leaders>>
    PROVE  LedInv(T)' /\ SoundInv(T)' /\ AcceptInv(T, W)' /\ KeptInv(T, W)'
<1>1. History(T, W)
    BY DEF Moves
<1>2. LedInv(T)'
    BY <1>1, LedFrame DEF History
<1>3. SoundInv(T)'
    <2>1. \A i \in Server : Sound(T, log'[i], currentTerm'[i])
        BY SoundFrame
    <2> QED
        BY <1>1, <2>1 DEF History, SoundInv, Sound
<1>4. AcceptInv(T, W)'
    <2>1. ASSUME NEW w \in W PROVE AcceptAt(T, w)'
        <3>1. w[1] \in Server /\ w[3] \in Nat
            BY <1>1 DEF History, HistTypes
        <3>2. log[w[1]] \in Seq(Entry)
            BY <3>1 DEF TypeOK, LogTypes
        <3>3. w[2] = currentTerm[w[1]] => w[3] <= Len(log[w[1]])
            BY <1>1 DEF History, AcceptInv, AcceptAt, Agree
        <3> QED
            BY <3>1, <3>2, <3>3, AgreeSame, AcceptFrame
    <2> QED
        BY <2>1 DEF AcceptInv
<1>5. KeptInv(T, W)'
    <2> SUFFICES ASSUME NEW j \in Server, NEW t \in DOMAIN T, NEW k \in 1 .. Len(T[t]), Acked(T, W, j, t, k)'
                 PROVE  KeptAt(T, j, t, k)'
        BY DEF KeptInv
    <2>1. Acked(T, W, j, t, k)
        BY DEF Acked
    <2> QED
        BY <2>1, KeptFrame
<1> QED
    BY <1>2, <1>3, <1>4, <1>5

LEMMA QuietCommit ==
    ASSUME NEW T, NEW W, Moves(T, W, T, W), UNCHANGED log
    PROVE  \A i \in Server : commitIndex'[i] = commitIndex[i] => CommitAt(T, W, i)'
<1> SUFFICES ASSUME NEW i \in Server, commitIndex'[i] = commitIndex[i] PROVE CommitAt(T, W, i)'
    OBVIOUS
<1>1. TypeOK /\ commitIndex[i] <= Len(log[i])
    BY DEF Moves, History, CommitInv, CommitAt, Chosen
<1>2. log[i] \in Seq(Entry) /\ commitIndex[i] \in Nat
    BY <1>1 DEF TypeOK, LogTypes, ServiceTypes
<1>3. Agree(log[i], log'[i], commitIndex[i])
    BY <1>1, <1>2, AgreeSame
<1> QED
    BY <1>3, CommitFrame

LEMMA QuietStarted ==
    ASSUME TypeOK, TypeOK', ElectionInv, NEW T, NEW W, History(T, W), UNCHANGED <<log, leaders, startAppend>>, Settled
    PROVE  \A i \in Server : \A t : Started(i, t) => Started(i, t)'
BY QuietMoves, StartedFrame

(* The install goroutines and calls of a step that were started before it. *)
LEMMA InstallsFrame ==
    ASSUME TypeOK', \A i \in Server : \A t : Started(i, t) => Started(i, t)',
           \A i \in Server : \A g \in installs'[i] : Started(i, g.termTemp),
           \A m \in isReq' : Started(m.from, m.termTemp), \A r \in isRep' : Started(r.from, r.termTemp)
    PROVE  InstallsInv'
<1>1. (\A m \in isReq' : m.from \in Server) /\ (\A r \in isRep' : r.from \in Server)
    BY DEF TypeOK, AppendNetTypes, SnapRequest, SnapAnswer
<1>2. \A i \in Server : \A g \in installs'[i] : Started(i, g.termTemp)'
    OBVIOUS
<1>3. (\A m \in isReq' : Started(m.from, m.termTemp)') /\ (\A r \in isRep' : Started(r.from, r.termTemp)')
    BY <1>1
<1> QED
    BY <1>2, <1>3 DEF InstallsInv

(* No log, no leadership and no commitment changes. *)
LEMMA QuietBase ==
    ASSUME TypeOK, TypeOK', ElectionInv, NEW T, NEW W, History(T, W), TermsCalm,
           UNCHANGED <<log, leaders, matchIndex, startAppend, commitIndex, applied>>
    PROVE  /\ HistTypes(T, W)' /\ LedInv(T)' /\ SoundInv(T)' /\ AcceptInv(T, W)' /\ KeptInv(T, W)'
           /\ WonInv(T, W)' /\ CommitUpToDate' /\ AppliedInv(T, W)' /\ (\A i \in Server : CommitAt(T, W, i)')
           /\ aeReq' \subseteq aeReq => SentInv(T, W)' /\ CommitInv(T, W)'
           /\ aeRep' \subseteq aeRep => AnswerInv(T, W)'
           /\ rvReq' \subseteq rvReq /\ votes' = votes => AskInv' /\ VotedInv(T, W)'
           /\ nextIndex' = nextIndex => LeadInv(W)'
<1>1. Settled /\ (\A j \in Server : Stays(j))
    BY DEF TermsCalm
<1>2. Moves(T, W, T, W) /\ \A i \in Server : tp'[i] = Leader => tp[i] = Leader /\ currentTerm'[i] = currentTerm[i]
    BY <1>1, QuietMoves
<1>3. LedInv(T)' /\ SoundInv(T)' /\ AcceptInv(T, W)' /\ KeptInv(T, W)'
    BY <1>1, <1>2, QuietLogs
<1>4. \A i \in Server : CommitAt(T, W, i)'
    BY <1>2, QuietCommit
<1>5. /\ HistTypes(T, W)' /\ WonInv(T, W)' /\ AppliedInv(T, W)'
      /\ aeReq' \subseteq aeReq => SentInv(T, W)' /\ \A m \in aeReq' : CommitSent(T, W, m)'
      /\ aeRep' \subseteq aeRep => AnswerInv(T, W)'
      /\ rvReq' \subseteq rvReq /\ votes' = votes => AskInv' /\ VotedInv(T, W)'
    BY <1>1, <1>2, Frames
<1>6. CommitUpToDate'
    BY DEF History, CommitUpToDate, MedianMatch
<1>7. nextIndex' = nextIndex => LeadInv(W)'
    <2>1. \A i \in Server : LeadAt(W, i)
        BY DEF History, LeadInv
    <2>2. nextIndex' = nextIndex => \A i \in Server : LeadAt(W, i)'
        BY <1>2, <2>1, LeadFrame
    <2> QED
        BY <2>2 DEF LeadInv
<1> QED
    BY <1>3, <1>4, <1>5, <1>6, <1>7 DEF CommitInv

(* Nothing but terms changes. *)
LEMMA QuietStep ==
    ASSUME TypeOK, TypeOK', ElectionInv, NEW T, NEW W, History(T, W), TermsCalm,
           UNCHANGED <<log, leaders, leaderVars, commitIndex, applied, votes>>, rvReq' \subseteq rvReq,
           aeReq' \subseteq aeReq, aeRep' \subseteq aeRep,
           \A i \in Server : installs'[i] \subseteq installs[i], isReq' \subseteq isReq, isRep' \subseteq isRep
    PROVE  History(T, W)'
<1>1. UNCHANGED <<nextIndex, matchIndex, startAppend>> /\ Settled
    BY DEF leaderVars, TermsCalm
<1>2. /\ HistTypes(T, W)' /\ LedInv(T)' /\ SoundInv(T)' /\ AcceptInv(T, W)' /\ KeptInv(T, W)'
      /\ WonInv(T, W)' /\ CommitUpToDate' /\ AppliedInv(T, W)' /\ SentInv(T, W)' /\ CommitInv(T, W)'
      /\ AnswerInv(T, W)' /\ AskInv' /\ VotedInv(T, W)' /\ LeadInv(W)'
    BY <1>1, QuietBase
<1>3. InstallsInv'
    <2>1. /\ \A i \in Server : \A g \in installs'[i] : Started(i, g.termTemp)
          /\ (\A m \in isReq' : Started(m.from, m.termTemp)) /\ (\A r \in isRep' : Started(r.from, r.termTemp))
        BY DEF History, InstallsInv
    <2>2. \A i \in Server : \A t : Started(i, t) => Started(i, t)'
        BY <1>1, QuietStarted
    <2> QED
        BY <2>1, <2>2, InstallsFrame
<1> QED
    BY <1>2, <1>3 DEF History

-----------------------------------------------------------------------------
(* The steps without compaction *)

LEMMA TermsSame ==
    ASSUME TypeOK, UNCHANGED termVars
    PROVE  TermsCalm
BY DEF termVars, TermsCalm, Settled, Stays

LEMMA TermsUp ==
    ASSUME TypeOK, NEW i \in Server, NEW t \in Nat, t > currentTerm[i], termUpdate(i, t)
    PROVE  TermsCalm
<1>1. Settled
    BY SMT DEF termUpdate, Settled, TypeOK, TermTypes, Follower, Leader
<1>2. \A j \in Server : Stays(j)
    BY SMT DEF termUpdate, Stays, TypeOK, TermTypes
<1> QED
    BY <1>1, <1>2 DEF TermsCalm

LEMMA TermsAccept ==
    ASSUME TypeOK, NEW i \in Server, NEW t \in Nat, AcceptLeader(i, t)
    PROVE  TermsCalm
<1>1. CASE t > currentTerm[i]
    BY <1>1, TermsUp DEF AcceptLeader
<1>2. CASE ~(t > currentTerm[i])
    <2>1. tp' = [tp EXCEPT ![i] = IF @ = Candidate THEN Follower ELSE @] /\ UNCHANGED currentTerm
        BY <1>2 DEF AcceptLeader
    <2>2. Settled
        BY <2>1 DEF Settled, TypeOK, TermTypes
    <2>3. \A j \in Server : Stays(j)
        BY <2>1, SMT DEF Stays, TypeOK, TermTypes, Leader, Candidate
    <2> QED
        BY <2>2, <2>3 DEF TermsCalm
<1> QED
    BY <1>1, <1>2

(* The steps that concern neither logs nor histories. *)
LEMMA QuietActions ==
    ASSUME TypeOK, TypeOK', ElectionInv, NEW T, NEW W, History(T, W)
    PROVE  /\ UNCHANGED vars => History(T, W)'
           /\ \A r \in rvRep : VoteReply(r) => History(T, W)'
           /\ \A i \in Server : ElectionCheck(i) \/ OfferSnapshot(i) => History(T, W)'
           /\ \A x \in InFlight : LoseCall(x) => History(T, W)'
           /\ \A i \in Server : \A t \in noops[i] : tp[i] # Leader /\ StartNoop(i, t) => History(T, W)'
<1>1. ASSUME UNCHANGED vars PROVE History(T, W)'
    <2>1. TermsCalm
        BY <1>1, TermsSame DEF vars
    <2> QED
        BY <1>1, <2>1, QuietStep DEF vars, logVars, serviceVars, voteNet, appendNet
<1>2. ASSUME NEW r \in rvRep, VoteReply(r) PROVE History(T, W)'
    <2>1. r.from \in Server /\ r.Term \in Nat
        BY DEF TypeOK, VoteNetTypes, VoteAnswer
    <2>2. (r.Term > currentTerm[r.from] /\ termUpdate(r.from, r.Term)) \/ UNCHANGED termVars
        BY <1>2 DEF VoteReply, StepDown
    <2>3. TermsCalm
        BY <2>1, <2>2, TermsSame, TermsUp
    <2>4. UNCHANGED logVars
        BY <1>2 DEF VoteReply, StepDown
    <2>5. UNCHANGED <<leaderVars, installs, rvReq, appendNet, serviceVars, votes, leaders>>
        BY <1>2 DEF VoteReply
    <2> QED
        BY <2>3, <2>4, <2>5, QuietStep DEF logVars, serviceVars, appendNet
<1>3. ASSUME NEW i \in Server, ElectionCheck(i) \/ OfferSnapshot(i) PROVE History(T, W)'
    <2>1. UNCHANGED <<termVars, logVars, leaderVars, installs, voteNet, appendNet, serviceVars, votes, leaders>>
        BY <1>3 DEF ElectionCheck, OfferSnapshot
    <2>2. TermsCalm
        BY <2>1, TermsSame
    <2> QED
        BY <2>1, <2>2, QuietStep DEF logVars, serviceVars, appendNet, voteNet
<1>4. ASSUME NEW x \in InFlight, LoseCall(x) PROVE History(T, W)'
    <2>1. UNCHANGED <<termVars, logVars, leaderVars, installs, voteNet, serviceVars, votes, leaders>>
        BY <1>4 DEF LoseCall
    <2>2. TermsCalm
        BY <2>1, TermsSame
    <2>3. aeReq' \subseteq aeReq /\ aeRep' \subseteq aeRep /\ isReq' \subseteq isReq /\ isRep' \subseteq isRep
        BY <1>4 DEF LoseCall
    <2> QED
        BY <2>1, <2>2, <2>3, QuietStep DEF logVars, serviceVars, voteNet
<1>5. ASSUME NEW i \in Server, NEW t \in noops[i], tp[i] # Leader, StartNoop(i, t) PROVE History(T, W)'
    <2>1. UNCHANGED <<termVars, logVars, leaderVars, installs, voteNet, appendNet, serviceVars, votes, leaders>>
        BY <1>5 DEF StartNoop
    <2>2. TermsCalm
        BY <2>1, TermsSame
    <2> QED
        BY <2>1, <2>2, QuietStep DEF logVars, serviceVars, appendNet, voteNet
<1> QED
    BY <1>1, <1>2, <1>3, <1>4, <1>5

-----------------------------------------------------------------------------
(* What the service receives *)

(* Only the entries lo..hi of the log l are newly applied, in term t. *)
AppliesTo(l, lo, hi, t) ==
    \A a \in applied' : a \in applied \/ \E x \in lo .. hi : a = <<x, l[x], t>>

(* The commands that Apply records are those of the messages: the entries  *)
(* lo..hi of the log.                                                      *)
LEMMA AppliedNew ==
    ASSUME NEW l, NEW lo \in Nat, NEW hi \in Nat, NEW times \in {1, 2}, NEW i, NEW t,
           Apply(i, t, CommandMsgs(l, 0, lo, hi, times))
    PROVE  AppliesTo(l, lo, hi, t) /\ (lo > hi => applied' = applied)
<1> DEFINE msgs == CommandMsgs(l, 0, lo, hi, times)
           len == times * (hi - lo + 1)
<1>1. applied' = applied \cup {<<msgs[k].CommandIndex, msgs[k].Command, t>> : k \in DOMAIN msgs}
    BY DEF Apply
<1>2. DOMAIN msgs = 1 .. len
    BY DEF CommandMsgs
<1>3. ASSUME NEW k \in 1 .. len
      PROVE  \E x \in lo .. hi : <<msgs[k].CommandIndex, msgs[k].Command, t>> = <<x, l[x], t>>
    <2>1. PICK x : x = lo + ((k - 1) \div times)
        OBVIOUS
    <2>2. x \in lo .. hi
        <3>1. CASE times = 1
            BY <2>1, <3>1, SMT
        <3>2. CASE times = 2
            BY <2>1, <3>2, SMT
        <3> QED
            BY <3>1, <3>2
    <2>3. msgs[k] = [CommandValid |-> TRUE, CommandIndex |-> x, Command |-> l[x - 0]]
        BY <2>1 DEF CommandMsgs
    <2>4. x - 0 = x
        BY <2>2, SMT
    <2>5. msgs[k].CommandIndex = x /\ msgs[k].Command = l[x]
        BY <2>3, <2>4, SMTT(30)
    <2> QED
        BY <2>2, <2>5
<1>4. lo > hi => 1 .. len = {}
    BY SMT DEF len
<1> HIDE DEF msgs, len
<1>5. \A a \in applied' : a \in applied \/ \E x \in lo .. hi : a = <<x, l[x], t>>
    <2> SUFFICES ASSUME NEW a \in applied', a \notin applied PROVE \E x \in lo .. hi : a = <<x, l[x], t>>
        OBVIOUS
    <2>1. PICK k \in 1 .. len : a = <<msgs[k].CommandIndex, msgs[k].Command, t>>
        BY <1>1, <1>2
    <2> QED
        BY <1>3, <2>1
<1>6. lo > hi => applied' = applied
    BY <1>1, <1>2, <1>4
<1> QED
    BY <1>5, <1>6 DEF AppliesTo

-----------------------------------------------------------------------------
(* Nothing is ever compacted *)

(* The steps that leave the snapshots alone and send none. *)
LEMMA SnapKept ==
    ASSUME SnapFree, UNCHANGED <<snapshotIndex, snapshotTerm, Ss>>, isReq' \subseteq isReq
    PROVE  SnapFree'
BY DEF SnapFree

(* Restart reads the snapshot from the Persister. *)
LEMMA RestartSnapFree ==
    ASSUME TypeOK, Durable, SnapFree, NEW i \in Server, NEW disk, NEW H, Restart(i, disk, H)
    PROVE  SnapFree'
<1>1. /\ snapshotIndex' = [snapshotIndex EXCEPT ![i] = snapshot[i].LastIndex]
      /\ snapshotTerm' = [snapshotTerm EXCEPT ![i] = snapshot[i].LastTerm]
      /\ Ss' = [Ss EXCEPT ![i] = 0] /\ isReq' = Orphans(isReq \ H, i)
    BY DEF Restart
<1>2. /\ snapshotIndex \in [Server -> Nat] /\ snapshotTerm \in [Server -> Nat] /\ Ss \in [Server -> Nat]
      /\ isReq \subseteq SnapRequest
    BY DEF TypeOK, LogTypes, OtherTypes, AppendNetTypes
<1>3. snapshot[i].LastIndex = 0 /\ snapshot[i].LastTerm = 0
    <2>1. /\ snapshot[i] = [LastIndex |-> snapshotIndex[i], LastTerm |-> snapshotTerm[i]]
          /\ snapshotIndex[i] = 0 /\ snapshotTerm[i] = 0
        BY DEF Durable, SnapFree
    <2> QED
        BY <2>1, SMT
<1>4. \A j \in Server : snapshotIndex'[j] = 0 /\ snapshotTerm'[j] = 0 /\ Ss'[j] = 0
    BY <1>1, <1>2, <1>3 DEF SnapFree
<1>5. \A m \in isReq' : m.LastIncludedIndex = 0
    BY <1>1, <1>2 DEF Orphans, SnapRequest, SnapFree
<1> QED
    BY <1>4, <1>5 DEF SnapFree

(* Without offers from a service nothing is ever compacted. *)
LEMMA SnapFreeStep ==
    ASSUME Snapshots = {}, TypeOK, Durable, SnapFree, [Next]_vars
    PROVE  SnapFree'
<1>1. CASE UNCHANGED vars
    BY <1>1, SnapKept DEF vars, logVars, appendNet
<1>2. ASSUME NEW i \in Server, startElection(i) PROVE SnapFree'
    BY <1>2, SnapKept DEF startElection, logVars, appendNet
<1>3. ASSUME NEW i \in Server, NEW g \in voters[i], sendRequestVote(i, g) PROVE SnapFree'
    BY <1>3, SnapKept DEF sendRequestVote, logVars, appendNet
<1>4. ASSUME NEW m \in rvReq, RequestVote(m) PROVE SnapFree'
    BY <1>4, SnapKept DEF RequestVote, logVars, appendNet
<1>5. ASSUME NEW r \in rvRep, VoteReply(r) PROVE SnapFree'
    BY <1>5, SnapKept DEF VoteReply, StepDown, logVars, appendNet
<1>6. ASSUME NEW i \in Server, ElectionCheck(i) PROVE SnapFree'
    BY <1>6, SnapKept DEF ElectionCheck, logVars, appendNet
<1>7. ASSUME NEW i \in Server, NEW t, BecomeLeader(i, t) PROVE SnapFree'
    BY <1>7, SnapKept DEF BecomeLeader, logVars, appendNet
<1>8. ASSUME NEW i \in Server, NEW t, StartNoop(i, t) PROVE SnapFree'
    BY <1>8, SnapKept DEF StartNoop, AppendToLog, logVars, appendNet
<1>9. ASSUME NEW i \in Server, NEW c, Start(i, c) PROVE SnapFree'
    BY <1>9, SnapKept DEF Start, AppendToLog, appendNet
<1>10. ASSUME NEW i \in Server, NEW j \in Server, SpawnInstall(i, j) PROVE SnapFree'
    BY <1>10, SnapKept DEF SpawnInstall, logVars, appendNet
<1>11. ASSUME NEW i \in Server, NEW j \in Server, sendAppendEntries(i, j) PROVE SnapFree'
    <2>1. isReq' \subseteq isReq /\ UNCHANGED <<logVars, Ss>>
        BY <1>11 DEF sendAppendEntries
    <2> QED
        BY <2>1, SnapKept DEF logVars
<1>12. ASSUME NEW i \in Server, NEW g \in installs[i], sendSnapShot(i, g) PROVE SnapFree'
    <2>1. UNCHANGED <<snapshotIndex, snapshotTerm, Ss>>
        BY <1>12 DEF sendSnapShot, logVars
    <2>2. \A m \in isReq' : m \in isReq \/ m.LastIncludedIndex = snapshotIndex[i]
        BY <1>12, SMTT(30) DEF sendSnapShot
    <2> QED
        BY <2>1, <2>2 DEF SnapFree
<1>13. ASSUME NEW m \in aeReq, AppendEntries(m) PROVE SnapFree'
    <2>1. isReq' \subseteq isReq /\ UNCHANGED Ss
        BY <1>13 DEF AppendEntries
    <2>2. UNCHANGED <<snapshotIndex, snapshotTerm>>
        BY <1>13 DEF AppendEntries, AppendEntriesStale, AppendEntriesReject, AppendEntriesAccept, logVars
    <2> QED
        BY <2>1, <2>2, SnapKept
<1>14. ASSUME NEW r \in aeRep, AppendReply(r) PROVE SnapFree'
    <2>1. isReq' \subseteq isReq /\ UNCHANGED Ss
        BY <1>14 DEF AppendReply
    <2>2. UNCHANGED logVars
        BY <1>14 DEF AppendReply, StepDown
    <2> QED
        BY <2>1, <2>2, SnapKept DEF logVars
<1>15. ASSUME NEW m \in isReq, InstallSnapshot(m) PROVE SnapFree'
    <2>1. m.to \in Server /\ m.LastIncludedIndex = 0 /\ snapshotIndex[m.to] = 0
        BY DEF TypeOK, AppendNetTypes, SnapRequest, SnapFree
    <2>2. ~(m.LastIncludedIndex > snapshotIndex[m.to])
        BY <2>1, SMTT(30)
    <2>3. UNCHANGED logVars
        BY <1>15, <2>2 DEF InstallSnapshot
    <2>4. isReq' \subseteq isReq /\ UNCHANGED Ss
        BY <1>15 DEF InstallSnapshot
    <2> QED
        BY <2>3, <2>4, SnapKept DEF logVars
<1>16. ASSUME NEW r \in isRep, SnapReply(r) PROVE SnapFree'
    BY <1>16, SnapKept DEF SnapReply, StepDown, logVars
<1>17. ASSUME NEW x \in InFlight, LoseCall(x) PROVE SnapFree'
    BY <1>17, SnapKept DEF LoseCall, logVars
<1>18. ASSUME NEW i \in Server, OfferSnapshot(i) PROVE SnapFree'
    BY <1>18 DEF OfferSnapshot
<1>19. ASSUME NEW i \in Server, persistV2(i) PROVE SnapFree'
    <2>1. Ss[i] = 0 /\ ~(0 > 0)
        BY SMT DEF SnapFree
    <2> QED
        BY <1>19, <2>1 DEF persistV2
<1>20. ASSUME NEW i \in Server, Make(i) PROVE SnapFree'
    BY <1>20, RestartSnapFree DEF Make
<1>21. ASSUME NEW m \in rvReq \cup aeReq \cup isReq, CrashAfterTermUpdate(m) PROVE SnapFree'
    <2>1. m.to \in Server
        BY DEF TypeOK, VoteNetTypes, AppendNetTypes, VoteRequest, AppendRequest, SnapRequest
    <2> QED
        BY <1>21, <2>1, RestartSnapFree DEF CrashAfterTermUpdate
<1>22. ASSUME NEW m \in isReq, CrashInInstall(m) PROVE SnapFree'
    <2>1. m.to \in Server
        BY DEF TypeOK, AppendNetTypes, SnapRequest
    <2> QED
        BY <1>22, <2>1, RestartSnapFree DEF CrashInInstall
<1> QED
    BY <1>1, <1>2, <1>3, <1>4, <1>5, <1>6, <1>7, <1>8, <1>9, <1>10, <1>11, <1>12, <1>13, <1>14, <1>15, <1>16,
       <1>17, <1>18, <1>19, <1>20, <1>21, <1>22 DEF Next

-----------------------------------------------------------------------------
(* What the invariant says of a state *)

(* Without snapshots a position is an index. *)
LEMMA PlainLog ==
    ASSUME TypeOK, SnapFree, NEW i \in Server
    PROVE  /\ log[i] \in Seq(Entry) /\ Len(log[i]) \in Nat /\ LastLogIndex(i) = Len(log[i])
           /\ \A k \in Int : Holds(i, k) <=> k \in 1 .. Len(log[i])
           /\ \A k \in Int : EntryAt(i, k) = log[i][k]
<1>1. log[i] \in Seq(Entry) /\ Len(log[i]) \in Nat /\ snapshotIndex[i] = 0
    BY LogFacts DEF TypeOK, LogTypes, SnapFree
<1>2. LastLogIndex(i) = Len(log[i])
    BY <1>1, SMTT(30) DEF LastLogIndex
<1>3. \A k \in Int : Holds(i, k) <=> k \in 1 .. Len(log[i])
    BY <1>1, <1>2, SMT DEF Holds
<1>4. ASSUME NEW k \in Int PROVE EntryAt(i, k) = log[i][k]
    <2>1. k - snapshotIndex[i] = k
        BY <1>1, SMT
    <2> QED
        BY <2>1 DEF EntryAt
<1> QED
    BY <1>1, <1>2, <1>3, <1>4

(* Logs with one term at an index agree with the log of its leader. *)
LEMMA HistoryMatches ==
    ASSUME TypeOK, SnapFree, NEW T, NEW W, History(T, W)
    PROVE  LogMatching
<1> SUFFICES ASSUME NEW i \in Server, NEW j \in Server, NEW k \in 1 .. LastLogIndex(i), Holds(i, k), Holds(j, k),
                    EntryAt(i, k).Term = EntryAt(j, k).Term, NEW h \in 1 .. k
             PROVE  EntryAt(i, h) = EntryAt(j, h)
    BY DEF LogMatching
<1>1. PICK L, M : L = log[i] /\ M = log[j]
    OBVIOUS
<1>2. L \in Seq(Entry) /\ M \in Seq(Entry)
    BY <1>1, PlainLog
<1>3. k \in 1 .. Len(L) /\ k \in 1 .. Len(M) /\ L[k].Term = M[k].Term
    BY <1>1, PlainLog, SMTT(30)
<1>4. HistTypes(T, W) /\ SoundInv(T) /\ Sound(T, L, currentTerm[i]) /\ Sound(T, M, currentTerm[j])
    BY <1>1 DEF History, SoundInv
<1>5. Has(L, L[k].Term, k) /\ Has(M, L[k].Term, k)
    BY <1>3 DEF Has
<1>6. Agree(L, M, k)
    BY <1>2, <1>4, <1>5, SoundAgree
<1>7. L[h] = M[h]
    BY <1>6 DEF Agree
<1> QED
    BY <1>1, <1>7, PlainLog, SMTT(30)

(* What is committed is within the log. *)
LEMMA HistoryHeld ==
    ASSUME TypeOK, SnapFree, NEW T, NEW W, History(T, W)
    PROVE  CommittedHeld
<1>1. \A i \in Server : commitIndex[i] <= Len(log[i])
    BY DEF History, CommitInv, CommitAt, Chosen
<1>2. \A i \in Server : snapshotIndex[i] <= commitIndex[i]
    BY SMT DEF TypeOK, ServiceTypes, SnapFree
<1> QED
    BY <1>1, <1>2, PlainLog DEF CommittedHeld

(* The leader of a later term has what was applied before. *)
LEMMA AppliedKept ==
    ASSUME CountingFacts, NEW T, NEW W, History(T, W), NEW a, NEW t \in DOMAIN T, NEW k \in 1 .. Len(T[t]),
           a[1] \in 1 .. k, Committed(T, W, t, k), T[t][a[1]] = a[2], NEW u \in DOMAIN T, t < u
    PROVE  a[1] \in 1 .. Len(T[u]) /\ T[u][a[1]] = a[2]
<1>1. HistTypes(T, W) /\ WonInv(T, W) /\ SoundInv(T) /\ Sound(T, T[u], u) /\ Sound(T, T[t], t)
    BY DEF History, SoundInv
<1>2. Has(T[u], t, k)
    BY <1>1, CommittedStays
<1>3. T[u] \in Seq(Entry) /\ T[t] \in Seq(Entry) /\ Len(T[t]) \in Nat /\ Len(T[u]) \in Nat
    BY <1>1, HistFacts
<1>4. Agree(T[u], T[t], k)
    BY <1>1, <1>2, <1>3, SoundHas
<1> QED
    BY <1>3, <1>4, SMTT(30) DEF Agree

(* Two commands applied at an index come from one log. *)
LEMMA HistoryApplies ==
    ASSUME CountingFacts, NEW T, NEW W, History(T, W)
    PROVE  StateMachineSafety
<1> SUFFICES ASSUME NEW a \in applied, NEW b \in applied, a[1] = b[1] PROVE a[2] = b[2]
    BY DEF StateMachineSafety
<1>1. AppliedAt(T, W, a) /\ AppliedAt(T, W, b) /\ HistTypes(T, W)
    BY DEF History, AppliedInv
<1>2. PICK t \in DOMAIN T : \E k \in 1 .. Len(T[t]) :
          t <= a[3] /\ a[1] \in 1 .. k /\ Committed(T, W, t, k) /\ T[t][a[1]] = a[2]
    BY <1>1 DEF AppliedAt
<1>3. PICK k \in 1 .. Len(T[t]) : a[1] \in 1 .. k /\ Committed(T, W, t, k) /\ T[t][a[1]] = a[2]
    BY <1>2
<1>4. PICK s \in DOMAIN T : \E n \in 1 .. Len(T[s]) :
          s <= b[3] /\ b[1] \in 1 .. n /\ Committed(T, W, s, n) /\ T[s][b[1]] = b[2]
    BY <1>1 DEF AppliedAt
<1>5. PICK n \in 1 .. Len(T[s]) : b[1] \in 1 .. n /\ Committed(T, W, s, n) /\ T[s][b[1]] = b[2]
    BY <1>4
<1>6. t \in Nat /\ s \in Nat
    BY <1>1, HistFacts
<1>7. CASE t = s
    BY <1>3, <1>5, <1>7
<1>8. CASE t < s
    <2>1. T[s][a[1]] = a[2]
        BY <1>3, <1>8, AppliedKept
    <2> QED
        BY <1>5, <2>1
<1>9. CASE s < t
    <2>1. T[t][b[1]] = b[2]
        BY <1>5, <1>9, AppliedKept
    <2> QED
        BY <1>3, <2>1
<1> QED
    BY <1>6, <1>7, <1>8, <1>9, SMT

(* What was applied before its term is in the log of a leader. *)
LEMMA HistoryComplete ==
    ASSUME CountingFacts, TypeOK, SnapFree, applied \subseteq Nat \X Entry \X Nat, NEW T, NEW W, History(T, W)
    PROVE  LeaderCompleteness
<1> SUFFICES ASSUME NEW i \in Server, tp[i] = Leader, NEW a \in applied, a[3] < currentTerm[i]
             PROVE  Holds(i, a[1]) /\ EntryAt(i, a[1]) = a[2]
    BY DEF LeaderCompleteness
<1>1. PICK u : u = currentTerm[i]
    OBVIOUS
<1>2. u \in DOMAIN T /\ log[i] = T[u]
    <2>1. <<u, i>> \in leaders /\ <<u, i>>[1] = u /\ <<u, i>>[2] = i
        BY <1>1 DEF History, LedInv
    <2> QED
        BY <1>1, <2>1 DEF History, LedInv
<1>3. AppliedAt(T, W, a) /\ HistTypes(T, W)
    BY DEF History, AppliedInv
<1>4. PICK t \in DOMAIN T : \E k \in 1 .. Len(T[t]) :
          t <= a[3] /\ a[1] \in 1 .. k /\ Committed(T, W, t, k) /\ T[t][a[1]] = a[2]
    BY <1>3 DEF AppliedAt
<1>5. PICK k \in 1 .. Len(T[t]) : t <= a[3] /\ a[1] \in 1 .. k /\ Committed(T, W, t, k) /\ T[t][a[1]] = a[2]
    BY <1>4
<1>6. t < u
    <2>1. t \in Nat /\ u \in Nat /\ a[3] \in Nat
        BY <1>2, <1>3, HistFacts
    <2> QED
        BY <1>1, <1>5, <2>1, SMTT(30)
<1>7. a[1] \in 1 .. Len(T[u]) /\ T[u][a[1]] = a[2]
    BY <1>2, <1>5, <1>6, AppliedKept
<1> QED
    BY <1>2, <1>7, PlainLog, SMTT(30)

(* What matchIndex counts was accepted in the term. *)
LEMMA HistoryMatched ==
    ASSUME TypeOK, SnapFree, NEW T, NEW W, History(T, W)
    PROVE  MatchIsTrue
<1> SUFFICES ASSUME NEW i \in Server, NEW j \in Server, tp[i] = Leader, currentTerm[j] = currentTerm[i], j # i
             PROVE  /\ matchIndex[i][j] <= LastLogIndex(j)
                    /\ \A k \in 1 .. matchIndex[i][j] : Holds(i, k) /\ Holds(j, k) => EntryAt(i, k) = EntryAt(j, k)
    BY DEF MatchIsTrue
<1>1. PICK u : u = currentTerm[i]
    OBVIOUS
<1>2. PICK p : p = matchIndex[i][j]
    OBVIOUS
<1>3. p \in Nat
    BY <1>2 DEF TypeOK, LeaderTypes
<1>4. u \in DOMAIN T /\ log[i] = T[u]
    <2>1. <<u, i>> \in leaders /\ <<u, i>>[1] = u /\ <<u, i>>[2] = i
        BY <1>1 DEF History, LedInv
    <2> QED
        BY <1>1, <2>1 DEF History, LedInv
<1>5. CASE p = 0
    BY <1>2, <1>5, PlainLog, SMTT(30)
<1>6. CASE p > 0
    <2>1. <<j, u, p>> \in W
        BY <1>1, <1>2, <1>6 DEF History, LeadInv, LeadAt
    <2>2. <<j, u, p>>[1] = j /\ <<j, u, p>>[2] = u /\ <<j, u, p>>[3] = p
        OBVIOUS
    <2>3. Agree(log[j], log[i], p)
        BY <1>1, <1>4, <2>1, <2>2 DEF History, AcceptInv, AcceptAt
    <2>4. p <= Len(log[j]) /\ \A k \in 1 .. p : log[j][k] = log[i][k]
        BY <2>3 DEF Agree
    <2>5. \A k \in 1 .. p : EntryAt(i, k) = log[i][k] /\ EntryAt(j, k) = log[j][k]
        BY PlainLog, SMTT(30)
    <2> QED
        BY <1>2, <2>4, <2>5, PlainLog
<1> QED
    BY <1>3, <1>5, <1>6, SMTT(30)

(* nextIndex is within the log of a leader. *)
LEMMA HistoryNext ==
    ASSUME NEW T, NEW W, History(T, W)
    PROVE  NextInRange
BY DEF History, LeadInv, LeadAt, NextInRange

-----------------------------------------------------------------------------
(* What the services are told *)

(* Peer i tells its service the entries after its commitIndex up to the    *)
(* new one.                                                                *)
Tells(i, t, times) ==
    /\ commitIndex' = [commitIndex EXCEPT ![i] = commitIndex'[i]]
    /\ commitIndex[i] <= commitIndex'[i]
    /\ Apply(i, t, CommandMsgs(log'[i], 0, commitIndex[i] + 1, commitIndex'[i], times))

(* Peer i forgets what it has told. *)
StartsOver(i) ==
    /\ commitIndex' = [commitIndex EXCEPT ![i] = 0] /\ lastApplied' = [lastApplied EXCEPT ![i] = 0]
    /\ applyCh' = [applyCh EXCEPT ![i] = <<>>] /\ UNCHANGED applied /\ restarts' # restarts

ServiceStep ==
    \/ UNCHANGED serviceVars
    \/ \E i \in Server, t \in Nat, times \in {1, 2} : Tells(i, t, times)
    \/ \E i \in Server : StartsOver(i)

(* A restart starts the service over. *)
LEMMA RestartService ==
    ASSUME TypeOK, Durable, SnapFree, NEW i \in Server, NEW disk, NEW H, Restart(i, disk, H)
    PROVE  StartsOver(i)
<1>1. snapshot[i].LastIndex = 0
    <2>1. /\ snapshot[i] = [LastIndex |-> snapshotIndex[i], LastTerm |-> snapshotTerm[i]]
          /\ snapshotIndex[i] = 0 /\ snapshotTerm[i] = 0
        BY DEF Durable, SnapFree
    <2> QED
        BY <2>1, SMTT(30)
<1>2. restarts' # restarts
    BY SMTT(30) DEF Restart, TypeOK, OtherTypes
<1> QED
    BY <1>1, <1>2 DEF Restart, StartsOver

(* updateCommit tells the service the entries it commits. *)
LEMMA UpdateService ==
    ASSUME TypeOK, TypeOK', SnapFree, NEW i \in Server, NEW match, updateCommit(i, match), UNCHANGED log
    PROVE  Tells(i, currentTerm[i], 1)
<1> DEFINE new == IF MedianMatch(match) > commitIndex[i] THEN MedianMatch(match) ELSE commitIndex[i]
<1>1. commitIndex \in [Server -> Nat] /\ commitIndex' \in [Server -> Nat] /\ snapshotIndex[i] = 0
    BY DEF TypeOK, ServiceTypes, SnapFree
<1>2. commitIndex[i] >= snapshotIndex[i]
    BY <1>1, SMT
<1>3. /\ commitIndex' = [commitIndex EXCEPT ![i] = new]
      /\ Apply(i, currentTerm[i], CommandMsgs(log[i], snapshotIndex[i], commitIndex[i] + 1, new, 1))
    BY <1>2 DEF updateCommit
<1>4. commitIndex'[i] = new
    BY <1>1, <1>3
<1>5. commitIndex[i] <= new
    BY <1>1, <1>4, SMT
<1> HIDE DEF new
<1> QED
    BY <1>1, <1>3, <1>4, <1>5 DEF Tells

(* AppendEntries tells its service the entries it commits, twice. *)
LEMMA AcceptService ==
    ASSUME TypeOK, SnapFree, NEW m \in aeReq, AppendEntriesAccept(m), commitIndex[m.to] <= commitIndex'[m.to]
    PROVE  Tells(m.to, m.Term, 2)
<1> DEFINE i == m.to
           merged == MergedLog(i, m)
           end == Len(merged) + snapshotIndex[i]
           new == IF m.LeaderCommit <= commitIndex[i] THEN commitIndex[i]
                  ELSE IF m.LeaderCommit <= end THEN m.LeaderCommit ELSE end
<1>1. /\ commitIndex \in [Server -> Nat] /\ log \in [Server -> Seq(Entry)] /\ i \in Server /\ snapshotIndex[i] = 0
    BY DEF TypeOK, ServiceTypes, LogTypes, AppendNetTypes, AppendRequest, SnapFree
<1>2. /\ commitIndex' = [commitIndex EXCEPT ![i] = new] /\ log' = [log EXCEPT ![i] = merged]
      /\ Apply(i, m.Term, CommandMsgs(merged, snapshotIndex[i], commitIndex[i] + 1, new, 2))
    BY DEF AppendEntriesAccept
<1> HIDE DEF new, merged, i
<1>3. commitIndex'[i] = new /\ log'[i] = merged
    BY <1>1, <1>2
<1>4. commitIndex' = [commitIndex EXCEPT ![i] = commitIndex'[i]]
    BY <1>2, <1>3
<1>5. Apply(i, m.Term, CommandMsgs(log'[i], 0, commitIndex[i] + 1, commitIndex'[i], 2))
    BY <1>1, <1>2, <1>3
<1> QED
    BY <1>4, <1>5 DEF Tells, i

(* Every step tells a service what becomes committed, or lets one start    *)
(* over.                                                                   *)
LEMMA ServiceSteps ==
    ASSUME TypeOK, TypeOK', Durable, SnapFree, [Next]_vars,
           \A m \in aeReq : AppendEntries(m) => commitIndex[m.to] <= commitIndex'[m.to]
    PROVE  ServiceStep
<1>1. CASE UNCHANGED serviceVars
    BY <1>1 DEF ServiceStep
<1>2. ASSUME NEW m \in aeReq, AppendEntries(m) PROVE ServiceStep
    <2>1. m.to \in Server /\ m.Term \in Nat
        BY DEF TypeOK, AppendNetTypes, AppendRequest
    <2>2. CASE AppendEntriesAccept(m)
        <3>1. Tells(m.to, m.Term, 2)
            BY <1>2, <2>2, AcceptService
        <3> QED
            BY <2>1, <3>1 DEF ServiceStep
    <2>3. CASE ~AppendEntriesAccept(m)
        <3>1. UNCHANGED serviceVars
            BY <1>2, <2>3 DEF AppendEntries, AppendEntriesStale, AppendEntriesReject
        <3> QED
            BY <3>1, <1>1
    <2> QED
        BY <2>2, <2>3
<1>3. ASSUME NEW r \in aeRep, AppendReply(r) PROVE ServiceStep
    <2>1. r.from \in Server /\ currentTerm[r.from] \in Nat
        BY DEF TypeOK, TermTypes, AppendNetTypes, AppendAnswer
    <2>2. UNCHANGED serviceVars \/ \E match : updateCommit(r.from, match)
        BY <1>3 DEF AppendReply
    <2>3. UNCHANGED log
        BY <1>3 DEF AppendReply, StepDown, logVars
    <2>4. ASSUME NEW match, updateCommit(r.from, match) PROVE ServiceStep
        <3>1. Tells(r.from, currentTerm[r.from], 1)
            BY <2>1, <2>3, <2>4, UpdateService
        <3> QED
            BY <2>1, <3>1 DEF ServiceStep
    <2> QED
        BY <1>1, <2>2, <2>4
<1>4. ASSUME NEW m \in isReq, InstallSnapshot(m) PROVE UNCHANGED serviceVars
    <2>1. m.to \in Server /\ m.LastIncludedIndex = 0 /\ snapshotIndex[m.to] = 0
        BY DEF TypeOK, AppendNetTypes, SnapRequest, SnapFree
    <2>2. ~(m.LastIncludedIndex > snapshotIndex[m.to])
        BY <2>1, SMT
    <2> QED
        BY <1>4, <2>2 DEF InstallSnapshot
<1>5. ASSUME NEW i \in Server, NEW disk, NEW H, Restart(i, disk, H) PROVE ServiceStep
    BY <1>5, RestartService DEF ServiceStep
<1>6. ASSUME NEW i \in Server, Make(i) PROVE ServiceStep
    BY <1>5, <1>6 DEF Make
<1>7. ASSUME NEW m \in rvReq \cup aeReq \cup isReq, CrashAfterTermUpdate(m) \/ CrashInInstall(m) PROVE ServiceStep
    <2>1. m.to \in Server
        BY DEF TypeOK, VoteNetTypes, AppendNetTypes, VoteRequest, AppendRequest, SnapRequest
    <2> QED
        BY <1>5, <1>7, <2>1 DEF CrashAfterTermUpdate, CrashInInstall
<1>8. CASE UNCHANGED vars
    BY <1>1, <1>8 DEF vars
<1>9. ASSUME NEW m \in isReq, CrashInInstall(m) PROVE ServiceStep
    BY <1>7, <1>9
<1>10. CASE Next
    BY <1>1, <1>2, <1>3, <1>4, <1>6, <1>7, <1>9, <1>10
       DEF Next, startElection, sendRequestVote, RequestVote, VoteReply, ElectionCheck, BecomeLeader, Start,
           StartNoop, SpawnInstall, sendAppendEntries, sendSnapShot, SnapReply, LoseCall, OfferSnapshot, persistV2
<1> QED
    BY <1>8, <1>10

(* The messages for the entries after c up to n: commands, whose indices   *)
(* rise from c + 1 to n by at most one.                                    *)
LEMMA MsgsFacts ==
    ASSUME NEW l \in Seq(Entry), NEW c \in Nat, NEW n \in Nat, c <= n, n <= Len(l), NEW times \in {1, 2},
           NEW msgs, msgs = CommandMsgs(l, 0, c + 1, n, times)
    PROVE  /\ msgs \in Seq(CommandMsg)
           /\ \A k \in 1 .. Len(msgs) : msgs[k].CommandIndex <= 1 + (IF k = 1 THEN c ELSE msgs[k - 1].CommandIndex)
           /\ msgs = <<>> => n = c
           /\ msgs # <<>> => msgs[Len(msgs)].CommandIndex = n
<1>1. PICK len \in Nat : len = times * (n - c)
    <2>1. CASE times = 1
        BY <2>1, SMT
    <2>2. CASE times = 2
        BY <2>2, SMT
    <2> QED
        BY <2>1, <2>2
<1>2. times * (n - (c + 1) + 1) = len
    BY <1>1, SMT
<1>3. DOMAIN msgs = 1 .. len
    BY <1>2 DEF CommandMsgs
<1>4. ASSUME NEW k \in 1 .. len
      PROVE  /\ msgs[k] \in CommandMsg
             /\ msgs[k].CommandIndex = c + 1 + ((k - 1) \div times)
    <2>1. PICK x : x = c + 1 + ((k - 1) \div times)
        OBVIOUS
    <2>2. x \in 1 .. n
        <3>1. CASE times = 1
            BY <1>1, <2>1, <3>1, SMT
        <3>2. CASE times = 2
            BY <1>1, <2>1, <3>2, SMT
        <3> QED
            BY <3>1, <3>2
    <2>3. msgs[k] = [CommandValid |-> TRUE, CommandIndex |-> x, Command |-> l[x - 0]]
        BY <1>2, <2>1 DEF CommandMsgs
    <2>4. x - 0 \in 1 .. Len(l)
        BY <2>2, SMT
    <2>5. l[x - 0] \in Entry
        BY <2>4, SMT
    <2>6. msgs[k] \in CommandMsg /\ msgs[k].CommandIndex = x
        <3>1. PICK e \in Entry : e = l[x - 0]
            BY <2>5
        <3>2. msgs[k] = [CommandValid |-> TRUE, CommandIndex |-> x, Command |-> e] /\ x \in Nat
            BY <2>2, <2>3, <3>1, SMTT(30)
        <3>3. \A v \in BOOLEAN : [CommandValid |-> v, CommandIndex |-> x, Command |-> e] \in CommandMsg
            BY <3>1, <3>2 DEF CommandMsg
        <3>4. msgs[k] \in CommandMsg
            BY <3>2, <3>3
        <3> QED
            BY <3>2, <3>4, SMTT(30)
    <2> QED
        BY <2>1, <2>6
<1>5. msgs = [k \in 1 .. len |-> msgs[k]]
    BY <1>2 DEF CommandMsgs
<1>6. msgs \in Seq(CommandMsg) /\ Len(msgs) = len
    <2>1. msgs \in [1 .. len -> CommandMsg]
        BY <1>4, <1>5
    <2> QED
        BY <2>1, SMT
<1>7. ASSUME NEW k \in 1 .. len
      PROVE  msgs[k].CommandIndex <= 1 + (IF k = 1 THEN c ELSE msgs[k - 1].CommandIndex)
    <2>1. CASE k = 1
        BY <1>4, <2>1, SMTT(30)
    <2>2. CASE k # 1 /\ times = 1
        BY <1>4, <2>2, SMTT(30)
    <2>3. CASE k # 1 /\ times = 2
        BY <1>4, <2>3, SMTT(30)
    <2> QED
        BY <2>1, <2>2, <2>3
<1>8. msgs = <<>> => n = c
    <2>1. CASE times = 1
        BY <1>1, <1>6, <2>1, SMT
    <2>2. CASE times = 2
        BY <1>1, <1>6, <2>2, SMT
    <2> QED
        BY <2>1, <2>2
<1>9. msgs # <<>> => msgs[len].CommandIndex = n
    <2> SUFFICES ASSUME msgs # <<>> PROVE msgs[len].CommandIndex = n
        OBVIOUS
    <2>1. len \in 1 .. len
        BY <1>6, SMT
    <2>2. CASE times = 1
        BY <1>1, <1>4, <2>1, <2>2, SMTT(30)
    <2>3. CASE times = 2
        <3>1. PICK d \in Nat : d = n - c
            BY SMT
        <3>2. len = 2 * d /\ d > 0 /\ (len - 1) \div 2 = d - 1
            BY <1>1, <2>1, <2>3, <3>1, SMT
        <3>3. msgs[len].CommandIndex = c + 1 + (d - 1)
            BY <1>4, <2>1, <2>3, <3>2
        <3> QED
            BY <3>1, <3>3, SMT
    <2> QED
        BY <2>2, <2>3
<1> QED
    BY <1>6, <1>7, <1>8, <1>9

(* What Apply records for them. *)
Records(l, c, n, t) == applied' = applied \cup {<<x, l[x], t>> : x \in c + 1 .. n}

(* What the messages add to the commands applied. *)
LEMMA MsgsApplied ==
    ASSUME NEW l, NEW c \in Nat, NEW n \in Nat, NEW times \in {1, 2}, NEW i, NEW t,
           Apply(i, t, CommandMsgs(l, 0, c + 1, n, times))
    PROVE  Records(l, c, n, t)
<1>1. PICK msgs : msgs = CommandMsgs(l, 0, c + 1, n, times)
    OBVIOUS
<1>2. applied' = applied \cup {<<msgs[k].CommandIndex, msgs[k].Command, t>> : k \in DOMAIN msgs}
    BY <1>1 DEF Apply
<1>3. \A a \in applied' : a \in applied \/ \E x \in c + 1 .. n : a = <<x, l[x], t>>
    <2>1. PICK lo \in Nat : lo = c + 1
        BY SMT
    <2>2. AppliesTo(l, lo, n, t)
        BY <2>1, AppliedNew
    <2> QED
        BY <2>1, <2>2 DEF AppliesTo
<1>4. ASSUME NEW x \in c + 1 .. n PROVE <<x, l[x], t>> \in applied'
    <2>1. PICK k : k = times * (x - (c + 1)) + 1
        OBVIOUS
    <2>2. k \in 1 .. times * (n - (c + 1) + 1) /\ c + 1 + ((k - 1) \div times) = x
        <3>1. CASE times = 1
            BY <2>1, <3>1, SMT
        <3>2. CASE times = 2
            BY <2>1, <3>2, SMT
        <3> QED
            BY <3>1, <3>2
    <2>3. k \in DOMAIN msgs /\ msgs[k] = [CommandValid |-> TRUE, CommandIndex |-> x, Command |-> l[x - 0]]
        BY <1>1, <2>2 DEF CommandMsgs
    <2>4. msgs[k].CommandIndex = x /\ msgs[k].Command = l[x]
        <3>1. x - 0 = x
            BY SMT
        <3> QED
            BY <2>3, <3>1, SMTT(30)
    <2> QED
        BY <1>2, <2>3, <2>4
<1>5. applied' = applied \cup {<<x, l[x], t>> : x \in c + 1 .. n}
    BY <1>2, <1>3, <1>4
<1> QED
    BY <1>5 DEF Records

(* Each message of told has at most the index after the one before it, the *)
(* first one at most c + 1.                                                *)
Gapless(told, c) ==
    \A k \in 1 .. Len(told) : told[k].CommandIndex <= 1 + (IF k = 1 THEN c ELSE told[k - 1].CommandIndex)
LastTold(told, c) == IF told = <<>> THEN c ELSE told[Len(told)].CommandIndex

(* Messages that continue gapless ones leave no gap. *)
LEMMA GaplessConcat ==
    ASSUME NEW told \in Seq(CommandMsg), NEW msgs \in Seq(CommandMsg), NEW c, c = LastTold(told, 0),
           Gapless(told, 0), Gapless(msgs, c)
    PROVE  Gapless(told \o msgs, 0) /\ LastTold(told \o msgs, 0) = LastTold(msgs, c)
<1>1. PICK both : both = told \o msgs
    OBVIOUS
<1>2. /\ both \in Seq(CommandMsg) /\ Len(both) = Len(told) + Len(msgs) /\ Len(told) \in Nat /\ Len(msgs) \in Nat
      /\ \A k \in 1 .. Len(told) : both[k] = told[k]
      /\ \A k \in Len(told) + 1 .. Len(both) : both[k] = msgs[k - Len(told)]
    BY <1>1, SMT
<1>3. ASSUME NEW k \in 1 .. Len(both)
      PROVE  both[k].CommandIndex <= 1 + (IF k = 1 THEN 0 ELSE both[k - 1].CommandIndex)
    <2>1. CASE k <= Len(told)
        <3>1. both[k] = told[k] /\ (k # 1 => both[k - 1] = told[k - 1])
            BY <1>2, <2>1, SMTT(30)
        <3> QED
            BY <2>1, <3>1, SMTT(30) DEF Gapless
    <2>2. CASE k > Len(told)
        <3>1. PICK h : h = k - Len(told)
            OBVIOUS
        <3>2. h \in 1 .. Len(msgs) /\ both[k] = msgs[h]
            BY <1>2, <2>2, <3>1, SMTT(30)
        <3>3. msgs[h].CommandIndex <= 1 + (IF h = 1 THEN c ELSE msgs[h - 1].CommandIndex)
            BY <3>2 DEF Gapless
        <3>4. CASE h # 1
            <4>1. k # 1 /\ k - 1 \in Len(told) + 1 .. Len(both) /\ k - 1 - Len(told) = h - 1
                BY <1>2, <2>2, <3>1, <3>2, <3>4, SMTT(30)
            <4>2. both[k - 1] = msgs[h - 1]
                BY <1>2, <4>1
            <4> QED
                BY <3>2, <3>3, <3>4, <4>1, <4>2
        <3>5. CASE h = 1 /\ Len(told) = 0
            <4>1. c = 0 /\ k = 1
                BY <1>2, <3>1, <3>5, SMT DEF LastTold
            <4> QED
                BY <3>2, <3>3, <3>5, <4>1
        <3>6. CASE h = 1 /\ Len(told) > 0
            <4>1. k # 1 /\ k - 1 = Len(told)
                BY <1>2, <3>1, <3>6, SMT
            <4>2. both[k - 1] = told[Len(told)] /\ told # <<>>
                <5>1. Len(told) \in 1 .. Len(told) /\ told # <<>>
                    BY <1>2, <3>6, SMT
                <5>2. both[Len(told)] = told[Len(told)]
                    BY <1>2, <5>1
                <5> QED
                    BY <4>1, <5>1, <5>2
            <4>3. both[k - 1].CommandIndex = c
                BY <4>2 DEF LastTold
            <4> QED
                BY <3>2, <3>3, <3>6, <4>1, <4>3
        <3> QED
            BY <1>2, <3>4, <3>5, <3>6, SMTT(30)
    <2> QED
        BY <1>2, <2>1, <2>2, SMTT(30)
<1>4. LastTold(both, 0) = LastTold(msgs, c)
    <2>1. CASE msgs = <<>>
        <3>1. both = told
            BY <1>1, <2>1, SMT
        <3> QED
            BY <2>1, <3>1 DEF LastTold
    <2>2. CASE msgs # <<>>
        <3>1. Len(both) \in Len(told) + 1 .. Len(both) /\ Len(both) - Len(told) = Len(msgs) /\ both # <<>>
            BY <1>2, <2>2, SMT
        <3>2. both[Len(both)] = msgs[Len(msgs)]
            BY <1>2, <3>1
        <3> QED
            BY <2>2, <3>1, <3>2 DEF LastTold
    <2> QED
        BY <2>1, <2>2
<1> QED
    BY <1>1, <1>3, <1>4 DEF Gapless

(* What a peer has told its service, with its types. *)
LEMMA ToldParts ==
    ASSUME NEW i \in Server
    PROVE  /\ ToldAt(i) <=> /\ applyCh[i] \in Seq(CommandMsg) /\ Gapless(applyCh[i], 0)
                            /\ commitIndex[i] = LastTold(applyCh[i], 0) /\ lastApplied[i] = commitIndex[i]
           /\ ToldAt(i)' <=> /\ applyCh'[i] \in Seq(CommandMsg) /\ Gapless(applyCh'[i], 0)
                             /\ commitIndex'[i] = LastTold(applyCh'[i], 0) /\ lastApplied'[i] = commitIndex'[i]
BY DEF ToldAt, Gapless, LastTold

(* Telling a service the next commands leaves no gap. *)
LEMMA TellsTold ==
    ASSUME TypeOK, TypeOK', SnapFree', CommittedHeld', ToldInv,
           NEW i \in Server, NEW t \in Nat, NEW times \in {1, 2}, Tells(i, t, times)
    PROVE  ToldInv'
<1>1. /\ log'[i] \in Seq(Entry) /\ commitIndex \in [Server -> Nat] /\ commitIndex' \in [Server -> Nat]
      /\ lastApplied \in [Server -> Nat] /\ applyCh \in [Server -> Seq(CommandMsg)]
    BY DEF TypeOK, LogTypes, ServiceTypes, ToldInv
<1>2. PICK l \in Seq(Entry) : l = log'[i]
    BY <1>1
<1>3. PICK c \in Nat : c = commitIndex[i]
    BY <1>1
<1>4. PICK n \in Nat : n = commitIndex'[i]
    BY <1>1
<1>5. n <= Len(l)
    <2>1. n <= Len(l) + snapshotIndex'[i] /\ snapshotIndex'[i] = 0
        BY <1>2, <1>4 DEF CommittedHeld, LastLogIndex, SnapFree
    <2> QED
        BY <2>1, SMT
<1>6. PICK msgs : msgs = CommandMsgs(l, 0, c + 1, n, times)
    OBVIOUS
<1>7. commitIndex' = [commitIndex EXCEPT ![i] = n] /\ c <= n /\ Apply(i, t, CommandMsgs(l, 0, c + 1, n, times))
    BY <1>2, <1>3, <1>4 DEF Tells
<1>8. /\ msgs \in Seq(CommandMsg) /\ Gapless(msgs, c) /\ LastTold(msgs, c) = n
    BY <1>5, <1>6, <1>7, MsgsFacts, SMTT(30) DEF Gapless, LastTold
<1>9. /\ applyCh' = [applyCh EXCEPT ![i] = applyCh[i] \o msgs]
      /\ lastApplied' = [lastApplied EXCEPT ![i] = IF msgs = <<>> THEN lastApplied[i] ELSE msgs[Len(msgs)].CommandIndex]
    BY <1>6, <1>7 DEF Apply
<1>10. \A j \in Server : ToldAt(j)
    BY DEF ToldInv
<1>11. ToldAt(i)'
    <2>1. /\ applyCh[i] \in Seq(CommandMsg) /\ Gapless(applyCh[i], 0) /\ c = LastTold(applyCh[i], 0)
          /\ lastApplied[i] = c
        BY <1>3, <1>10, ToldParts
    <2>2. applyCh'[i] = applyCh[i] \o msgs /\ lastApplied'[i] = LastTold(msgs, c)
        BY <1>1, <1>9, <2>1 DEF LastTold
    <2>3. Gapless(applyCh'[i], 0) /\ LastTold(applyCh'[i], 0) = n
        BY <1>8, <2>1, <2>2, GaplessConcat, SMTT(30)
    <2>4. applyCh'[i] \in Seq(CommandMsg)
        BY <1>8, <2>1, <2>2, SMTT(30)
    <2> QED
        BY <1>4, <1>8, <2>2, <2>3, <2>4, ToldParts
<1>12. ASSUME NEW j \in Server, j # i PROVE ToldAt(j)'
    <2>1. applyCh'[j] = applyCh[j] /\ lastApplied'[j] = lastApplied[j] /\ commitIndex'[j] = commitIndex[j]
        BY <1>1, <1>7, <1>9, <1>12
    <2> QED
        BY <1>10, <2>1, ToldParts
<1>13. applyCh' \in [Server -> Seq(CommandMsg)]
    <2>1. applyCh[i] \o msgs \in Seq(CommandMsg)
        BY <1>1, <1>8, SMT
    <2> QED
        BY <1>1, <1>9, <2>1
<1>14. applied' = applied \cup {<<x, l[x], t>> : x \in c + 1 .. n}
    <2>1. Records(l, c, n, t)
        BY <1>7, MsgsApplied
    <2> QED
        BY <2>1 DEF Records
<1>15. applied' \subseteq Nat \X Entry \X Nat
    <2>1. \A x \in c + 1 .. n : x \in Nat /\ l[x] \in Entry
        BY <1>5, SMT
    <2> QED
        BY <1>14, <2>1, SMTT(30) DEF ToldInv
<1>16. PICK d \in Nat : ToldUpTo(d)
    BY DEF ToldInv
<1>17. {a[1] : a \in applied'} = {a[1] : a \in applied} \cup (c + 1 .. n)
    <2>1. \A x : <<x, l[x], t>>[1] = x
        OBVIOUS
    <2> QED
        BY <1>14, <2>1
<1>18. \E e \in Nat : ToldUpTo(e)'
    <2>1. c <= d /\ \A j \in Server : commitIndex[j] <= d
        BY <1>3, <1>16 DEF ToldUpTo
    <2>2. {a[1] : a \in applied'} = 1 .. d \cup (c + 1 .. n)
        BY <1>16, <1>17 DEF ToldUpTo
    <2>3. PICK e \in Nat : e = IF n <= d THEN d ELSE n
        OBVIOUS
    <2>4. 1 .. d \cup (c + 1 .. n) = 1 .. e
        BY <2>1, <2>3, SMT
    <2>5. \A j \in Server : commitIndex'[j] <= e
        BY <1>1, <1>7, <2>1, <2>3, SMT
    <2> QED
        BY <2>2, <2>4, <2>5 DEF ToldUpTo
<1> QED
    BY <1>11, <1>12, <1>13, <1>15, <1>18 DEF ToldInv

(* Every step keeps the invariant of the services. *)
LEMMA ToldStep ==
    ASSUME TypeOK, TypeOK', SnapFree', CommittedHeld', ToldInv, ServiceStep
    PROVE  ToldInv'
<1>1. CASE UNCHANGED serviceVars
    BY <1>1 DEF ToldInv, ToldAt, ToldUpTo, serviceVars
<1>2. ASSUME NEW i \in Server, StartsOver(i) PROVE ToldInv'
    <2>1. /\ commitIndex \in [Server -> Nat] /\ lastApplied \in [Server -> Nat]
          /\ applyCh \in [Server -> Seq(CommandMsg)] /\ <<>> \in Seq(CommandMsg) /\ Len(<<>>) = 0
        BY SMT DEF TypeOK, ServiceTypes, ToldInv
    <2>2. /\ commitIndex' = [commitIndex EXCEPT ![i] = 0] /\ lastApplied' = [lastApplied EXCEPT ![i] = 0]
          /\ applyCh' = [applyCh EXCEPT ![i] = <<>>] /\ applied' = applied
        BY <1>2 DEF StartsOver
    <2>3. ToldAt(i)'
        <3>1. commitIndex'[i] = 0 /\ lastApplied'[i] = 0 /\ applyCh'[i] = <<>>
            BY <2>1, <2>2
        <3>2. Gapless(<<>>, 0) /\ LastTold(<<>>, 0) = 0
            BY <2>1, SMT DEF Gapless, LastTold
        <3> QED
            BY <2>1, <3>1, <3>2, ToldParts
    <2>4. ASSUME NEW j \in Server, j # i PROVE ToldAt(j)'
        <3>1. applyCh'[j] = applyCh[j] /\ lastApplied'[j] = lastApplied[j] /\ commitIndex'[j] = commitIndex[j]
            BY <2>1, <2>2, <2>4
        <3>2. ToldAt(j)
            BY DEF ToldInv
        <3> QED
            BY <3>1, <3>2, ToldParts
    <2>5. applyCh' \in [Server -> Seq(CommandMsg)]
        BY <2>1, <2>2
    <2>6. ASSUME NEW n \in Nat, ToldUpTo(n) PROVE ToldUpTo(n)'
        <3>1. \A j \in Server : commitIndex'[j] <= n
            BY <2>1, <2>2, <2>6, SMTT(30) DEF ToldUpTo
        <3> QED
            BY <2>2, <2>6, <3>1 DEF ToldUpTo
    <2> QED
        BY <2>2, <2>3, <2>4, <2>5, <2>6 DEF ToldInv
<1> QED
    BY <1>1, <1>2, TellsTold DEF ServiceStep

(* commitIndex falls only by a restart. *)
LEMMA CommitsRise ==
    ASSUME TypeOK, ServiceStep
    PROVE  \A i \in Server : commitIndex'[i] >= commitIndex[i] \/ restarts' # restarts
<1>1. commitIndex \in [Server -> Nat]
    BY DEF TypeOK, ServiceTypes
<1>2. CASE UNCHANGED serviceVars
    BY <1>1, <1>2, SMT DEF serviceVars
<1>3. ASSUME NEW i \in Server, NEW t \in Nat, NEW times \in {1, 2}, Tells(i, t, times)
      PROVE  \A j \in Server : commitIndex'[j] >= commitIndex[j]
    <2>1. PICK n : commitIndex' = [commitIndex EXCEPT ![i] = n] /\ commitIndex[i] <= commitIndex'[i]
        BY <1>3 DEF Tells
    <2> QED
        BY <1>1, <2>1, SMT
<1> QED
    BY <1>2, <1>3 DEF ServiceStep, StartsOver

(* A service that is told without gaps is told in order. *)
LEMMA ToldInOrder ==
    ASSUME SnapFree, ToldInv
    PROVE  ApplyInOrder
<1> SUFFICES ASSUME NEW i \in Server, NEW k \in DOMAIN applyCh[i]
             PROVE  applyCh[i][k].CommandIndex <=
                        1 + (IF k = 1 THEN snapshotIndex[i] ELSE applyCh[i][k - 1].CommandIndex)
    BY DEF ApplyInOrder
<1>1. snapshotIndex[i] = 0 /\ ToldAt(i)
    BY DEF SnapFree, ToldInv
<1>2. applyCh[i] \in Seq(CommandMsg) /\ Gapless(applyCh[i], 0)
    BY <1>1, ToldParts
<1>3. k \in 1 .. Len(applyCh[i])
    BY <1>2, SMT
<1> QED
    BY <1>1, <1>2, <1>3 DEF Gapless

-----------------------------------------------------------------------------
(* The replicated log *)

(* The commands that have been applied at k. *)
AppliedTo(S, k) == {a[2] : a \in {b \in S : b[1] = k}}

(* A function on 1 .. n is a sequence. *)
LEMMA FunctionIsSeq ==
    ASSUME NEW D, NEW n \in Nat, NEW f \in [1 .. n -> D]
    PROVE  f \in Seq(D) /\ Len(f) = n
BY SMT

(* The commands applied, by index, are a sequence. *)
LEMMA DecidedFacts ==
    ASSUME NEW S, S \subseteq Nat \X Entry \X Nat, NEW n \in Nat, {a[1] : a \in S} = 1 .. n,
           NEW f, f = [k \in {a[1] : a \in S} |-> {a[2] : a \in {b \in S : b[1] = k}}]
    PROVE  f = [k \in 1 .. n |-> AppliedTo(S, k)] /\ f \in Seq(SUBSET Entry) /\ Len(f) = n
<1>1. f = [k \in 1 .. n |-> AppliedTo(S, k)]
    BY DEF AppliedTo
<1>2. \A k \in 1 .. n : AppliedTo(S, k) \in SUBSET Entry
    <2>1. \A a \in S : a[2] \in Entry
        OBVIOUS
    <2> QED
        BY <2>1 DEF AppliedTo
<1>3. f \in [1 .. n -> SUBSET Entry]
    BY <1>1, <1>2
<1> QED
    BY <1>1, <1>3, FunctionIsSeq

(* What is applied at an index that had been applied before is what was    *)
(* applied there.                                                          *)
LEMMA DecidedStays ==
    ASSUME StateMachineSafety', applied \subseteq applied', NEW n \in Nat, ToldUpTo(n), NEW k \in 1 .. n
    PROVE  AppliedTo(applied', k) = AppliedTo(applied, k)
<1>1. PICK b \in applied : b[1] = k
    BY DEF ToldUpTo
<1>2. ASSUME NEW a \in applied', a[1] = k PROVE a[2] = b[2]
    BY <1>1, <1>2 DEF StateMachineSafety
<1>3. \A e \in AppliedTo(applied', k) : e = b[2]
    BY <1>2 DEF AppliedTo
<1>4. b[2] \in AppliedTo(applied, k) /\ AppliedTo(applied, k) \subseteq AppliedTo(applied', k)
    BY <1>1 DEF AppliedTo
<1> QED
    BY <1>3, <1>4

(* Telling a service decides commands or teaches it decided ones. *)
LEMMA TellsRefines ==
    ASSUME TypeOK, TypeOK', ToldInv, ToldInv', StateMachineSafety',
           NEW i \in Server, NEW t \in Nat, NEW times \in {1, 2}, Tells(i, t, times)
    PROVE  Abstract!Next
<1>1. /\ commitIndex \in [Server -> Nat] /\ commitIndex' \in [Server -> Nat] /\ lastApplied \in [Server -> Nat]
    BY DEF TypeOK, ServiceTypes
<1>2. PICK d \in Nat : ToldUpTo(d)
    BY DEF ToldInv
<1>3. PICK e \in Nat : ToldUpTo(e)'
    BY DEF ToldInv
<1>4. PICK c \in Nat : c = commitIndex[i]
    BY <1>1
<1>5. PICK n \in Nat : n = commitIndex'[i]
    BY <1>1
<1>6. c <= n /\ Records(log'[i], c, n, t)
    BY <1>4, <1>5, MsgsApplied DEF Tells
<1>7. lastApplied[i] = c /\ lastApplied'[i] = n
    <2>1. ToldAt(i) /\ ToldAt(i)'
        BY DEF ToldInv
    <2> QED
        BY <1>4, <1>5, <2>1, ToldParts
<1>8. lastApplied' = [lastApplied EXCEPT ![i] = n]
    <2>1. PICK x : lastApplied' = [lastApplied EXCEPT ![i] = x]
        BY DEF Tells, Apply
    <2> QED
        BY <1>1, <1>7, <2>1
<1>9. applied \subseteq applied' /\ {a[1] : a \in applied'} = {a[1] : a \in applied} \cup (c + 1 .. n)
    <2>1. \A x : <<x, log'[i][x], t>>[1] = x
        OBVIOUS
    <2>2. applied' = applied \cup {<<x, log'[i][x], t>> : x \in c + 1 .. n}
        BY <1>6 DEF Records
    <2> QED
        BY <2>1, <2>2
<1>10. 1 .. e = 1 .. d \cup (c + 1 .. n) /\ c <= d /\ n <= e
    <2>1. {a[1] : a \in applied} = 1 .. d /\ {a[1] : a \in applied'} = 1 .. e
        BY <1>2, <1>3 DEF ToldUpTo
    <2>2. c <= d /\ n <= e
        BY <1>2, <1>3, <1>4, <1>5 DEF ToldUpTo
    <2> QED
        BY <1>9, <2>1, <2>2
<1>11. /\ Decided = [k \in 1 .. d |-> AppliedTo(applied, k)]
       /\ Decided \in Seq(SUBSET Entry) /\ Len(Decided) = d
    <2>1. applied \subseteq Nat \X Entry \X Nat /\ {a[1] : a \in applied} = 1 .. d
        BY <1>2 DEF ToldUpTo, ToldInv
    <2> QED
        BY <1>2, <2>1, DecidedFacts DEF Decided
<1>12. /\ Decided' = [k \in 1 .. e |-> AppliedTo(applied', k)]
       /\ Decided' \in Seq(SUBSET Entry) /\ Len(Decided') = e
    <2>1. applied' \subseteq Nat \X Entry \X Nat /\ {a[1] : a \in applied'} = 1 .. e
        BY <1>3 DEF ToldUpTo, ToldInv
    <2> QED
        BY <2>1, DecidedFacts DEF Decided
<1>13. \A k \in 1 .. d : AppliedTo(applied', k) = AppliedTo(applied, k)
    BY <1>2, <1>9, DecidedStays
<1>14. CASE n <= d
    <2>1. e = d
        BY <1>10, <1>14, SMT
    <2>2. Decided' = Decided
        BY <1>11, <1>12, <1>13, <2>1
    <2>3. n \in lastApplied[i] .. Len(Decided)
        BY <1>6, <1>7, <1>11, <1>14, SMTT(30)
    <2>4. Abstract!Learn(i)
        BY <1>8, <2>2, <2>3 DEF Abstract!Learn
    <2> QED
        BY <2>4 DEF Abstract!Next
<1>15. CASE n > d
    <2>1. e = n
        BY <1>10, <1>15, SMT
    <2>2. Len(Decided') > Len(Decided) /\ lastApplied' = [lastApplied EXCEPT ![i] = Len(Decided')]
        BY <1>8, <1>11, <1>12, <1>15, <2>1
    <2>3. SubSeq(Decided', 1, Len(Decided)) = Decided
        <3>1. \A k \in 1 .. d : Decided'[k] = Decided[k]
            BY <1>11, <1>12, <1>13, <1>15, <2>1, SMTT(30)
        <3>2. PICK new \in Seq(SUBSET Entry) : new = Decided'
            BY <1>12
        <3>3. PICK old \in Seq(SUBSET Entry) : old = Decided
            BY <1>11
        <3>4. Len(new) = n /\ Len(old) = d /\ \A k \in 1 .. d : new[k] = old[k]
            BY <1>11, <1>12, <2>1, <3>1, <3>2, <3>3
        <3>5. SubSeq(new, 1, d) = old
            BY <1>15, <3>4, SMTT(30)
        <3> QED
            BY <1>11, <3>2, <3>3, <3>5
    <2>4. Abstract!Decide(i)
        BY <2>2, <2>3 DEF Abstract!Decide
    <2> QED
        BY <2>4 DEF Abstract!Next
<1> QED
    BY <1>14, <1>15, SMT

(* Every step of the peers is one of the replicated log, or leaves it as   *)
(* it is.                                                                  *)
LEMMA ReplicatesStep ==
    ASSUME TypeOK, TypeOK', ToldInv, ToldInv', StateMachineSafety', ServiceStep
    PROVE  [Abstract!Next]_<<Decided, lastApplied>>
<1>1. CASE UNCHANGED serviceVars
    BY <1>1 DEF serviceVars, Decided
<1>2. ASSUME NEW i \in Server, StartsOver(i) PROVE Abstract!Next
    <2>1. lastApplied[i] \in Nat /\ lastApplied' = [lastApplied EXCEPT ![i] = 0] /\ Decided' = Decided
        BY <1>2 DEF StartsOver, TypeOK, ServiceTypes, Decided
    <2>2. 0 \in 0 .. lastApplied[i]
        BY <2>1, SMT
    <2>3. Abstract!StartOver(i)
        BY <2>1, <2>2 DEF Abstract!StartOver
    <2> QED
        BY <2>3 DEF Abstract!Next
<1> QED
    BY <1>1, <1>2, TellsRefines DEF ServiceStep

(* At first boot nothing is decided. *)
LEMMA ReplicatesInit ==
    ASSUME Init
    PROVE  Abstract!Init
<1>1. lastApplied = [i \in Server |-> 0] /\ applied = {}
    BY DEF Init
<1>2. Decided = <<>>
    BY <1>1, SMT DEF Decided
<1> QED
    BY <1>1, <1>2 DEF Abstract!Init

-----------------------------------------------------------------------------
(* The initial state *)

(* At first boot the histories are empty. *)
LEMMA HistoryInit ==
    ASSUME Init
    PROVE  SnapFree /\ ToldInv /\ HistoryInv
<1>1. SnapFree
    BY DEF Init, SnapFree
<1>2. /\ log = [i \in Server |-> <<>>] /\ currentTerm = [i \in Server |-> 0] /\ tp = [i \in Server |-> Follower]
      /\ commitIndex = [i \in Server |-> 0] /\ lastApplied = [i \in Server |-> 0] /\ applyCh = [i \in Server |-> <<>>]
      /\ startAppend = [i \in Server |-> FALSE] /\ installs = [i \in Server |-> {}]
      /\ rvReq = {} /\ rvRep = {} /\ aeReq = {} /\ aeRep = {} /\ isReq = {} /\ isRep = {}
      /\ votes = {} /\ leaders = {} /\ applied = {}
    BY DEF Init
<1>3. ToldInv
    <2>1. /\ applied \subseteq Nat \X Entry \X Nat /\ applyCh \in [Server -> Seq(CommandMsg)]
        BY <1>2, SMT
    <2>2. ASSUME NEW i \in Server PROVE ToldAt(i)
        <3>1. applyCh[i] = <<>> /\ commitIndex[i] = 0 /\ lastApplied[i] = 0 /\ Len(<<>>) = 0
            BY <1>2
        <3>2. <<>> \in Seq(CommandMsg)
            BY SMT
        <3>3. Gapless(<<>>, 0) /\ LastTold(<<>>, 0) = 0
            BY <3>1, SMT DEF Gapless, LastTold
        <3> QED
            BY <3>1, <3>2, <3>3, ToldParts
    <2>3. ToldUpTo(0)
        BY <1>2, SMTT(30) DEF ToldUpTo
    <2> QED
        BY <2>1, <2>2, <2>3 DEF ToldInv
<1>4. PICK T : T = [t \in {} |-> <<>>]
    OBVIOUS
<1>5. HistTypes(T, {}) /\ LedInv(T) /\ SoundInv(T)
    <2>1. \A i \in Server : log[i] = <<>> /\ Len(log[i]) = 0 /\ tp[i] # Leader
        BY <1>2, SMT DEF Follower, Leader
    <2>2. DOMAIN T = {}
        BY <1>4
    <2>3. \A k : k \notin 1 .. 0
        BY SMT
    <2> QED
        BY <1>2, <2>1, <2>2, <2>3 DEF HistTypes, LedInv, SoundInv, Sound
<1>6. SentInv(T, {}) /\ AnswerInv(T, {}) /\ AcceptInv(T, {}) /\ KeptInv(T, {})
    BY <1>2, <1>4 DEF SentInv, OneCall, AnswerInv, AcceptInv, KeptInv
<1>7. AskInv /\ VotedInv(T, {}) /\ WonInv(T, {})
    BY <1>2, <1>4 DEF AskInv, VotedInv, WonInv
<1>8. LeadInv({}) /\ InstallsInv /\ CommitUpToDate
    <2>1. \A i \in Server : tp[i] # Leader /\ ~startAppend[i] /\ installs[i] = {}
        BY <1>2, SMT DEF Follower, Leader
    <2> QED
        BY <1>2, <2>1 DEF LeadInv, LeadAt, InstallsInv, CommitUpToDate
<1>9. CommitInv(T, {}) /\ AppliedInv(T, {})
    <2>1. ASSUME NEW i \in Server, NEW b PROVE Chosen(T, {}, log[i], commitIndex[i], b)
        BY <1>2, SMTT(30) DEF Chosen
    <2> QED
        BY <1>2, <2>1 DEF CommitInv, CommitAt, AppliedInv
<1> QED
    BY <1>1, <1>3, <1>5, <1>6, <1>7, <1>8, <1>9 DEF HistoryInv, History
=============================================================================
