---------------------------- MODULE RaftProofs -----------------------------
(***************************************************************************)
(* Raft is type correct, for any set of peers, any commands and any        *)
(* bounds, and the operators with which it chooses values are well         *)
(* defined: medians, positions of terms in a log, messages for the         *)
(* service.                                                                *)
(*                                                                         *)
(* What a peer has written to its Persister whenever rf.mu is free         *)
(* suffices for a restart (Durable).                                       *)
(*                                                                         *)
(* The safety of elections: a peer votes once per term, across restarts    *)
(* (VoteOnce); a candidate counts distinct voters (VotesCountedOnce); and, *)
(* in schedules in which nothing runs between the unlocked test of         *)
(* startElection's loop and its Lock(), a term has at most one leader      *)
(* (ElectionSafety).                                                       *)
(***************************************************************************)
EXTENDS RaftInvariants, FiniteSetTheorems, SequenceTheorems, WellFoundedInduction, TLAPS

(* A leaf is left to Zenon unless it names another prover. *)
USE ZenonT(60)

-----------------------------------------------------------------------------
(* The data operators *)

(* Every nonempty set of naturals has a least element. *)
LEMMA LeastNat ==
    ASSUME NEW T \in SUBSET Nat, T # {}
    PROVE  \E n \in T : \A k \in T : n <= k
<1> DEFINE R == OpToRel(<, Nat)
<1>1. \A k, n \in Nat : k < n => <<k, n>> \in R
    BY DEF OpToRel
<1> HIDE DEF R
<1>2. IsWellFoundedOn(R, Nat)
    BY NatLessThanWellFounded DEF R
<1>3. PICK n \in T : \A k \in T : ~ (<<k, n>> \in R)
    BY <1>2, WFMin
<1>4. \A k \in T : ~ (k < n)
    BY <1>1, <1>3
<1> QED
    BY <1>4, SMT

(* A nonempty set of naturals up to n has a greatest element. *)
LEMMA GreatestUpTo ==
    ASSUME NEW n \in Nat, NEW T \in SUBSET (0 .. n), T # {}
    PROVE  \E k \in T : \A j \in T : j <= k
<1> DEFINE U == {n - k : k \in T}
<1>1. U \subseteq Nat /\ U # {}
    <2>1. \A k \in T : n - k \in Nat
        BY SMT
    <2>2. U # {}
        OBVIOUS
    <2> QED
        BY <2>1, <2>2
<1>2. PICK u \in U : \A v \in U : u <= v
    <2> HIDE DEF U
    <2> QED
        BY <1>1, LeastNat
<1>3. PICK k \in T : u = n - k
    BY <1>2
<1>4. \A j \in T : j <= k
    <2> TAKE j \in T
    <2>1. n - j \in U
        OBVIOUS
    <2>2. n - k <= n - j
        BY <1>2, <1>3, <2>1
    <2> QED
        BY <2>2, SMT
<1> QED
    BY <1>4

(* The number of peers is a positive natural. *)
LEMMA NIsNat == N \in Nat \ {0} /\ IsFiniteSet(Server)
BY ServerAssumption, FS_CardinalityType, FS_EmptySet DEF N

(* A function from the peers to naturals has an upper bound: its value at  *)
(* a peer with the fewest peers at or above it.                            *)
LEMMA MatchBounded ==
    ASSUME NEW m \in [Server -> Nat]
    PROVE  \E b \in Nat : \A j \in Server : m[j] <= b
<1> DEFINE Above(k) == {j \in Server : m[j] >= m[k]}
           T == {Cardinality(Above(k)) : k \in Server}
<1>1. \A k \in Server : IsFiniteSet(Above(k)) /\ Cardinality(Above(k)) \in Nat
    BY ServerAssumption, FS_Subset, FS_CardinalityType
<1>2. T \subseteq Nat /\ T # {}
    <2> HIDE DEF Above
    <2> QED
        BY <1>1, ServerAssumption
<1>3. PICK c \in T : \A d \in T : c <= d
    <2> HIDE DEF T
    <2> QED
        BY <1>2, LeastNat
<1>4. PICK k \in Server : \A j \in Server : Cardinality(Above(k)) <= Cardinality(Above(j))
    <2> HIDE DEF Above
    <2> QED
        BY <1>3
<1>5. ASSUME NEW j \in Server, m[j] > m[k] PROVE FALSE
    <2>1. Above(j) \in SUBSET Above(k) /\ k \in Above(k) /\ k \notin Above(j)
        BY <1>5, SMT
    <2>2. Cardinality(Above(j)) <= Cardinality(Above(k)) /\ Cardinality(Above(j)) # Cardinality(Above(k))
        BY <2>1, <1>1, FS_Subset
    <2> HIDE DEF Above
    <2> QED
        BY <2>2, <1>1, <1>4, SMT
<1>6. \A j \in Server : m[j] <= m[k]
    BY <1>5, SMT
<1> QED
    BY <1>6

(* updateCommit's median is one of the values it sorts: at most half of    *)
(* the peers are below it and more than half are not above it.             *)
LEMMA MedianExists ==
    ASSUME NEW m \in [Server -> Nat]
    PROVE  /\ MedianMatch(m) \in {m[j] : j \in Server}
           /\ Cardinality({j \in Server : m[j] < MedianMatch(m)}) <= N \div 2
           /\ Cardinality({j \in Server : m[j] <= MedianMatch(m)}) > N \div 2
<1> DEFINE Upto(v) == {j \in Server : m[j] <= v}
           Below(v) == {j \in Server : m[j] < v}
           T == {v \in Nat : Cardinality(Upto(v)) > N \div 2}
<1>1. \A v \in Nat : /\ IsFiniteSet(Upto(v)) /\ Cardinality(Upto(v)) \in Nat
                     /\ IsFiniteSet(Below(v)) /\ Cardinality(Below(v)) \in Nat
    BY ServerAssumption, FS_Subset, FS_CardinalityType
<1>2. T # {}
    <2>1. PICK b \in Nat : \A j \in Server : m[j] <= b
        BY MatchBounded
    <2>2. Upto(b) = Server
        BY <2>1
    <2>3. Cardinality(Upto(b)) > N \div 2
        BY <2>2, NIsNat, SMT DEF N
    <2> HIDE DEF Upto
    <2> QED
        BY <2>3
<1>3. PICK v \in T : \A u \in T : v <= u
    <2> T \in SUBSET Nat
        OBVIOUS
    <2> HIDE DEF T
    <2> QED
        BY <1>2, LeastNat
<1>4. Cardinality(Upto(v)) > N \div 2 /\ v \in Nat
    OBVIOUS
<1>5. Cardinality(Below(v)) <= N \div 2
    <2>1. CASE v = 0
        <3>1. Below(v) = {}
            BY <2>1, SMT
        <3> QED
            BY <3>1, FS_EmptySet, NIsNat, SMT
    <2>2. CASE v # 0
        <3>1. v - 1 \in Nat /\ ~(v <= v - 1)
            BY <2>2, <1>4, SMT
        <3>2. v - 1 \notin T
            BY <3>1, <1>3
        <3>3. Upto(v - 1) = Below(v)
            BY <1>4, SMT
        <3> HIDE DEF Upto, Below
        <3> QED
            BY <3>1, <3>2, <3>3, <1>1, NIsNat, SMT
    <2> QED
        BY <2>1, <2>2
<1>6. v \in {m[j] : j \in Server}
    <2>1. Upto(v) # Below(v)
        <3> HIDE DEF Upto, Below, T
        <3> QED
            BY <1>1, <1>4, <1>5, NIsNat, SMT
    <2> QED
        BY <2>1, <1>4, SMT
<1>7. \E w \in {m[j] : j \in Server} :
          /\ Cardinality({j \in Server : m[j] < w}) <= N \div 2
          /\ Cardinality({j \in Server : m[j] <= w}) > N \div 2
    BY <1>4, <1>5, <1>6
<1> HIDE DEF Upto, Below, T
<1> QED
    BY <1>7 DEF MedianMatch

(* What updateCommit commits is held by a strict majority, provided the    *)
(* number of peers is odd: position N/2 of an even number of values has    *)
(* only half of them at or above it.                                       *)
THEOREM MedianIsMajority ==
    ASSUME NEW m \in [Server -> Nat], N % 2 = 1
    PROVE  Cardinality({j \in Server : m[j] >= MedianMatch(m)}) > N \div 2
<1> DEFINE v == MedianMatch(m)
           Low == {j \in Server : m[j] < v}
           High == {j \in Server : m[j] >= v}
<1>1. v \in Nat /\ Cardinality(Low) <= N \div 2
    BY MedianExists
<1>2. IsFiniteSet(Low) /\ IsFiniteSet(High) /\ Cardinality(Low) \in Nat /\ Cardinality(High) \in Nat
    BY ServerAssumption, FS_Subset, FS_CardinalityType
<1>3. Low \cup High = Server /\ Low \cap High = {}
    BY <1>1, SMT
<1>4. N = Cardinality(Low) + Cardinality(High)
    <2> HIDE DEF Low, High
    <2>1. Cardinality(Low \cup High) = Cardinality(Low) + Cardinality(High) - Cardinality(Low \cap High)
        BY <1>2, FS_Union
    <2>2. Cardinality(Low \cap High) = 0
        BY <1>3, FS_EmptySet
    <2>3. N = Cardinality(Low \cup High)
        BY <1>3 DEF N
    <2> QED
        BY <1>2, <2>1, <2>2, <2>3, SMT
<1> HIDE DEF v, Low
<1>5. Cardinality(High) > N \div 2
    <2> HIDE DEF High
    <2> QED
        BY <1>1, <1>2, <1>4, NIsNat, SMT
<1> QED
    BY <1>5 DEF v

(* Raising the largest matchIndex, as Start does, does not raise the       *)
(* median: with an odd number of peers there are at least three.           *)
LEMMA MedianRaised ==
    ASSUME N % 2 = 1, N > 1, NEW m \in [Server -> Nat], NEW i \in Server, \A j \in Server : m[j] <= m[i],
           NEW p \in [Server -> Nat], \A j \in Server \ {i} : p[j] = m[j]
    PROVE  MedianMatch(p) <= MedianMatch(m)
<1> DEFINE v == MedianMatch(m)
           w == MedianMatch(p)
           Low == {j \in Server : m[j] <= v}
           Below == {j \in Server : p[j] < w}
<1>1. v \in {m[j] : j \in Server} /\ w \in {p[j] : j \in Server} /\ Cardinality(Low) > N \div 2 /\ Cardinality(Below) <= N \div 2
    BY MedianExists
<1>2. v \in Nat /\ w \in Nat
    BY <1>1
<1>3. /\ IsFiniteSet(Low) /\ IsFiniteSet(Below) /\ IsFiniteSet(Server \ {i})
      /\ Cardinality(Low) \in Nat /\ Cardinality(Below) \in Nat /\ Cardinality(Server \ {i}) = N - 1
    <2>1. Low \subseteq Server /\ Below \subseteq Server
        OBVIOUS
    <2>2. IsFiniteSet(Low) /\ IsFiniteSet(Below)
        BY <2>1, ServerAssumption, FS_Subset
    <2> QED
        BY <2>2, ServerAssumption, FS_RemoveElement, FS_CardinalityType DEF N
<1> HIDE DEF v, w
<1> SUFFICES ASSUME w > v PROVE FALSE
    BY <1>2, SMT DEF v, w
<1>4. \A j \in Server \ {i} : m[j] <= v => p[j] < w
    BY <1>2, SMT
<1>5. CASE m[i] <= v
    <2>1. Server \ {i} \subseteq Below
        BY <1>2, <1>4, <1>5, SMT
    <2>2. N - 1 <= Cardinality(Below)
        BY <1>3, <2>1, FS_Subset, SMT
    <2> QED
        BY <1>1, <1>3, <2>2, NIsNat, SMT
<1>6. CASE ~(m[i] <= v)
    <2>1. Low \subseteq Below
        BY <1>4, <1>6
    <2>2. Cardinality(Low) <= Cardinality(Below)
        BY <1>3, <2>1, FS_Subset
    <2> QED
        BY <1>1, <1>3, <2>2, NIsNat, SMT
<1> QED
    BY <1>5, <1>6

(* findEntry returns a position up to p. *)
LEMMA findEntryType ==
    ASSUME NEW l \in Seq(Entry), NEW p \in Nat
    PROVE  findEntry(l, p) \in 0 .. p
<1> DEFINE T == {k \in 0 .. p : \A j \in k .. p : TermAt(l, j) = TermAt(l, p)}
<1>1. T \subseteq Nat /\ p \in T
    BY SMT
<1>2. PICK k \in T : \A j \in T : k <= j
    <2> HIDE DEF T
    <2> QED
        BY <1>1, LeastNat
<1>3. k > 0 => TermAt(l, k - 1) # TermAt(l, p)
    <2> SUFFICES ASSUME k > 0, TermAt(l, k - 1) = TermAt(l, p) PROVE FALSE
        OBVIOUS
    <2>1. \A j \in k - 1 .. p : j = k - 1 \/ j \in k .. p
        BY SMT
    <2>2. k - 1 \in T
        BY <2>1, SMT
    <2> QED
        BY <1>2, <2>2, SMT
<1>4. \E i \in 0 .. p :
          /\ \A j \in i .. p : TermAt(l, j) = TermAt(l, p)
          /\ i > 0 => TermAt(l, i - 1) # TermAt(l, p)
    BY <1>3
<1> HIDE DEF T
<1> QED
    BY <1>4 DEF findEntry

(* findLast returns an integer. *)
LEMMA findLastType ==
    ASSUME NEW l, NEW t, NEW start \in Int
    PROVE  findLast(l, t, start) \in Int
<1> DEFINE low == {k \in 0 .. start : TermAt(l, k) <= t}
           top == CHOOSE k \in low : \A j \in low : j <= k
<1>1. CASE low = {}
    BY <1>1, SMT DEF findLast
<1>2. CASE low # {}
    <2>1. start \in Nat /\ low \in SUBSET (0 .. start)
        BY <1>2, SMT
    <2>2. \E k \in low : \A j \in low : j <= k
        <3> HIDE DEF low
        <3> QED
            BY <1>2, <2>1, GreatestUpTo
    <2>3. top \in Int
        BY <2>1, <2>2, SMT
    <2> HIDE DEF top
    <2> QED
        BY <1>2, <2>3, SMT DEF findLast, top
<1> QED
    BY <1>1, <1>2

(* The messages sent to the service are a sequence, and the last one       *)
(* carries an index.                                                       *)
LEMMA CommandMsgsLast ==
    ASSUME NEW l, NEW snap, NEW lo \in Nat, NEW hi \in Int, NEW times \in {1, 2},
           CommandMsgs(l, snap, lo, hi, times) # << >>
    PROVE  LET msgs == CommandMsgs(l, snap, lo, hi, times)
           IN  msgs[Len(msgs)].CommandIndex \in Nat
<1> DEFINE msgs == CommandMsgs(l, snap, lo, hi, times)
           n == times * (hi - lo + 1)
<1>1. n \in Int /\ DOMAIN msgs = 1 .. n
    BY SMT DEF CommandMsgs
<1>2. n > 0
    <2> SUFFICES ASSUME n <= 0 PROVE msgs = << >>
        BY <1>1, SMT
    <2>1. 1 .. n = {}
        BY <1>1, SMT
    <2> QED
        BY <2>1, SMT DEF CommandMsgs
<1>3. msgs \in Seq({msgs[k] : k \in 1 .. n})
    <2>1. msgs \in [1 .. n -> {msgs[k] : k \in 1 .. n}]
        BY DEF CommandMsgs
    <2> HIDE DEF msgs, n
    <2> QED
        BY <1>1, <1>2, <2>1, SeqDef, SMT
<1>4. Len(msgs) = n
    <2> HIDE DEF msgs, n
    <2>1. DOMAIN msgs = 1 .. Len(msgs) /\ Len(msgs) \in Nat
        BY <1>3, LenProperties
    <2> QED
        BY <1>1, <1>2, <2>1, SMT
<1>5. msgs[n].CommandIndex = lo + ((n - 1) \div times)
    <2>1. n \in 1 .. n
        BY <1>1, <1>2, SMT
    <2> HIDE DEF n
    <2> QED
        BY <2>1 DEF CommandMsgs, n
<1>6. (n - 1) \div times \in Nat
    <2> HIDE DEF n
    <2>1. CASE times = 1
        BY <2>1, <1>1, <1>2, SMT
    <2>2. CASE times = 2
        BY <2>2, <1>1, <1>2, SMT
    <2> QED
        BY <2>1, <2>2
<1> HIDE DEF msgs, n
<1> QED
    BY <1>4, <1>5, <1>6, SMT DEF msgs

(* The facts of which the other proofs make hypotheses. *)
LEMMA CountingHolds == CountingFacts
<1>1. ASSUME NEW Q \in Majorities, NEW R \in Majorities PROVE \E j \in Server : j \in Q /\ j \in R
    <2>1. Q \in SUBSET Server /\ R \in SUBSET Server /\ Cardinality(Q) > N \div 2 /\ Cardinality(R) > N \div 2
        BY DEF Majorities
    <2>2. Cardinality(Q) \in Nat /\ Cardinality(R) \in Nat
        BY <2>1, ServerAssumption, FS_Subset, FS_CardinalityType
    <2>3. Cardinality(Q) + Cardinality(R) > N
        BY <2>1, <2>2, NIsNat, SMT
    <2>4. Cardinality(Q) + Cardinality(R) > Cardinality(Server)
        BY <2>3 DEF N
    <2>5. Q \cap R # {}
        BY <2>1, <2>4, ServerAssumption, FS_MajoritiesIntersect
    <2> QED
        BY <2>1, <2>5
<1>2. \A B \in SUBSET Nat : B # {} => \E n \in B : \A k \in B : n <= k
    BY LeastNat
<1> QED
    BY <1>1, <1>2 DEF CountingFacts

(* What is used of the median. *)
LEMMA MedianHolds ==
    ASSUME N % 2 = 1, N > 1
    PROVE  MedianFacts
<1> SUFFICES ASSUME NEW m \in [Server -> Nat]
             PROVE  /\ \E j \in Server : MedianMatch(m) = m[j]
                    /\ \E Q \in Majorities : \A j \in Q : MedianMatch(m) <= m[j]
                    /\ \A i \in Server : \A p \in [Server -> Nat] :
                          (\A j \in Server : m[j] <= m[i]) /\ (\A j \in Server \ {i} : p[j] = m[j]) =>
                              MedianMatch(p) <= MedianMatch(m)
    BY DEF MedianFacts
<1>1. PICK v : v = MedianMatch(m)
    OBVIOUS
<1>2. PICK Q : Q = {j \in Server : m[j] >= v}
    OBVIOUS
<1>3. v \in Nat /\ \E j \in Server : v = m[j]
    BY <1>1, MedianExists
<1>4. Q \in Majorities
    BY <1>1, <1>2, MedianIsMajority DEF Majorities
<1>5. \A j \in Q : v <= m[j]
    BY <1>2, <1>3
<1>6. \A i \in Server : \A p \in [Server -> Nat] :
          (\A j \in Server : m[j] <= m[i]) /\ (\A j \in Server \ {i} : p[j] = m[j]) =>
              MedianMatch(p) <= MedianMatch(m)
    BY MedianRaised
<1> QED
    BY <1>1, <1>3, <1>4, <1>5, <1>6

(* What is used of findEntry. *)
LEMMA SearchHolds == SearchFacts
BY findEntryType DEF SearchFacts

-----------------------------------------------------------------------------
(* Types *)

(* The initial state is of the right type. *)
LEMMA TypeInit == Init => TypeOK
<1> SUFFICES ASSUME Init PROVE TypeOK
    OBVIOUS
<1>1. TermTypes /\ LogTypes /\ LeaderTypes
    BY SMT DEF Init, TermTypes, LogTypes, LeaderTypes, Follower
<1>2. DiskTypes
    BY SMT DEF Init, DiskTypes, RaftState, SnapFile
<1>3. ElectTypes /\ VoteNetTypes /\ AppendNetTypes /\ ServiceTypes /\ OtherTypes
    BY DEF Init, ElectTypes, VoteNetTypes, AppendNetTypes, ServiceTypes, OtherTypes
<1> QED
    BY <1>1, <1>2, <1>3 DEF TypeOK

(* A group of variables that does not change keeps its type. *)
LEMMA SameTypes ==
    ASSUME TypeOK
    PROVE  /\ UNCHANGED termVars => TermTypes'
           /\ UNCHANGED logVars => LogTypes'
           /\ UNCHANGED leaderVars => LeaderTypes'
           /\ UNCHANGED diskVars => DiskTypes'
           /\ UNCHANGED electVars => ElectTypes'
           /\ UNCHANGED voteNet => VoteNetTypes'
           /\ UNCHANGED appendNet => AppendNetTypes'
           /\ UNCHANGED serviceVars => ServiceTypes'
           /\ UNCHANGED <<installs, Ss, restarts, votes, leaders>> => OtherTypes'
<1>1. UNCHANGED termVars => TermTypes'
    BY DEF TypeOK, TermTypes, termVars
<1>2. UNCHANGED logVars => LogTypes'
    BY DEF TypeOK, LogTypes, logVars
<1>3. UNCHANGED leaderVars => LeaderTypes'
    BY DEF TypeOK, LeaderTypes, leaderVars
<1>4. UNCHANGED diskVars => DiskTypes'
    BY DEF TypeOK, DiskTypes, diskVars
<1>5. UNCHANGED electVars => ElectTypes'
    BY DEF TypeOK, ElectTypes, electVars
<1>6. UNCHANGED voteNet => VoteNetTypes'
    BY DEF TypeOK, VoteNetTypes, voteNet
<1>7. UNCHANGED appendNet => AppendNetTypes'
    BY DEF TypeOK, AppendNetTypes, appendNet
<1>8. UNCHANGED serviceVars => ServiceTypes'
    BY DEF TypeOK, ServiceTypes, serviceVars
<1>9. UNCHANGED <<installs, Ss, restarts, votes, leaders>> => OtherTypes'
    BY DEF TypeOK, OtherTypes
<1> QED
    BY <1>1, <1>2, <1>3, <1>4, <1>5, <1>6, <1>7, <1>8, <1>9

(* persist() writes a value of the right type. *)
LEMMA persistType ==
    ASSUME TypeOK, NEW i \in Server, persist(i), TermTypes', LogTypes'
    PROVE  raftstate' \in [Server -> RaftState]
BY DEF persist, RaftState, TypeOK, DiskTypes, TermTypes, LogTypes

(* The term of an entry of a log. *)
LEMMA EntryTerm ==
    ASSUME NEW l \in Seq(Entry), NEW k \in 1 .. Len(l)
    PROVE  l[k] \in Entry /\ l[k].Term \in Nat
<1>1. l[k] \in Entry
    BY ElementOfSeq
<1> QED
    BY <1>1 DEF Entry

(* The last index and the last term of a log. *)
LEMMA LastType ==
    ASSUME TypeOK, NEW i \in Server
    PROVE  LastLogIndex(i) \in Nat /\ LastLogTerm(i) \in Nat
<1>1. log[i] \in Seq(Entry) /\ snapshotIndex[i] \in Nat /\ snapshotTerm[i] \in Nat
    BY DEF TypeOK, LogTypes
<1>2. Len(log[i]) \in Nat /\ (log[i] # << >> => Len(log[i]) \in 1 .. Len(log[i]))
    BY <1>1, EmptySeq, LenProperties, SMT
<1>3. log[i] # << >> => log[i][Len(log[i])].Term \in Nat
    BY <1>1, <1>2, EntryTerm
<1> QED
    BY <1>1, <1>2, <1>3, SMT DEF LastLogIndex, LastLogTerm

(* The elections keep the types. *)
LEMMA startElectionType ==
    ASSUME TypeOK, NEW i \in Server, startElection(i)
    PROVE  TypeOK'
<1>1. currentTerm[i] + 1 \in Nat
    BY SMT DEF TypeOK, TermTypes
<1>2. TermTypes'
    BY <1>1 DEF startElection, TypeOK, TermTypes, Candidate
<1>3. LogTypes' /\ LeaderTypes' /\ VoteNetTypes' /\ AppendNetTypes' /\ ServiceTypes'
    BY SameTypes DEF startElection
<1>4. DiskTypes'
    BY <1>2, <1>3, persistType DEF startElection, TypeOK, DiskTypes
<1>5. ElectTypes'
    <2>1. {[term |-> currentTerm[i] + 1, to |-> j] : j \in Server \ {i}} \subseteq [term : Nat, to : Server]
        BY <1>1, SMT
    <2> QED
        BY <1>1, <2>1 DEF startElection, TypeOK, ElectTypes
<1>6. OtherTypes'
    BY <1>1, SMTT(30) DEF startElection, TypeOK, OtherTypes
<1> QED
    BY <1>2, <1>3, <1>4, <1>5, <1>6 DEF TypeOK

LEMMA sendRequestVoteType ==
    ASSUME TypeOK, NEW i \in Server, NEW g \in voters[i], sendRequestVote(i, g)
    PROVE  TypeOK'
<1>1. TermTypes' /\ LogTypes' /\ LeaderTypes' /\ DiskTypes' /\ AppendNetTypes' /\ ServiceTypes' /\ OtherTypes'
    BY SameTypes DEF sendRequestVote
<1>2. ElectTypes'
    BY DEF sendRequestVote, TypeOK, ElectTypes
<1>3. g.to \in Server /\ g.term \in Nat
    BY SMT DEF TypeOK, ElectTypes
<1>4. LastLogIndex(i) \in Nat /\ LastLogTerm(i) \in Nat
    BY LastType
<1>5. VoteNetTypes'
    <2> DEFINE m == [from |-> i, to |-> g.to, Term |-> g.term, LastLogIndex |-> LastLogIndex(i),
                     LastLogTerm |-> LastLogTerm(i), live |-> TRUE]
    <2>1. m \in VoteRequest
        BY <1>3, <1>4 DEF VoteRequest
    <2>2. rvReq' = rvReq \cup {m} /\ rvRep' = rvRep
        BY DEF sendRequestVote
    <2> HIDE DEF m
    <2> QED
        BY <2>1, <2>2 DEF TypeOK, VoteNetTypes
<1> QED
    BY <1>1, <1>2, <1>5 DEF TypeOK

LEMMA RequestVoteType ==
    ASSUME TypeOK, NEW m \in rvReq, RequestVote(m)
    PROVE  TypeOK'
<1>1. m \in VoteRequest /\ m.to \in Server /\ m.from \in Server /\ m.Term \in Nat
    BY DEF TypeOK, VoteNetTypes, VoteRequest
<1>2. LogTypes' /\ LeaderTypes' /\ ElectTypes' /\ AppendNetTypes' /\ ServiceTypes'
    BY SameTypes DEF RequestVote
<1>3. TermTypes'
    BY <1>1 DEF RequestVote, TypeOK, TermTypes, Follower
<1>4. DiskTypes'
    BY <1>1, <1>2, <1>3, persistType DEF RequestVote, TypeOK, DiskTypes
<1>5. VoteNetTypes'
    <2>1. Grants(m.to, m) \in BOOLEAN /\ currentTerm[m.to] \in Nat
        BY <1>1 DEF Grants, TypeOK, TermTypes
    <2> QED
        BY <1>1, <2>1, SMTT(30) DEF RequestVote, TypeOK, VoteNetTypes, VoteAnswer
<1>6. OtherTypes'
    BY <1>1, SMTT(30) DEF RequestVote, TypeOK, OtherTypes
<1> QED
    BY <1>2, <1>3, <1>4, <1>5, <1>6 DEF TypeOK

(* Stepping down keeps the types. *)
LEMMA StepDownType ==
    ASSUME TypeOK, NEW i \in Server, NEW t \in Nat, StepDown(i, t)
    PROVE  TermTypes' /\ LogTypes' /\ DiskTypes'
<1>1. TermTypes'
    BY DEF StepDown, termUpdate, TypeOK, TermTypes, Follower
<1>2. LogTypes'
    BY SameTypes DEF StepDown
<1>3. DiskTypes'
    BY <1>1, <1>2, persistType DEF StepDown, TypeOK, DiskTypes
<1> QED
    BY <1>1, <1>2, <1>3

LEMMA VoteReplyType ==
    ASSUME TypeOK, NEW r \in rvRep, VoteReply(r)
    PROVE  TypeOK'
<1>1. r.from \in Server /\ r.to \in Server /\ r.Term \in Nat
    BY DEF TypeOK, VoteNetTypes, VoteAnswer
<1>2. LeaderTypes' /\ AppendNetTypes' /\ ServiceTypes' /\ OtherTypes'
    BY SameTypes DEF VoteReply
<1>3. VoteNetTypes'
    BY DEF VoteReply, TypeOK, VoteNetTypes
<1>4. TermTypes' /\ LogTypes' /\ DiskTypes'
    BY <1>1, StepDownType, SameTypes DEF VoteReply
<1>5. ElectTypes'
    BY <1>1, SMTT(30) DEF VoteReply, TypeOK, ElectTypes
<1> QED
    BY <1>2, <1>3, <1>4, <1>5 DEF TypeOK

LEMMA ElectionCheckType ==
    ASSUME TypeOK, NEW i \in Server, ElectionCheck(i)
    PROVE  TypeOK'
<1>1. TermTypes' /\ LogTypes' /\ LeaderTypes' /\ DiskTypes' /\ VoteNetTypes' /\ AppendNetTypes' /\ ServiceTypes' /\ OtherTypes'
    BY SameTypes DEF ElectionCheck
<1>2. ElectTypes'
    BY SMT DEF ElectionCheck, TypeOK, ElectTypes, TermTypes
<1> QED
    BY <1>1, <1>2 DEF TypeOK

LEMMA BecomeLeaderType ==
    ASSUME TypeOK, NEW i \in Server, NEW t \in checked[i] \cup {currentTerm[i]}, BecomeLeader(i, t)
    PROVE  TypeOK'
<1>1. t \in Nat /\ Len(log[i]) \in Nat
    BY LenProperties DEF TypeOK, ElectTypes, TermTypes, LogTypes
<1>2. LogTypes' /\ DiskTypes' /\ VoteNetTypes' /\ AppendNetTypes' /\ ServiceTypes'
    BY SameTypes DEF BecomeLeader
<1>3. TermTypes'
    BY DEF BecomeLeader, TypeOK, TermTypes, Leader
<1>4. LeaderTypes'
    BY <1>1, SMT DEF BecomeLeader, TypeOK, LeaderTypes
<1>5. ElectTypes'
    BY <1>1 DEF BecomeLeader, TypeOK, ElectTypes
<1>6. OtherTypes'
    BY SMT DEF BecomeLeader, TypeOK, OtherTypes, TermTypes
<1> QED
    BY <1>2, <1>3, <1>4, <1>5, <1>6 DEF TypeOK

(* The leader's side of replication keeps the types. *)
LEMMA AppendToLogType ==
    ASSUME TypeOK, NEW i \in Server, NEW c \in Commands \cup {"no-op"}, AppendToLog(i, c)
    PROVE  TermTypes' /\ LogTypes' /\ LeaderTypes' /\ DiskTypes'
<1>1. TermTypes'
    BY SameTypes DEF AppendToLog
<1>2. [Command |-> c, Term |-> currentTerm[i]] \in Entry
    BY DEF Entry, TypeOK, TermTypes
<1>3. Append(log[i], [Command |-> c, Term |-> currentTerm[i]]) \in Seq(Entry)
    BY <1>2, AppendProperties DEF TypeOK, LogTypes
<1>4. LogTypes'
    BY <1>3 DEF AppendToLog, TypeOK, LogTypes
<1>5. LastLogIndex(i) + 1 \in Nat
    BY LastType, SMT
<1>6. LeaderTypes'
    BY <1>5 DEF AppendToLog, TypeOK, LeaderTypes
<1>7. DiskTypes'
    BY <1>1, <1>4, persistType DEF AppendToLog, TypeOK, DiskTypes
<1> QED
    BY <1>1, <1>4, <1>6, <1>7

LEMMA StartType ==
    ASSUME TypeOK, NEW i \in Server, NEW c \in Commands, Start(i, c)
    PROVE  TypeOK'
<1>1. TermTypes' /\ LogTypes' /\ LeaderTypes' /\ DiskTypes'
    BY AppendToLogType DEF Start
<1>2. ElectTypes' /\ VoteNetTypes' /\ AppendNetTypes' /\ ServiceTypes' /\ OtherTypes'
    BY SameTypes DEF Start
<1> QED
    BY <1>1, <1>2 DEF TypeOK

LEMMA StartNoopType ==
    ASSUME TypeOK, NEW i \in Server, NEW t \in noops[i], StartNoop(i, t)
    PROVE  TypeOK'
<1>1. TermTypes' /\ LogTypes' /\ LeaderTypes' /\ DiskTypes'
    BY AppendToLogType, SameTypes DEF StartNoop
<1>2. VoteNetTypes' /\ AppendNetTypes' /\ ServiceTypes' /\ OtherTypes'
    BY SameTypes DEF StartNoop
<1>3. ElectTypes'
    BY DEF StartNoop, TypeOK, ElectTypes
<1> QED
    BY <1>1, <1>2, <1>3 DEF TypeOK

LEMMA SpawnInstallType ==
    ASSUME TypeOK, NEW i \in Server, NEW j \in Server, SpawnInstall(i, j)
    PROVE  TypeOK'
<1>1. TermTypes' /\ LogTypes' /\ LeaderTypes' /\ DiskTypes' /\ ElectTypes' /\ VoteNetTypes' /\ AppendNetTypes' /\ ServiceTypes'
    BY SameTypes DEF SpawnInstall
<1>2. OtherTypes'
    BY SMTT(30) DEF SpawnInstall, TypeOK, OtherTypes, TermTypes
<1> QED
    BY <1>1, <1>2 DEF TypeOK

LEMMA sendAppendEntriesType ==
    ASSUME TypeOK, NEW i \in Server, NEW j \in Server, sendAppendEntries(i, j)
    PROVE  TypeOK'
<1>1. TermTypes' /\ LogTypes' /\ LeaderTypes' /\ DiskTypes' /\ ElectTypes' /\ VoteNetTypes' /\ ServiceTypes' /\ OtherTypes'
    BY SameTypes DEF sendAppendEntries
<1> DEFINE next == nextIndex[i][j]
           prevTerm == IF next = 1 THEN snapshotTerm[i] ELSE log[i][next - 1].Term
           entries == SubSeq(log[i], next, Len(log[i]))
<1>2. log[i] \in Seq(Entry) /\ Len(log[i]) \in Nat /\ next \in Int /\ next > 0 /\ next <= Len(log[i]) + 1
    BY LenProperties DEF sendAppendEntries, TypeOK, LogTypes, LeaderTypes
<1>3. currentTerm[i] \in Nat /\ snapshotIndex[i] \in Nat /\ snapshotTerm[i] \in Nat /\ commitIndex[i] \in Nat
    BY DEF TypeOK, TermTypes, LogTypes, ServiceTypes
<1>4. prevTerm \in Nat
    <2>1. CASE next = 1
        BY <2>1, <1>3
    <2>2. CASE next # 1
        <3>1. next - 1 \in 1 .. Len(log[i])
            BY <2>2, <1>2, SMT
        <3>2. log[i][next - 1].Term \in Nat
            BY <3>1, <1>2, EntryTerm
        <3> QED
            BY <2>2, <3>2
    <2> QED
        BY <2>1, <2>2
<1>5. entries \in Seq(Entry)
    <2>1. \A k \in next .. Len(log[i]) : log[i][k] \in Entry
        BY <1>2, EntryTerm, SMT
    <2> QED
        BY <1>2, <2>1, SubSeqProperties, SMT
<1>6. next - 1 + snapshotIndex[i] \in Nat
    BY <1>2, <1>3, SMT
<1>7. AppendNetTypes'
    <2> DEFINE m == [from |-> i, to |-> j, live |-> TRUE, Term |-> currentTerm[i],
                     PrevLogIndex |-> next - 1 + snapshotIndex[i], PrevLogTerm |-> prevTerm,
                     Entries |-> entries, LeaderCommit |-> commitIndex[i]]
    <2>1. m \in AppendRequest
        <3> HIDE DEF prevTerm, entries, next
        <3> QED
            BY <1>3, <1>4, <1>5, <1>6 DEF AppendRequest
    <2>2. /\ isReq' \subseteq isReq /\ aeReq' \subseteq aeReq \cup {m}
          /\ aeRep' = aeRep /\ isRep' = isRep
        BY DEF sendAppendEntries
    <2> HIDE DEF m
    <2> QED
        BY <2>1, <2>2 DEF TypeOK, AppendNetTypes
<1> QED
    BY <1>1, <1>7 DEF TypeOK

LEMMA sendSnapShotType ==
    ASSUME TypeOK, NEW i \in Server, NEW g \in installs[i], sendSnapShot(i, g)
    PROVE  TypeOK'
<1>1. TermTypes' /\ LogTypes' /\ LeaderTypes' /\ DiskTypes' /\ ElectTypes' /\ VoteNetTypes' /\ ServiceTypes'
    BY SameTypes DEF sendSnapShot
<1>2. OtherTypes'
    BY DEF sendSnapShot, TypeOK, OtherTypes
<1>3. g.to \in Server /\ g.termTemp \in Nat
    BY SMT DEF TypeOK, OtherTypes
<1>4. AppendNetTypes'
    <2> DEFINE m == [from |-> i, to |-> g.to, termTemp |-> g.termTemp, live |-> TRUE,
                     Term |-> currentTerm[i], LastIncludedIndex |-> snapshotIndex[i],
                     LastIncludedTerm |-> snapshotTerm[i], Data |-> snapshot[i]]
    <2>1. m \in SnapRequest
        BY <1>3 DEF SnapRequest, TypeOK, TermTypes, LogTypes, DiskTypes
    <2>2. /\ aeReq' \subseteq aeReq /\ isReq' \subseteq isReq \cup {m}
          /\ aeRep' = aeRep /\ isRep' = isRep
        BY DEF sendSnapShot
    <2> HIDE DEF m
    <2> QED
        BY <2>1, <2>2 DEF TypeOK, AppendNetTypes
<1> QED
    BY <1>1, <1>2, <1>4 DEF TypeOK

(* Committing keeps the types. *)
LEMMA ApplyType ==
    ASSUME TypeOK, NEW i \in Server, NEW t, NEW l, NEW snap, NEW pre \in Nat, NEW new \in Nat, NEW times \in {1, 2},
           commitIndex' = [commitIndex EXCEPT ![i] = new],
           \/ Apply(i, t, CommandMsgs(l, snap, pre + 1, new, times))
           \/ Apply(i, t, << >>)
    PROVE  ServiceTypes'
<1>1. commitIndex' \in [Server -> Nat]
    BY DEF TypeOK, ServiceTypes
<1>2. lastApplied \in [Server -> Nat]
    BY DEF TypeOK, ServiceTypes
<1>3. CASE Apply(i, t, CommandMsgs(l, snap, pre + 1, new, times))
    <2> DEFINE msgs == CommandMsgs(l, snap, pre + 1, new, times)
    <2>1. msgs # << >> => msgs[Len(msgs)].CommandIndex \in Nat
        BY CommandMsgsLast, SMT
    <2>2. lastApplied' = [lastApplied EXCEPT ![i] = IF msgs = << >> THEN @ ELSE msgs[Len(msgs)].CommandIndex]
        BY <1>3 DEF Apply
    <2> HIDE DEF msgs
    <2> QED
        BY <1>1, <1>2, <2>1, <2>2 DEF ServiceTypes
<1>4. CASE Apply(i, t, << >>)
    BY <1>1, <1>2, <1>4 DEF Apply, ServiceTypes
<1> QED
    BY <1>3, <1>4

LEMMA updateCommitType ==
    ASSUME TypeOK, NEW i \in Server, NEW match \in [Server -> Nat], updateCommit(i, match)
    PROVE  ServiceTypes'
<1> DEFINE pre == commitIndex[i]
           temp == MedianMatch(match)
           new == IF temp > pre THEN temp ELSE pre
<1>1. pre \in Nat /\ temp \in Nat
    BY MedianExists DEF TypeOK, ServiceTypes
<1>2. commitIndex' = [commitIndex EXCEPT ![i] = new]
    BY DEF updateCommit
<1>3. \/ Apply(i, currentTerm[i], CommandMsgs(log[i], snapshotIndex[i], pre + 1, new, 1))
      \/ Apply(i, currentTerm[i], << >>)
    BY DEF updateCommit
<1>4. new \in Nat
    BY <1>1
<1> HIDE DEF pre, new
<1> QED
    BY <1>1, <1>2, <1>3, <1>4, ApplyType

LEMMA AppendReplyType ==
    ASSUME TypeOK, NEW r \in aeRep, AppendReply(r)
    PROVE  TypeOK'
<1> DEFINE i == r.from
<1>1. /\ r.from \in Server /\ r.to \in Server /\ r.Term \in Nat /\ r.PrevLogIndex \in Nat /\ r.Count \in Nat
      /\ r.Len \in Nat /\ r.TermStart \in Nat
    BY DEF TypeOK, AppendNetTypes, AppendAnswer
<1>2. ElectTypes' /\ VoteNetTypes' /\ OtherTypes'
    BY SameTypes DEF AppendReply
<1>3. AppendNetTypes'
    BY DEF AppendReply, TypeOK, AppendNetTypes
<1>4. matchIndex[i] \in [Server -> Nat] /\ Matched(i, r) \in [Server -> Nat]
    BY <1>1, SMT DEF TypeOK, LeaderTypes, Matched
<1>5. TermTypes' /\ LogTypes' /\ DiskTypes'
    BY <1>1, StepDownType, SameTypes DEF AppendReply
<1>6. LeaderTypes'
    <2>1. NextAfterReject(i, r) \in Int
        <3>1. r.PrevLogIndex - snapshotIndex[i] \in Int /\ snapshotIndex[i] \in Nat
            BY <1>1, SMT DEF TypeOK, LogTypes
        <3>2. findLast(log[i], r.TermConflict, r.PrevLogIndex - snapshotIndex[i]) \in Int
            BY <3>1, findLastType
        <3> QED
            BY <1>1, <3>1, <3>2, SMTT(30) DEF NextAfterReject
    <2>2. CASE UNCHANGED leaderVars
        BY <2>2, SameTypes
    <2>3. CASE nextIndex' = [nextIndex EXCEPT ![i][r.to] = NextAfterReject(i, r)] /\ UNCHANGED <<matchIndex, startAppend>>
        BY <1>1, <2>1, <2>3 DEF TypeOK, LeaderTypes
    <2>4. CASE /\ matchIndex' = [matchIndex EXCEPT ![i] = Matched(i, r)]
               /\ nextIndex' = [nextIndex EXCEPT ![i][r.to] = @ + r.Count]
               /\ UNCHANGED startAppend
        BY <1>1, <1>4, <2>4, SMTT(30) DEF TypeOK, LeaderTypes
    <2> QED
        BY <2>2, <2>3, <2>4 DEF AppendReply
<1>7. ServiceTypes'
    <2>1. CASE UNCHANGED serviceVars
        BY <2>1, SameTypes
    <2>2. CASE updateCommit(i, matchIndex[i])
        BY <1>1, <1>4, <2>2, updateCommitType
    <2>3. CASE matchIndex' = [matchIndex EXCEPT ![i] = Matched(i, r)] /\ updateCommit(i, matchIndex'[i])
        <3>1. matchIndex'[i] = Matched(i, r)
            BY <1>1, <2>3 DEF TypeOK, LeaderTypes
        <3> QED
            BY <1>1, <1>4, <2>3, <3>1, updateCommitType
    <2> QED
        BY <2>1, <2>2, <2>3 DEF AppendReply
<1> QED
    BY <1>2, <1>3, <1>5, <1>6, <1>7 DEF TypeOK

LEMMA SnapReplyType ==
    ASSUME TypeOK, NEW r \in isRep, SnapReply(r)
    PROVE  TypeOK'
<1>1. r.from \in Server /\ r.to \in Server /\ r.Term \in Nat
    BY DEF TypeOK, AppendNetTypes, SnapAnswer
<1>2. ElectTypes' /\ VoteNetTypes' /\ ServiceTypes' /\ OtherTypes'
    BY SameTypes DEF SnapReply
<1>3. AppendNetTypes'
    BY DEF SnapReply, TypeOK, AppendNetTypes
<1>4. TermTypes' /\ LogTypes' /\ DiskTypes'
    BY <1>1, StepDownType, SameTypes DEF SnapReply
<1>5. LeaderTypes'
    <2>1. CASE UNCHANGED leaderVars
        BY <2>1, SameTypes
    <2>2. CASE nextIndex' = [nextIndex EXCEPT ![r.from][r.to] = 1] /\ UNCHANGED <<matchIndex, startAppend>>
        BY <1>1, <2>2, SMT DEF TypeOK, LeaderTypes
    <2> QED
        BY <2>1, <2>2 DEF SnapReply
<1> QED
    BY <1>2, <1>3, <1>4, <1>5 DEF TypeOK

(* The follower's side of replication keeps the types. *)
LEMMA AcceptLeaderType ==
    ASSUME TypeOK, NEW i \in Server, NEW t \in Nat, AcceptLeader(i, t)
    PROVE  TermTypes'
BY DEF AcceptLeader, termUpdate, TypeOK, TermTypes, Follower

(* What AppendEntries leaves in the log is a log. *)
LEMMA MergedLogType ==
    ASSUME TypeOK, NEW m \in aeReq, PrevMatches(m.to, m)
    PROVE  MergedLog(m.to, m) \in Seq(Entry)
<1> DEFINE i == m.to
           p == PrevPosition(i, m)
<1>1. i \in Server /\ m.Entries \in Seq(Entry) /\ m.PrevLogIndex \in Nat
    BY DEF TypeOK, AppendNetTypes, AppendRequest
<1>2. log[i] \in Seq(Entry) /\ Len(log[i]) \in Nat /\ Len(m.Entries) \in Nat /\ p \in Int
    BY <1>1, LenProperties, SMT DEF TypeOK, LogTypes, PrevPosition
<1>3. CASE AlreadyHave(i, m)
    BY <1>2, <1>3 DEF MergedLog
<1>4. CASE ~AlreadyHave(i, m) /\ p > 0
    <2>1. p <= Len(log[i])
        BY <1>4 DEF PrevMatches
    <2>2. \A k \in 1 .. p : log[i][k] \in Entry
        BY <1>2, <2>1, EntryTerm, SMT
    <2>3. SubSeq(log[i], 1, p) \in Seq(Entry)
        BY <1>2, <2>2, SubSeqProperties, SMT
    <2>4. SubSeq(log[i], 1, p) \o m.Entries \in Seq(Entry)
        BY <1>1, <2>3, ConcatProperties
    <2> QED
        BY <1>4, <2>4 DEF MergedLog
<1>5. CASE ~AlreadyHave(i, m) /\ ~(p > 0)
    <2>1. 1 - p \in Int /\ 1 - p >= 1
        BY <1>2, <1>5, SMT
    <2>2. \A k \in 1 - p .. Len(m.Entries) : m.Entries[k] \in Entry
        BY <1>1, <1>2, <2>1, EntryTerm, SMT
    <2>3. SubSeq(m.Entries, 1 - p, Len(m.Entries)) \in Seq(Entry)
        BY <1>2, <2>1, <2>2, SubSeqProperties, SMT
    <2> QED
        BY <1>5, <2>3 DEF MergedLog
<1> QED
    BY <1>3, <1>4, <1>5

(* An answer of the right type leaves the network well typed. *)
LEMMA AnswerCallType ==
    ASSUME TypeOK, NEW m, NEW app \in SUBSET AppendAnswer, NEW inst \in SUBSET SnapAnswer,
           AnswerCall(m, app, inst), aeReq' \subseteq aeReq, isReq' \subseteq isReq
    PROVE  AppendNetTypes'
<1>1. aeRep' \subseteq aeRep \cup app /\ isRep' \subseteq isRep \cup inst
    BY DEF AnswerCall
<1> QED
    BY <1>1 DEF TypeOK, AppendNetTypes

LEMMA AppendEntriesReplyType ==
    ASSUME TypeOK, NEW m \in aeReq, NEW success \in BOOLEAN, NEW miss \in BOOLEAN,
           NEW len \in Nat, NEW conflict \in Nat, NEW start \in Nat,
           AppendEntriesReply(m, success, miss, len, conflict, start),
           aeReq' \subseteq aeReq, isReq' \subseteq isReq
    PROVE  AppendNetTypes'
<1> DEFINE answer == [from |-> m.from, to |-> m.to, termTemp |-> m.Term,
                      PrevLogIndex |-> m.PrevLogIndex, Count |-> Len(m.Entries), Term |-> currentTerm[m.to],
                      Success |-> success, Miss |-> miss, Len |-> len,
                      TermConflict |-> conflict, TermStart |-> start]
<1>1. /\ m.from \in Server /\ m.to \in Server /\ m.Term \in Nat /\ m.PrevLogIndex \in Nat
      /\ m.Entries \in Seq(Entry)
    BY DEF TypeOK, AppendNetTypes, AppendRequest
<1>2. Len(m.Entries) \in Nat /\ currentTerm[m.to] \in Nat
    BY <1>1, LenProperties DEF TypeOK, TermTypes
<1>3. answer \in AppendAnswer
    BY <1>1, <1>2 DEF AppendAnswer
<1>4. AnswerCall(m, {answer}, {})
    BY DEF AppendEntriesReply
<1> HIDE DEF answer
<1> QED
    BY <1>3, <1>4, AnswerCallType, SMT

LEMMA AppendEntriesType ==
    ASSUME TypeOK, NEW m \in aeReq, AppendEntries(m)
    PROVE  TypeOK'
<1> DEFINE i == m.to
           p == PrevPosition(i, m)
<1>1. i \in Server /\ m.Term \in Nat /\ m.LeaderCommit \in Nat /\ p \in Int
    BY SMT DEF TypeOK, AppendNetTypes, AppendRequest, PrevPosition, LogTypes
<1>2. LeaderTypes' /\ ElectTypes' /\ VoteNetTypes' /\ OtherTypes'
    BY SameTypes DEF AppendEntries
<1>3. aeReq' \subseteq aeReq /\ isReq' \subseteq isReq
    BY DEF AppendEntries
<1>4. CASE AppendEntriesStale(m)
    <2>1. TermTypes' /\ LogTypes' /\ DiskTypes' /\ ServiceTypes'
        BY <1>4, SameTypes DEF AppendEntriesStale
    <2>2. AppendNetTypes'
        BY <1>3, <1>4, AppendEntriesReplyType DEF AppendEntriesStale
    <2> QED
        BY <1>2, <2>1, <2>2 DEF TypeOK
<1>5. CASE AppendEntriesReject(m)
    <2>1. TermTypes'
        BY <1>1, <1>5, AcceptLeaderType DEF AppendEntriesReject
    <2>2. LogTypes' /\ ServiceTypes'
        BY <1>5, SameTypes DEF AppendEntriesReject
    <2>3. DiskTypes'
        BY <1>1, <1>5, <2>1, <2>2, persistType DEF AppendEntriesReject, TypeOK, DiskTypes
    <2>4. AppendNetTypes'
        <3>1. CASE p > Len(log[i])
            <4>1. LastLogIndex(i) + 1 \in Nat
                BY <1>1, LastType, SMT
            <4>2. AppendEntriesReply(m, FALSE, TRUE, LastLogIndex(i) + 1, 0, 0)
                BY <1>5, <3>1 DEF AppendEntriesReject
            <4> QED
                BY <1>3, <4>1, <4>2, AppendEntriesReplyType
        <3>2. CASE ~(p > Len(log[i]))
            <4>1. log[i] \in Seq(Entry) /\ snapshotIndex[i] \in Nat /\ Len(log[i]) \in Nat
                BY <1>1, LenProperties DEF TypeOK, LogTypes
            <4>2. p > 0
                BY <1>5 DEF AppendEntriesReject, PrevMatches
            <4>3. p \in 1 .. Len(log[i]) /\ p \in Nat
                BY <1>1, <3>2, <4>1, <4>2, SMTT(30)
            <4>4. log[i][p].Term \in Nat /\ findEntry(log[i], p) + snapshotIndex[i] \in Nat
                <5> HIDE DEF p
                <5>1. findEntry(log[i], p) \in 0 .. p
                    BY <4>1, <4>3, findEntryType
                <5>2. log[i][p].Term \in Nat
                    BY <4>1, <4>3, EntryTerm
                <5> QED
                    BY <4>1, <4>3, <5>1, <5>2, SMT
            <4>5. AppendEntriesReply(m, FALSE, FALSE, 0, log[i][p].Term, findEntry(log[i], p) + snapshotIndex[i])
                BY <1>5, <3>2 DEF AppendEntriesReject
            <4> QED
                BY <1>3, <4>4, <4>5, AppendEntriesReplyType
        <3> QED
            BY <3>1, <3>2
    <2> QED
        BY <1>2, <2>1, <2>2, <2>3, <2>4 DEF TypeOK
<1>6. CASE AppendEntriesAccept(m)
    <2> DEFINE merged == MergedLog(i, m)
               end == Len(merged) + snapshotIndex[i]
               new == IF m.LeaderCommit <= commitIndex[i] THEN commitIndex[i]
                      ELSE IF m.LeaderCommit <= end THEN m.LeaderCommit ELSE end
    <2>1. TermTypes'
        BY <1>1, <1>6, AcceptLeaderType DEF AppendEntriesAccept
    <2>2. merged \in Seq(Entry)
        BY <1>6, MergedLogType DEF AppendEntriesAccept
    <2>3. LogTypes'
        <3> HIDE DEF merged
        <3> QED
            BY <1>1, <1>6, <2>2 DEF AppendEntriesAccept, TypeOK, LogTypes, merged
    <2>4. DiskTypes'
        BY <1>1, <1>6, <2>1, <2>3, persistType DEF AppendEntriesAccept, TypeOK, DiskTypes
    <2>5. end \in Nat /\ commitIndex[i] \in Nat
        <3> HIDE DEF merged
        <3> QED
            BY <1>1, <2>2, LenProperties, SMT DEF TypeOK, LogTypes, ServiceTypes
    <2>6. new \in Nat
        <3> HIDE DEF merged, end
        <3> QED
            BY <1>1, <2>5
    <2>7. ServiceTypes'
        <3>1. /\ commitIndex' = [commitIndex EXCEPT ![i] = new]
              /\ Apply(i, m.Term, CommandMsgs(merged, snapshotIndex[i], commitIndex[i] + 1, new, 2))
            BY <1>6 DEF AppendEntriesAccept
        <3> HIDE DEF merged, new
        <3> QED
            BY <1>1, <2>5, <2>6, <3>1, ApplyType
    <2>8. AppendNetTypes'
        BY <1>3, <1>6, AppendEntriesReplyType DEF AppendEntriesAccept
    <2> QED
        BY <1>2, <2>1, <2>3, <2>4, <2>7, <2>8 DEF TypeOK
<1> QED
    BY <1>4, <1>5, <1>6 DEF AppendEntries

(* Log compaction keeps the types. *)
LEMMA SuffixType ==
    ASSUME NEW l \in Seq(Entry), NEW k \in Nat \ {0}
    PROVE  SubSeq(l, k, Len(l)) \in Seq(Entry)
<1>1. Len(l) \in Nat
    BY LenProperties
<1>2. Len(l) \in Int /\ k \in Int /\ k >= 1
    BY <1>1, SMT
<1>3. ASSUME NEW j \in k .. Len(l) PROVE l[j] \in Entry
    <2>1. j \in 1 .. Len(l)
        BY <1>2, SMT
    <2> QED
        BY <2>1, ElementOfSeq
<1> QED
    BY <1>2, <1>3, SubSeqProperties

LEMMA InstallSnapshotType ==
    ASSUME TypeOK, NEW m \in isReq, InstallSnapshot(m)
    PROVE  TypeOK'
<1> DEFINE i == m.to
<1>1. /\ i \in Server /\ m.from \in Server /\ m.Term \in Nat /\ m.termTemp \in Nat
      /\ m.LastIncludedIndex \in Nat /\ m.LastIncludedTerm \in Nat /\ m.Data \in SnapFile
    BY DEF TypeOK, AppendNetTypes, SnapRequest
<1>2. LeaderTypes' /\ ElectTypes' /\ VoteNetTypes' /\ OtherTypes'
    BY SameTypes DEF InstallSnapshot
<1>3. AppendNetTypes'
    <2>1. [from |-> m.from, to |-> i, termTemp |-> m.termTemp, Term |-> currentTerm[i]] \in SnapAnswer
        BY <1>1 DEF SnapAnswer, TypeOK, TermTypes
    <2> QED
        BY <2>1, AnswerCallType DEF InstallSnapshot, InstallSnapshotReply
<1>4. CASE UNCHANGED <<termVars, logVars, diskVars, serviceVars>>
    BY <1>2, <1>3, <1>4, SameTypes DEF TypeOK
<1>5. CASE /\ AcceptLeader(i, m.Term) /\ UNCHANGED logVars /\ UNCHANGED <<snapshot, serviceVars>>
           /\ IF m.Term > currentTerm[i] THEN persist(i) ELSE UNCHANGED raftstate
    <2>1. TermTypes' /\ LogTypes' /\ ServiceTypes'
        BY <1>1, <1>5, AcceptLeaderType, SameTypes
    <2>2. DiskTypes'
        BY <1>1, <1>5, <2>1, persistType DEF TypeOK, DiskTypes
    <2> QED
        BY <1>2, <1>3, <2>1, <2>2 DEF TypeOK
<1>6. CASE m.LastIncludedIndex > snapshotIndex[i] /\ AcceptLeader(i, m.Term) /\ Install(i, m)
    <2>1. TermTypes'
        BY <1>1, <1>6, AcceptLeaderType
    <2>2. LogAfterSnapshot(i, m.LastIncludedIndex, m.LastIncludedTerm) \in Seq(Entry)
        <3>1. log[i] \in Seq(Entry) /\ m.LastIncludedIndex - snapshotIndex[i] + 1 \in Nat \ {0}
            <4>1. log[i] \in Seq(Entry) /\ snapshotIndex[i] \in Nat
                BY <1>1 DEF TypeOK, LogTypes
            <4>2. m.LastIncludedIndex > snapshotIndex[i]
                BY <1>6
            <4> QED
                BY <1>1, <4>1, <4>2, SMTT(30)
        <3> QED
            BY <3>1, SuffixType, SMT DEF LogAfterSnapshot
    <2>3. LogTypes'
        BY <1>1, <1>6, <2>2 DEF Install, TypeOK, LogTypes
    <2>4. DiskTypes'
        BY <1>1, <1>6, <2>1, <2>3, persistType DEF Install, TypeOK, DiskTypes
    <2>5. ServiceTypes'
        BY <1>1, <1>6 DEF Install, TypeOK, ServiceTypes, SnapFile
    <2> QED
        BY <1>2, <1>3, <2>1, <2>3, <2>4, <2>5 DEF TypeOK
<1> QED
    BY <1>4, <1>5, <1>6 DEF InstallSnapshot

LEMMA OfferSnapshotType ==
    ASSUME TypeOK, NEW i \in Server, OfferSnapshot(i)
    PROVE  TypeOK'
<1>1. TermTypes' /\ LogTypes' /\ LeaderTypes' /\ DiskTypes' /\ ElectTypes' /\ VoteNetTypes' /\ AppendNetTypes' /\ ServiceTypes'
    BY SameTypes DEF OfferSnapshot
<1>2. OtherTypes'
    BY DEF OfferSnapshot, TypeOK, OtherTypes, ServiceTypes
<1> QED
    BY <1>1, <1>2 DEF TypeOK

LEMMA persistV2Type ==
    ASSUME TypeOK, NEW i \in Server, persistV2(i)
    PROVE  TypeOK'
<1> DEFINE last == Ss[i]
           p == last - snapshotIndex[i]
<1>1. last \in Nat /\ p \in Int /\ log[i] \in Seq(Entry) /\ Len(log[i]) \in Nat
    <2>1. last \in Nat /\ snapshotIndex[i] \in Nat /\ log[i] \in Seq(Entry)
        BY DEF TypeOK, OtherTypes, LogTypes
    <2>2. Len(log[i]) \in Nat
        BY <2>1, LenProperties
    <2> QED
        BY <2>1, <2>2, SMT
<1>2. ElectTypes' /\ VoteNetTypes' /\ AppendNetTypes' /\ ServiceTypes'
    BY SameTypes DEF persistV2
<1>3. OtherTypes'
    BY DEF persistV2, TypeOK, OtherTypes
<1>4. CASE p <= 0 \/ p > Len(log[i])
    <2>1. UNCHANGED <<termVars, logVars, leaderVars, diskVars>>
        BY <1>4 DEF persistV2, leaderVars
    <2> QED
        BY <1>2, <1>3, <2>1, SameTypes DEF TypeOK
<1>5. CASE ~(p <= 0 \/ p > Len(log[i]))
    <2>1. p \in 1 .. Len(log[i]) /\ p + 1 \in Nat \ {0}
        BY <1>1, <1>5, SMT
    <2>2. log[i][p].Term \in Nat /\ SubSeq(log[i], p + 1, Len(log[i])) \in Seq(Entry)
        BY <1>1, <2>1, EntryTerm, SuffixType
    <2>3. TermTypes'
        BY <1>5, SameTypes DEF persistV2
    <2>4. LogTypes'
        BY <1>1, <1>5, <2>2 DEF persistV2, TypeOK, LogTypes
    <2>5. DiskTypes'
        <3>1. persist(i) /\ snapshot' = [snapshot EXCEPT ![i] = [LastIndex |-> last, LastTerm |-> log[i][p].Term]]
            BY <1>5 DEF persistV2
        <3>2. raftstate' \in [Server -> RaftState]
            BY <2>3, <2>4, <3>1, persistType
        <3>3. [LastIndex |-> last, LastTerm |-> log[i][p].Term] \in SnapFile
            BY <1>1, <2>2 DEF SnapFile
        <3> QED
            BY <3>1, <3>2, <3>3 DEF TypeOK, DiskTypes
    <2>6. LeaderTypes'
        <3>1. ShiftedNext(i, p) \in [Server -> Int]
            BY <1>1, SMTT(30) DEF ShiftedNext, TypeOK, LeaderTypes
        <3> QED
            BY <1>5, <3>1 DEF persistV2, TypeOK, LeaderTypes
    <2> QED
        BY <1>2, <1>3, <2>3, <2>4, <2>5, <2>6 DEF TypeOK
<1> QED
    BY <1>4, <1>5

LEMMA LoseCallType ==
    ASSUME TypeOK, NEW x, LoseCall(x)
    PROVE  TypeOK'
<1>1. TermTypes' /\ LogTypes' /\ LeaderTypes' /\ DiskTypes' /\ ElectTypes' /\ VoteNetTypes' /\ ServiceTypes' /\ OtherTypes'
    BY SameTypes DEF LoseCall
<1>2. AppendNetTypes'
    BY DEF LoseCall, TypeOK, AppendNetTypes
<1> QED
    BY <1>1, <1>2 DEF TypeOK

(* A restart from a disk of the right type keeps the types. *)
LEMMA RestartType ==
    ASSUME TypeOK, NEW i \in Server, NEW disk \in RaftState, NEW handled, Restart(i, disk, handled)
    PROVE  TypeOK'
<1>1. /\ disk.currentTerm \in Nat /\ disk.votedFor \in Server \cup {Nil} /\ disk.log \in Seq(Entry)
      /\ Len(disk.log) \in Nat /\ snapshot[i].LastIndex \in Nat /\ snapshot[i].LastTerm \in Nat
    BY LenProperties DEF RaftState, TypeOK, DiskTypes, SnapFile
<1>2. TermTypes'
    BY <1>1 DEF Restart, TypeOK, TermTypes, Follower
<1>3. LogTypes'
    BY <1>1 DEF Restart, TypeOK, LogTypes
<1>4. LeaderTypes'
    <2> DEFINE next == [j \in Server |-> Len(disk.log) + 1]
               match == [j \in Server |-> IF j = i THEN Len(disk.log) ELSE 0]
    <2>1. next \in [Server -> Int] /\ match \in [Server -> Nat]
        BY <1>1, SMT
    <2>2. /\ nextIndex' = [nextIndex EXCEPT ![i] = next]
          /\ matchIndex' = [matchIndex EXCEPT ![i] = match]
          /\ startAppend' = [startAppend EXCEPT ![i] = FALSE]
        BY DEF Restart
    <2> HIDE DEF next, match
    <2>3. nextIndex \in [Server -> [Server -> Int]] /\ matchIndex \in [Server -> [Server -> Nat]] /\ startAppend \in [Server -> BOOLEAN]
        BY DEF TypeOK, LeaderTypes
    <2> QED
        BY <2>1, <2>2, <2>3 DEF LeaderTypes
<1>5. DiskTypes'
    BY <1>2, <1>3, persistType DEF Restart, TypeOK, DiskTypes
<1>6. ElectTypes'
    BY DEF Restart, TypeOK, ElectTypes
<1>7. VoteNetTypes'
    <2>1. \A m \in rvReq : [m EXCEPT !.live = FALSE] \in VoteRequest
        BY DEF TypeOK, VoteNetTypes, VoteRequest
    <2> QED
        BY <2>1 DEF Restart, Orphans, NotTo, TypeOK, VoteNetTypes
<1>8. AppendNetTypes'
    <2>1. \A m \in aeReq : [m EXCEPT !.live = FALSE] \in AppendRequest
        BY DEF TypeOK, AppendNetTypes, AppendRequest
    <2>2. \A m \in isReq : [m EXCEPT !.live = FALSE] \in SnapRequest
        BY DEF TypeOK, AppendNetTypes, SnapRequest
    <2> QED
        BY <2>1, <2>2 DEF Restart, Orphans, NotTo, TypeOK, AppendNetTypes
<1>9. ServiceTypes'
    BY <1>1 DEF Restart, TypeOK, ServiceTypes
<1>10. OtherTypes'
    BY SMTT(30) DEF Restart, TypeOK, OtherTypes
<1> QED
    BY <1>2, <1>3, <1>4, <1>5, <1>6, <1>7, <1>8, <1>9, <1>10 DEF TypeOK

(* So do the crashes between two writes of a handler. *)
LEMMA CrashType ==
    ASSUME TypeOK
    PROVE  /\ \A i \in Server : Make(i) => TypeOK'
           /\ \A m \in rvReq \cup aeReq \cup isReq : CrashAfterTermUpdate(m) => TypeOK'
           /\ \A m \in isReq : CrashInInstall(m) => TypeOK'
<1>1. ASSUME NEW i \in Server, Make(i) PROVE TypeOK'
    <2>1. raftstate[i] \in RaftState
        BY DEF TypeOK, DiskTypes
    <2> QED
        BY <1>1, <2>1, RestartType DEF Make
<1>2. ASSUME NEW m \in rvReq \cup aeReq \cup isReq, CrashAfterTermUpdate(m) PROVE TypeOK'
    <2>1. m.to \in Server /\ m.Term \in Nat
        BY DEF TypeOK, VoteNetTypes, AppendNetTypes, VoteRequest, AppendRequest, SnapRequest
    <2>2. [raftstate[m.to] EXCEPT !.currentTerm = m.Term, !.votedFor = Nil] \in RaftState
        BY <2>1 DEF TypeOK, DiskTypes, RaftState
    <2> QED
        BY <1>2, <2>1, <2>2, RestartType DEF CrashAfterTermUpdate
<1>3. ASSUME NEW m \in isReq, CrashInInstall(m) PROVE TypeOK'
    <2> DEFINE disk == [currentTerm |-> m.Term, log |-> << >>,
                        votedFor |-> IF m.Term > currentTerm[m.to] THEN Nil ELSE votedFor[m.to]]
    <2>1. m.to \in Server /\ m.Term \in Nat
        BY DEF TypeOK, AppendNetTypes, SnapRequest
    <2>2. disk \in RaftState
        BY <2>1, SMTT(30) DEF TypeOK, TermTypes, RaftState
    <2>3. Restart(m.to, disk, {m})
        BY <1>3 DEF CrashInInstall
    <2> HIDE DEF disk
    <2> QED
        BY <2>1, <2>2, <2>3, RestartType
<1> QED
    BY <1>1, <1>2, <1>3

(* Every step keeps the types. *)
LEMMA TypeStep == TypeOK /\ [Next]_vars => TypeOK'
<1> SUFFICES ASSUME TypeOK, [Next]_vars PROVE TypeOK'
    OBVIOUS
<1>1. CASE UNCHANGED vars
    BY <1>1, SameTypes DEF vars, TypeOK
<1>2. CASE Next
    BY <1>2, startElectionType, sendRequestVoteType, RequestVoteType, VoteReplyType, ElectionCheckType,
       BecomeLeaderType, StartNoopType, StartType, SpawnInstallType, sendAppendEntriesType, sendSnapShotType,
       AppendEntriesType, AppendReplyType, InstallSnapshotType, SnapReplyType, LoseCallType, OfferSnapshotType,
       persistV2Type, CrashType
       DEF Next
<1> QED
    BY <1>1, <1>2

(* Spec keeps every variable in its type. *)
THEOREM TypeCorrect == Spec => []TypeOK
BY TypeInit, TypeStep, PTL DEF Spec

-----------------------------------------------------------------------------
(* The Persister *)

(* Nothing that concerns the disk changes. *)
LEMMA DurableSame ==
    ASSUME Durable,
           UNCHANGED <<currentTerm, votedFor, log, snapshotIndex, snapshotTerm, raftstate, snapshot>>
    PROVE  Durable'
BY DEF Durable

(* A peer calls persist(), the others keep their state. *)
LEMMA DurablePersist ==
    ASSUME TypeOK, Durable, NEW i \in Server, persist(i),
           UNCHANGED <<snapshotIndex, snapshotTerm, snapshot>>,
           \A j \in Server \ {i} : currentTerm'[j] = currentTerm[j] /\ votedFor'[j] = votedFor[j] /\ log'[j] = log[j]
    PROVE  Durable'
<1>1. \A j \in Server \ {i} : raftstate'[j] = raftstate[j]
    BY DEF persist, TypeOK, DiskTypes
<1>2. raftstate'[i] = [currentTerm |-> currentTerm'[i], votedFor |-> votedFor'[i], log |-> log'[i]]
    BY DEF persist, TypeOK, DiskTypes
<1>3. \A j \in Server : raftstate'[j] = [currentTerm |-> currentTerm'[j], votedFor |-> votedFor'[j], log |-> log'[j]]
    BY <1>1, <1>2 DEF Durable
<1> QED
    BY <1>3 DEF Durable

(* A peer calls persist() and replaces its snapshot. *)
LEMMA DurableSnapshot ==
    ASSUME TypeOK, Durable, NEW i \in Server, NEW last, NEW lastTerm, persist(i),
           snapshotIndex' = [snapshotIndex EXCEPT ![i] = last],
           snapshotTerm' = [snapshotTerm EXCEPT ![i] = lastTerm],
           snapshot' = [snapshot EXCEPT ![i] = [LastIndex |-> last, LastTerm |-> lastTerm]],
           \A j \in Server \ {i} : currentTerm'[j] = currentTerm[j] /\ votedFor'[j] = votedFor[j] /\ log'[j] = log[j]
    PROVE  Durable'
<1>1. \A j \in Server \ {i} : raftstate'[j] = raftstate[j]
    BY DEF persist, TypeOK, DiskTypes
<1>2. raftstate'[i] = [currentTerm |-> currentTerm'[i], votedFor |-> votedFor'[i], log |-> log'[i]]
    BY DEF persist, TypeOK, DiskTypes
<1>3. \A j \in Server : raftstate'[j] = [currentTerm |-> currentTerm'[j], votedFor |-> votedFor'[j], log |-> log'[j]]
    BY <1>1, <1>2 DEF Durable
<1>4. \A j \in Server : snapshot'[j] = [LastIndex |-> snapshotIndex'[j], LastTerm |-> snapshotTerm'[j]]
    BY DEF Durable, TypeOK, DiskTypes, LogTypes
<1> QED
    BY <1>3, <1>4 DEF Durable

(* termUpdate changes one peer. *)
LEMMA OnePeer ==
    ASSUME TypeOK, NEW i \in Server, NEW t, termUpdate(i, t) \/ AcceptLeader(i, t)
    PROVE  \A j \in Server \ {i} : currentTerm'[j] = currentTerm[j] /\ votedFor'[j] = votedFor[j] /\ tp'[j] = tp[j]
BY DEF TypeOK, TermTypes, termUpdate, AcceptLeader

LEMMA StepDownDurable ==
    ASSUME TypeOK, Durable, NEW i \in Server, NEW t, StepDown(i, t)
    PROVE  Durable'
BY OnePeer, DurablePersist DEF StepDown, logVars

LEMMA AppendToLogDurable ==
    ASSUME TypeOK, Durable, NEW i \in Server, NEW c, AppendToLog(i, c)
    PROVE  Durable'
<1>1. \A j \in Server \ {i} : log'[j] = log[j]
    BY DEF AppendToLog, TypeOK, LogTypes
<1> QED
    BY <1>1, DurablePersist DEF AppendToLog, termVars

LEMMA RestartDurable ==
    ASSUME TypeOK, Durable, NEW i \in Server, NEW disk, NEW handled, Restart(i, disk, handled)
    PROVE  Durable'
<1>1. \A j \in Server \ {i} : currentTerm'[j] = currentTerm[j] /\ votedFor'[j] = votedFor[j] /\ log'[j] = log[j]
    BY DEF Restart, TypeOK, TermTypes, LogTypes
<1>2. snapshot[i] = [LastIndex |-> snapshotIndex[i], LastTerm |-> snapshotTerm[i]]
    BY DEF Durable
<1>3. UNCHANGED <<snapshotIndex, snapshotTerm, snapshot>>
    <2>1. snapshot[i].LastIndex = snapshotIndex[i] /\ snapshot[i].LastTerm = snapshotTerm[i]
        BY <1>2, SMT
    <2> QED
        BY <2>1 DEF Restart, TypeOK, LogTypes
<1> QED
    BY <1>1, <1>3, DurablePersist DEF Restart

(* AppendEntries persists whenever it changes the term or the log. *)
LEMMA AppendEntriesDurable ==
    ASSUME TypeOK, Durable, NEW m \in aeReq, AppendEntries(m)
    PROVE  Durable'
<1> DEFINE i == m.to
<1>1. i \in Server
    BY DEF TypeOK, AppendNetTypes, AppendRequest
<1>2. CASE AppendEntriesStale(m)
    BY <1>2, DurableSame DEF AppendEntriesStale, termVars, logVars, diskVars
<1>3. CASE AppendEntriesReject(m)
    <2>1. \A j \in Server \ {i} : currentTerm'[j] = currentTerm[j] /\ votedFor'[j] = votedFor[j]
        BY <1>1, <1>3, OnePeer DEF AppendEntriesReject
    <2>2. UNCHANGED <<log, snapshotIndex, snapshotTerm, snapshot>>
        BY <1>3 DEF AppendEntriesReject, logVars
    <2>3. CASE persist(i)
        BY <1>1, <2>1, <2>2, <2>3, DurablePersist
    <2>4. CASE ~(m.Term > currentTerm[i])
        BY <1>3, <2>2, <2>4, DurableSame DEF AppendEntriesReject, AcceptLeader
    <2> QED
        BY <1>3, <2>3, <2>4 DEF AppendEntriesReject
<1>4. CASE AppendEntriesAccept(m)
    <2>1. \A j \in Server \ {i} : currentTerm'[j] = currentTerm[j] /\ votedFor'[j] = votedFor[j]
        BY <1>1, <1>4, OnePeer DEF AppendEntriesAccept
    <2>2. UNCHANGED <<snapshotIndex, snapshotTerm, snapshot>> /\ log' = [log EXCEPT ![i] = MergedLog(i, m)]
        BY <1>4 DEF AppendEntriesAccept
    <2>3. \A j \in Server \ {i} : log'[j] = log[j]
        BY <2>2 DEF TypeOK, LogTypes
    <2>4. CASE persist(i)
        BY <1>1, <2>1, <2>2, <2>3, <2>4, DurablePersist
    <2>5. CASE ~(m.Term > currentTerm[i]) /\ AlreadyHave(i, m) /\ UNCHANGED raftstate
        <3>1. UNCHANGED <<currentTerm, votedFor>>
            BY <1>4, <2>5 DEF AppendEntriesAccept, AcceptLeader
        <3>2. UNCHANGED log
            BY <1>1, <2>2, <2>5 DEF MergedLog, TypeOK, LogTypes
        <3> QED
            BY <2>2, <2>5, <3>1, <3>2, DurableSame
    <2> QED
        BY <1>4, <2>4, <2>5 DEF AppendEntriesAccept
<1> QED
    BY <1>2, <1>3, <1>4 DEF AppendEntries

LEMMA InstallSnapshotDurable ==
    ASSUME TypeOK, DurableInv, NEW m \in isReq, InstallSnapshot(m)
    PROVE  Durable'
<1> DEFINE i == m.to
<1>1. i \in Server /\ Durable
    BY DEF TypeOK, AppendNetTypes, SnapRequest, DurableInv
<1>2. CASE UNCHANGED <<termVars, logVars, diskVars, serviceVars>>
    BY <1>1, <1>2, DurableSame DEF termVars, logVars, diskVars
<1>3. CASE /\ AcceptLeader(i, m.Term) /\ UNCHANGED logVars /\ UNCHANGED <<snapshot, serviceVars>>
           /\ IF m.Term > currentTerm[i] THEN persist(i) ELSE UNCHANGED raftstate
    <2>1. \A j \in Server \ {i} : currentTerm'[j] = currentTerm[j] /\ votedFor'[j] = votedFor[j]
        BY <1>1, <1>3, OnePeer
    <2>2. UNCHANGED <<log, snapshotIndex, snapshotTerm, snapshot>>
        BY <1>3 DEF logVars
    <2>3. CASE persist(i)
        BY <1>1, <2>1, <2>2, <2>3, DurablePersist
    <2>4. CASE ~(m.Term > currentTerm[i])
        BY <1>1, <1>3, <2>2, <2>4, DurableSame DEF AcceptLeader
    <2> QED
        BY <1>3, <2>3, <2>4
<1>4. CASE AcceptLeader(i, m.Term) /\ Install(i, m)
    <2>1. \A j \in Server \ {i} : currentTerm'[j] = currentTerm[j] /\ votedFor'[j] = votedFor[j]
        BY <1>1, <1>4, OnePeer
    <2>2. \A j \in Server \ {i} : log'[j] = log[j]
        BY <1>4 DEF Install, TypeOK, LogTypes
    <2>3. m.Data = [LastIndex |-> m.LastIncludedIndex, LastTerm |-> m.LastIncludedTerm]
        BY DEF DurableInv, SnapshotsLabelled
    <2>4. /\ persist(i) /\ snapshotIndex' = [snapshotIndex EXCEPT ![i] = m.LastIncludedIndex]
          /\ snapshotTerm' = [snapshotTerm EXCEPT ![i] = m.LastIncludedTerm]
          /\ snapshot' = [snapshot EXCEPT ![i] = [LastIndex |-> m.LastIncludedIndex, LastTerm |-> m.LastIncludedTerm]]
        BY <1>4, <2>3 DEF Install
    <2> QED
        BY <1>1, <2>1, <2>2, <2>4, DurableSnapshot
<1> QED
    BY <1>2, <1>3, <1>4 DEF InstallSnapshot

LEMMA persistV2Durable ==
    ASSUME TypeOK, Durable, NEW i \in Server, persistV2(i)
    PROVE  Durable'
<1> DEFINE last == Ss[i]
           p == last - snapshotIndex[i]
<1>1. CASE UNCHANGED <<termVars, logVars, nextIndex, diskVars>>
    BY <1>1, DurableSame DEF termVars, logVars, diskVars
<1>2. CASE ~(p <= 0 \/ p > Len(log[i]))
    <2>1. /\ persist(i) /\ UNCHANGED termVars
          /\ log' = [log EXCEPT ![i] = SubSeq(@, p + 1, Len(@))]
          /\ snapshotIndex' = [snapshotIndex EXCEPT ![i] = last]
          /\ snapshotTerm' = [snapshotTerm EXCEPT ![i] = log[i][p].Term]
          /\ snapshot' = [snapshot EXCEPT ![i] = [LastIndex |-> last, LastTerm |-> log[i][p].Term]]
        BY <1>2 DEF persistV2
    <2>2. \A j \in Server \ {i} : currentTerm'[j] = currentTerm[j] /\ votedFor'[j] = votedFor[j] /\ log'[j] = log[j]
        BY <2>1 DEF termVars, TypeOK, LogTypes
    <2> QED
        BY <2>1, <2>2, DurableSnapshot
<1> QED
    BY <1>1, <1>2 DEF persistV2

LEMMA RequestVoteDurable ==
    ASSUME TypeOK, Durable, NEW m \in rvReq, RequestVote(m)
    PROVE  Durable'
<1> DEFINE i == m.to
<1>1. i \in Server
    BY DEF TypeOK, VoteNetTypes, VoteRequest
<1>2. UNCHANGED <<log, snapshotIndex, snapshotTerm, snapshot>>
    BY DEF RequestVote, logVars
<1>3. \A j \in Server \ {i} : currentTerm'[j] = currentTerm[j] /\ votedFor'[j] = votedFor[j]
    BY DEF RequestVote, TypeOK, TermTypes
<1>4. CASE persist(i)
    BY <1>1, <1>2, <1>3, <1>4, DurablePersist
<1>5. CASE ~(m.Term > currentTerm[i]) /\ ~Grants(i, m)
    <2>1. UNCHANGED <<currentTerm, votedFor, raftstate>>
        BY <1>1, <1>5 DEF RequestVote, TypeOK, TermTypes
    <2> QED
        BY <1>2, <2>1, DurableSame
<1> QED
    BY <1>4, <1>5 DEF RequestVote

LEMMA startElectionDurable ==
    ASSUME TypeOK, Durable, NEW i \in Server, startElection(i)
    PROVE  Durable'
<1>1. \A j \in Server \ {i} : currentTerm'[j] = currentTerm[j] /\ votedFor'[j] = votedFor[j]
    BY DEF startElection, TypeOK, TermTypes
<1> QED
    BY <1>1, DurablePersist DEF startElection, logVars

(* Every step keeps the Persister up to date. *)
LEMMA DurableStep == TypeOK /\ DurableInv /\ [Next]_vars => Durable'
<1> SUFFICES ASSUME TypeOK, DurableInv, [Next]_vars PROVE Durable'
    OBVIOUS
<1> Durable
    BY DEF DurableInv
<1>1. CASE UNCHANGED <<termVars, logVars, diskVars>>
    BY <1>1, DurableSame DEF termVars, logVars, diskVars
<1>2. ASSUME NEW i \in Server, startElection(i) PROVE Durable'
    BY <1>2, startElectionDurable
<1>3. ASSUME NEW m \in rvReq, RequestVote(m) PROVE Durable'
    BY <1>3, RequestVoteDurable
<1>4. ASSUME NEW r \in rvRep, VoteReply(r) PROVE Durable'
    <2>1. r.from \in Server
        BY DEF TypeOK, VoteNetTypes, VoteAnswer
    <2> QED
        BY <1>1, <1>4, <2>1, StepDownDurable DEF VoteReply
<1>5. ASSUME NEW i \in Server, NEW t, BecomeLeader(i, t) PROVE Durable'
    BY <1>5, DurableSame DEF BecomeLeader, logVars, diskVars
<1>6. ASSUME NEW i \in Server, NEW t, StartNoop(i, t) PROVE Durable'
    BY <1>1, <1>6, AppendToLogDurable DEF StartNoop
<1>7. ASSUME NEW i \in Server, NEW c, Start(i, c) PROVE Durable'
    BY <1>7, AppendToLogDurable DEF Start
<1>8. ASSUME NEW m \in aeReq, AppendEntries(m) PROVE Durable'
    BY <1>8, AppendEntriesDurable
<1>9. ASSUME NEW r \in aeRep, AppendReply(r) PROVE Durable'
    <2>1. r.from \in Server
        BY DEF TypeOK, AppendNetTypes, AppendAnswer
    <2> QED
        BY <1>1, <1>9, <2>1, StepDownDurable DEF AppendReply
<1>10. ASSUME NEW m \in isReq, InstallSnapshot(m) PROVE Durable'
    BY <1>10, InstallSnapshotDurable
<1>11. ASSUME NEW r \in isRep, SnapReply(r) PROVE Durable'
    <2>1. r.from \in Server
        BY DEF TypeOK, AppendNetTypes, SnapAnswer
    <2> QED
        BY <1>1, <1>11, <2>1, StepDownDurable DEF SnapReply
<1>12. ASSUME NEW i \in Server, persistV2(i) PROVE Durable'
    BY <1>12, persistV2Durable
<1>13. ASSUME NEW i \in Server, Make(i) PROVE Durable'
    BY <1>13, RestartDurable DEF Make
<1>14. ASSUME NEW m \in rvReq \cup aeReq \cup isReq, CrashAfterTermUpdate(m) \/ CrashInInstall(m) PROVE Durable'
    <2>1. m.to \in Server
        BY DEF TypeOK, VoteNetTypes, AppendNetTypes, VoteRequest, AppendRequest, SnapRequest
    <2> QED
        BY <1>14, <2>1, RestartDurable DEF CrashAfterTermUpdate, CrashInInstall
<1>15. ASSUME NEW i \in Server, ElectionCheck(i) PROVE Durable'
    BY <1>1, <1>15 DEF ElectionCheck
<1>16. ASSUME NEW i \in Server, NEW g, sendRequestVote(i, g) \/ sendSnapShot(i, g) PROVE Durable'
    BY <1>1, <1>16 DEF sendRequestVote, sendSnapShot
<1>17. ASSUME NEW i \in Server, NEW j \in Server, SpawnInstall(i, j) \/ sendAppendEntries(i, j) PROVE Durable'
    BY <1>1, <1>17 DEF SpawnInstall, sendAppendEntries
<1>18. ASSUME NEW i \in Server, OfferSnapshot(i) PROVE Durable'
    BY <1>1, <1>18 DEF OfferSnapshot
<1>19. ASSUME NEW x, LoseCall(x) PROVE Durable'
    BY <1>1, <1>19 DEF LoseCall
<1> QED
    BY <1>1, <1>2, <1>3, <1>4, <1>5, <1>6, <1>7, <1>8, <1>9, <1>10, <1>11, <1>12, <1>13, <1>14, <1>15, <1>16,
       <1>17, <1>18, <1>19
       DEF Next, vars

(* sendSnapShot reads index, term and data under one lock, and Durable     *)
(* says that they belong together.                                         *)
LEMMA SnapshotsLabelledStep == TypeOK /\ DurableInv /\ [Next]_vars => SnapshotsLabelled'
<1> SUFFICES ASSUME TypeOK, DurableInv, [Next]_vars PROVE SnapshotsLabelled'
    OBVIOUS
<1>1. ASSUME isReq' \subseteq isReq PROVE SnapshotsLabelled'
    BY <1>1 DEF DurableInv, SnapshotsLabelled
<1>2. ASSUME NEW i \in Server, NEW g \in installs[i], sendSnapShot(i, g) PROVE SnapshotsLabelled'
    <2> DEFINE m == [from |-> i, to |-> g.to, termTemp |-> g.termTemp, live |-> TRUE,
                     Term |-> currentTerm[i], LastIncludedIndex |-> snapshotIndex[i],
                     LastIncludedTerm |-> snapshotTerm[i], Data |-> snapshot[i]]
    <2>1. m.Data = [LastIndex |-> m.LastIncludedIndex, LastTerm |-> m.LastIncludedTerm]
        BY DEF DurableInv, Durable
    <2>2. isReq' \subseteq isReq \cup {m}
        BY <1>2 DEF sendSnapShot
    <2> HIDE DEF m
    <2> QED
        BY <2>1, <2>2 DEF DurableInv, SnapshotsLabelled
<1>3. ASSUME NEW i, NEW disk, NEW handled, Restart(i, disk, handled) PROVE SnapshotsLabelled'
    <2>1. \A m \in isReq : /\ [m EXCEPT !.live = FALSE].Data = m.Data
                           /\ [m EXCEPT !.live = FALSE].LastIncludedIndex = m.LastIncludedIndex
                           /\ [m EXCEPT !.live = FALSE].LastIncludedTerm = m.LastIncludedTerm
        BY DEF TypeOK, AppendNetTypes, SnapRequest
    <2>2. isReq' = Orphans(isReq \ handled, i)
        BY <1>3 DEF Restart
    <2>3. \A n \in isReq' : \E m \in isReq : n = m \/ n = [m EXCEPT !.live = FALSE]
        BY <2>2 DEF Orphans
    <2>4. ASSUME NEW n \in isReq'
          PROVE  n.Data = [LastIndex |-> n.LastIncludedIndex, LastTerm |-> n.LastIncludedTerm]
        <3>1. PICK m \in isReq : n = m \/ n = [m EXCEPT !.live = FALSE]
            BY <2>3, <2>4
        <3>2. m.Data = [LastIndex |-> m.LastIncludedIndex, LastTerm |-> m.LastIncludedTerm]
            BY DEF DurableInv, SnapshotsLabelled
        <3>3. n.Data = m.Data /\ n.LastIncludedIndex = m.LastIncludedIndex /\ n.LastIncludedTerm = m.LastIncludedTerm
            BY <2>1, <3>1
        <3> QED
            BY <3>2, <3>3
    <2> QED
        BY <2>4 DEF SnapshotsLabelled
<1>4. ASSUME NEW i \in Server, NEW j \in Server, sendAppendEntries(i, j) PROVE SnapshotsLabelled'
    BY <1>1, <1>4 DEF sendAppendEntries
<1>5. ASSUME NEW m, InstallSnapshot(m) \/ LoseCall(m) PROVE SnapshotsLabelled'
    BY <1>1, <1>5 DEF InstallSnapshot, LoseCall
<1>6. CASE UNCHANGED isReq
    BY <1>1, <1>6
<1> QED
    BY <1>2, <1>3, <1>4, <1>5, <1>6
       DEF Next, vars, appendNet, startElection, sendRequestVote, RequestVote, VoteReply, ElectionCheck, BecomeLeader,
           Start, StartNoop, SpawnInstall, AppendEntries, AppendReply, SnapReply, OfferSnapshot, persistV2, Make,
           CrashAfterTermUpdate, CrashInInstall

(* The invariant of the disk holds throughout. *)
LEMMA DurableInvariant == Spec /\ []TypeOK => []DurableInv
<1>1. Init => DurableInv
    <2> SUFFICES ASSUME Init PROVE DurableInv
        OBVIOUS
    <2>1. Durable
        BY DEF Init, Durable
    <2>2. SnapshotsLabelled
        BY DEF Init, SnapshotsLabelled
    <2> QED
        BY <2>1, <2>2 DEF DurableInv
<1>2. TypeOK /\ DurableInv /\ [Next]_vars => DurableInv'
    BY DurableStep, SnapshotsLabelledStep DEF DurableInv
<1> QED
    BY <1>1, <1>2, PTL DEF Spec

-----------------------------------------------------------------------------
(* Steps that give no vote and ask for none *)

(* Terms only grow, a vote changes only with the term, and no peer becomes *)
(* a candidate.                                                            *)
Calm ==
    /\ UNCHANGED <<voteCount, tally, voters, rvReq, votes>>
    /\ rvRep' \subseteq rvRep
    /\ \A j \in Server :
          \/ /\ currentTerm'[j] = currentTerm[j] /\ votedFor'[j] = votedFor[j]
             /\ tp'[j] = Candidate => tp[j] = Candidate
          \/ currentTerm'[j] > currentTerm[j] /\ tp'[j] # Candidate

(* A calm step keeps the invariant. *)
LEMMA CalmStep ==
    ASSUME TypeOK, TypeOK', ElectionInv, Calm
    PROVE  ElectionInv'
<1>1. currentTerm \in [Server -> Nat] /\ currentTerm' \in [Server -> Nat]
    BY DEF TypeOK, TermTypes
<1>2. votes \subseteq Server \X Nat \X Server
    BY DEF TypeOK, OtherTypes
<1>3. \A i \in Server, j \in Server, t \in Nat : Uncounted(i, j, t) => Uncounted(i, j, t)'
    BY <1>1, SMT DEF Calm, Uncounted
<1>4. VotesKnown'
    BY <1>1, <1>2, SMT DEF Calm, ElectionInv, VotesKnown
<1>5. VoteOnce'
    BY DEF Calm, ElectionInv, VoteOnce
<1>6. SpawnedOnce'
    <2>1. \A i \in Server : \A g \in voters[i] : g.to \in Server /\ g.term \in Nat
        BY SMT DEF TypeOK, ElectTypes
    <2> QED
        BY <1>3, <2>1 DEF Calm, ElectionInv, SpawnedOnce
<1>7. AskedOnce'
    <2>1. \A m \in rvReq : m.from \in Server /\ m.to \in Server /\ m.Term \in Nat
        BY DEF TypeOK, VoteNetTypes, VoteRequest
    <2> QED
        BY <1>3, <2>1 DEF Calm, ElectionInv, AskedOnce, Spawned
<1>8. AnsweredOnce'
    <2>1. \A r \in rvRep : r.from \in Server /\ r.to \in Server /\ r.termTemp \in Nat
        BY DEF TypeOK, VoteNetTypes, VoteAnswer
    <2> QED
        BY <1>3, <2>1 DEF Calm, ElectionInv, AnsweredOnce, Spawned
<1>9. VotesCountedOnce'
    BY <1>1 DEF Calm, ElectionInv, VotesCountedOnce
<1> QED
    BY <1>4, <1>5, <1>6, <1>7, <1>8, <1>9 DEF ElectionInv

(* A higher term makes a follower that has not voted. *)
LEMMA termUpdateCalm ==
    ASSUME TypeOK, NEW i \in Server, NEW t \in Nat, t > currentTerm[i], termUpdate(i, t),
           UNCHANGED <<voteCount, tally, voters, rvReq, votes>>, rvRep' \subseteq rvRep
    PROVE  Calm
BY SMT DEF termUpdate, Calm, TypeOK, TermTypes, Follower, Candidate

LEMMA AcceptLeaderCalm ==
    ASSUME TypeOK, NEW i \in Server, NEW t \in Nat, AcceptLeader(i, t),
           UNCHANGED <<voteCount, tally, voters, rvReq, votes>>, rvRep' \subseteq rvRep
    PROVE  Calm
<1>1. CASE t > currentTerm[i]
    BY <1>1, termUpdateCalm DEF AcceptLeader
<1>2. CASE ~(t > currentTerm[i])
    BY <1>2 DEF AcceptLeader, Calm, TypeOK, TermTypes, Follower, Candidate
<1> QED
    BY <1>1, <1>2

LEMMA SameCalm ==
    ASSUME UNCHANGED <<termVars, voteCount, tally, voters, rvReq, votes>>, rvRep' \subseteq rvRep
    PROVE  Calm
BY DEF Calm, termVars

(* The actions that are calm. *)
LEMMA CalmActions ==
    ASSUME TypeOK
    PROVE  /\ UNCHANGED vars => Calm
           /\ \A i \in Server : ElectionCheck(i) \/ OfferSnapshot(i) \/ persistV2(i) => Calm
           /\ \A i \in Server : \A t \in checked[i] \cup {currentTerm[i]} : BecomeLeader(i, t) => Calm
           /\ \A i \in Server : \A t \in noops[i] : StartNoop(i, t) => Calm
           /\ \A i \in Server, c \in Commands : Start(i, c) => Calm
           /\ \A i, j \in Server : SpawnInstall(i, j) \/ sendAppendEntries(i, j) => Calm
           /\ \A i \in Server : \A g \in installs[i] : sendSnapShot(i, g) => Calm
           /\ \A m \in aeReq : AppendEntries(m) => Calm
           /\ \A r \in aeRep : AppendReply(r) => Calm
           /\ \A m \in isReq : InstallSnapshot(m) => Calm
           /\ \A r \in isRep : SnapReply(r) => Calm
           /\ \A x \in InFlight : LoseCall(x) => Calm
<1>1. UNCHANGED vars => Calm
    BY SameCalm DEF vars, electVars, voteNet
<1>2. \A i \in Server : ElectionCheck(i) \/ OfferSnapshot(i) \/ persistV2(i) => Calm
    BY SameCalm DEF ElectionCheck, OfferSnapshot, persistV2, electVars, voteNet
<1>3. \A i \in Server : \A t \in checked[i] \cup {currentTerm[i]} : BecomeLeader(i, t) => Calm
    BY SMT DEF BecomeLeader, Calm, voteNet, TypeOK, TermTypes, Candidate, Leader
<1>4. \A i \in Server : \A t \in noops[i] : StartNoop(i, t) => Calm
    BY SameCalm DEF StartNoop, AppendToLog, voteNet
<1>5. \A i \in Server, c \in Commands : Start(i, c) => Calm
    BY SameCalm DEF Start, AppendToLog, electVars, voteNet
<1>6. \A i, j \in Server : SpawnInstall(i, j) \/ sendAppendEntries(i, j) => Calm
    BY SameCalm, SMT DEF SpawnInstall, sendAppendEntries, electVars, voteNet
<1>7. \A i \in Server : \A g \in installs[i] : sendSnapShot(i, g) => Calm
    BY SameCalm DEF sendSnapShot, electVars, voteNet
<1>8. ASSUME NEW m \in aeReq, AppendEntries(m) PROVE Calm
    <2>1. m.to \in Server /\ m.Term \in Nat
        BY DEF TypeOK, AppendNetTypes, AppendRequest
    <2>2. UNCHANGED <<voteCount, tally, voters, rvReq, rvRep, votes>>
        BY <1>8 DEF AppendEntries, electVars, voteNet
    <2>3. AcceptLeader(m.to, m.Term) \/ UNCHANGED termVars
        BY <1>8 DEF AppendEntries, AppendEntriesStale, AppendEntriesReject, AppendEntriesAccept
    <2> QED
        BY <2>1, <2>2, <2>3, AcceptLeaderCalm, SameCalm
<1>9. ASSUME NEW r \in aeRep, AppendReply(r) PROVE Calm
    <2>1. r.from \in Server /\ r.Term \in Nat
        BY DEF TypeOK, AppendNetTypes, AppendAnswer
    <2>2. UNCHANGED <<voteCount, tally, voters, rvReq, rvRep, votes>>
        BY <1>9 DEF AppendReply, electVars, voteNet
    <2>3. (r.Term > currentTerm[r.from] /\ termUpdate(r.from, r.Term)) \/ UNCHANGED termVars
        BY <1>9 DEF AppendReply, StepDown
    <2> QED
        BY <2>1, <2>2, <2>3, termUpdateCalm, SameCalm
<1>10. ASSUME NEW m \in isReq, InstallSnapshot(m) PROVE Calm
    <2>1. m.to \in Server /\ m.Term \in Nat
        BY DEF TypeOK, AppendNetTypes, SnapRequest
    <2>2. UNCHANGED <<voteCount, tally, voters, rvReq, rvRep, votes>>
        BY <1>10 DEF InstallSnapshot, electVars, voteNet
    <2>3. AcceptLeader(m.to, m.Term) \/ UNCHANGED termVars
        BY <1>10 DEF InstallSnapshot
    <2> QED
        BY <2>1, <2>2, <2>3, AcceptLeaderCalm, SameCalm
<1>11. ASSUME NEW r \in isRep, SnapReply(r) PROVE Calm
    <2>1. r.from \in Server /\ r.Term \in Nat
        BY DEF TypeOK, AppendNetTypes, SnapAnswer
    <2>2. UNCHANGED <<voteCount, tally, voters, rvReq, rvRep, votes>>
        BY <1>11 DEF SnapReply, electVars, voteNet
    <2>3. (r.Term > currentTerm[r.from] /\ termUpdate(r.from, r.Term)) \/ UNCHANGED termVars
        BY <1>11 DEF SnapReply, StepDown
    <2> QED
        BY <2>1, <2>2, <2>3, termUpdateCalm, SameCalm
<1>12. \A x \in InFlight : LoseCall(x) => Calm
    BY SameCalm DEF LoseCall, electVars, voteNet
<1> QED
    BY <1>1, <1>2, <1>3, <1>4, <1>5, <1>6, <1>7, <1>8, <1>9, <1>10, <1>11, <1>12

-----------------------------------------------------------------------------
(* The steps of an election *)

LEMMA startElectionInv ==
    ASSUME TypeOK, TypeOK', ElectionInv, NEW i \in Server, startElection(i)
    PROVE  ElectionInv'
<1> DEFINE t == currentTerm[i] + 1
<1>1. /\ currentTerm \in [Server -> Nat] /\ votedFor \in [Server -> Server \cup {Nil}]
      /\ votes \subseteq Server \X Nat \X Server /\ tally \in [Server -> SUBSET Server]
      /\ voters \in [Server -> SUBSET [term : Nat, to : Server]]
    BY DEF TypeOK, TermTypes, OtherTypes, ElectTypes
<1>2. /\ currentTerm' = [currentTerm EXCEPT ![i] = t] /\ votedFor' = [votedFor EXCEPT ![i] = i]
      /\ votes' = votes \cup {<<i, t, i>>} /\ tally' = [tally EXCEPT ![i] = {i}]
      /\ voters' = [voters EXCEPT ![i] = @ \cup {[term |-> t, to |-> j] : j \in Server \ {i}}]
      /\ tp' = [tp EXCEPT ![i] = Candidate] /\ voteCount' = [voteCount EXCEPT ![i] = 1]
      /\ UNCHANGED <<rvReq, rvRep>>
    BY DEF startElection, voteNet
<1>3. \A k, j \in Server : \A s \in Nat : Uncounted(k, j, s) => Uncounted(k, j, s)' /\ (k = i => s # t)
    BY <1>1, <1>2, SMTT(30) DEF Uncounted
<1>4. VotesKnown'
    BY <1>1, <1>2, SMTT(30) DEF ElectionInv, VotesKnown
<1>5. VoteOnce'
    <2>1. \A v \in votes : v[1] = i => v[2] # t
        BY <1>1, SMT DEF ElectionInv, VotesKnown
    <2> QED
        BY <1>1, <1>2, <2>1, SMTT(30) DEF ElectionInv, VoteOnce
<1>6. SpawnedOnce'
    <2> SUFFICES ASSUME NEW k \in Server, NEW g \in voters'[k]
                 PROVE  g.term > 0 /\ Uncounted(k, g.to, g.term)'
        BY DEF SpawnedOnce
    <2>1. CASE g \in voters[k]
        <3>1. g.to \in Server /\ g.term \in Nat
            BY <1>1, <2>1, SMT
        <3> QED
            BY <1>3, <2>1, <3>1 DEF ElectionInv, SpawnedOnce
    <2>2. CASE g \notin voters[k]
        <3>1. k = i /\ g.term = t /\ g.to \in Server \ {i}
            BY <1>1, <1>2, <2>2, SMTT(30)
        <3> QED
            BY <1>1, <1>2, <3>1, SMTT(30) DEF Uncounted
    <2> QED
        BY <2>1, <2>2
<1>7. \A k, j \in Server : \A s \in Nat : Uncounted(k, j, s) /\ ~Spawned(k, j, s) => ~Spawned(k, j, s)'
    BY <1>1, <1>2, <1>3 DEF Spawned
<1>8. AskedOnce'
    <2>1. \A m \in rvReq : m.from \in Server /\ m.to \in Server /\ m.Term \in Nat
        BY DEF TypeOK, VoteNetTypes, VoteRequest
    <2> QED
        BY <1>2, <1>3, <1>7, <2>1 DEF ElectionInv, AskedOnce
<1>9. AnsweredOnce'
    <2>1. \A r \in rvRep : r.from \in Server /\ r.to \in Server /\ r.termTemp \in Nat
        BY DEF TypeOK, VoteNetTypes, VoteAnswer
    <2> QED
        BY <1>2, <1>3, <1>7, <2>1 DEF ElectionInv, AnsweredOnce
<1>10. VotesCountedOnce'
    <2>1. Cardinality({i}) = 1
        BY FS_Singleton
    <2>2. \A k \in Server : voteCount'[k] = Cardinality(tally'[k])
        BY <1>1, <1>2, <2>1 DEF ElectionInv, VotesCountedOnce, TypeOK, ElectTypes
    <2>3. \A k \in Server : tp'[k] = Candidate => \A j \in tally'[k] : <<j, currentTerm'[k], k>> \in votes'
        BY <1>1, <1>2, SMTT(30) DEF ElectionInv, VotesCountedOnce, TypeOK, TermTypes
    <2> QED
        BY <2>2, <2>3 DEF VotesCountedOnce
<1> QED
    BY <1>4, <1>5, <1>6, <1>8, <1>9, <1>10 DEF ElectionInv

LEMMA sendRequestVoteInv ==
    ASSUME TypeOK, TypeOK', ElectionInv, NEW i \in Server, NEW g \in voters[i], sendRequestVote(i, g)
    PROVE  ElectionInv'
<1> DEFINE new == [from |-> i, to |-> g.to, Term |-> g.term, LastLogIndex |-> LastLogIndex(i),
                   LastLogTerm |-> LastLogTerm(i), live |-> TRUE]
<1>1. new.from = i /\ new.to = g.to /\ new.Term = g.term /\ new.live
    OBVIOUS
<1>2. /\ voters' = [voters EXCEPT ![i] = @ \ {g}] /\ rvReq' = rvReq \cup {new}
      /\ UNCHANGED <<currentTerm, votedFor, tp, voteCount, tally, rvRep, votes>>
    BY DEF sendRequestVote, termVars
<1> HIDE DEF new
<1>3. voters \in [Server -> SUBSET [term : Nat, to : Server]] /\ g = [term |-> g.term, to |-> g.to]
    BY SMT DEF TypeOK, ElectTypes
<1>4. Uncounted(i, g.to, g.term) /\ g.term > 0 /\ Spawned(i, g.to, g.term)
    BY <1>3 DEF ElectionInv, SpawnedOnce, Spawned
<1>5. ~Spawned(i, g.to, g.term)'
    BY <1>2, <1>3 DEF Spawned
<1>6. \A k, j, s : Uncounted(k, j, s) => Uncounted(k, j, s)'
    BY <1>2 DEF Uncounted
<1>7. \A k \in Server : \A j, s : ~Spawned(k, j, s) => ~Spawned(k, j, s)'
    BY <1>2, <1>3 DEF Spawned
<1>8. VotesKnown' /\ VoteOnce' /\ VotesCountedOnce'
    BY <1>2 DEF ElectionInv, VotesKnown, VoteOnce, VotesCountedOnce
<1>9. SpawnedOnce'
    BY <1>2, <1>3, <1>6 DEF ElectionInv, SpawnedOnce
<1>10. AskedOnce'
    <2>1. \A m \in rvReq : m.from \in Server
        BY DEF TypeOK, VoteNetTypes, VoteRequest
    <2>2. \A m \in rvReq : ~(m.live /\ SameCall(m, new) /\ m.Term = new.Term)
        BY <1>1, <1>4 DEF ElectionInv, AskedOnce, SameCall
    <2>3. \A m \in rvReq : ~(m.live /\ SameCall(new, m) /\ m.Term = new.Term)
        BY <2>2 DEF SameCall
    <2> QED
        BY <1>1, <1>2, <1>4, <1>5, <1>6, <1>7, <2>1, <2>2, <2>3 DEF ElectionInv, AskedOnce
<1>11. AnsweredOnce'
    <2>1. \A r \in rvRep : r.from \in Server
        BY DEF TypeOK, VoteNetTypes, VoteAnswer
    <2>2. \A r \in rvRep : ~(SameCall(new, r) /\ r.termTemp = new.Term)
        BY <1>1, <1>4 DEF ElectionInv, AnsweredOnce, SameCall
    <2> QED
        BY <1>1, <1>2, <1>6, <1>7, <2>1, <2>2 DEF ElectionInv, AnsweredOnce
<1> QED
    BY <1>8, <1>9, <1>10, <1>11 DEF ElectionInv

LEMMA RequestVoteInv ==
    ASSUME TypeOK, TypeOK', ElectionInv, NEW m \in rvReq, RequestVote(m)
    PROVE  ElectionInv'
<1> DEFINE i == m.to
           grant == Grants(i, m)
<1> PICK new : new = [from |-> m.from, to |-> i, termTemp |-> m.Term, Term |-> currentTerm[i], VoteGranted |-> grant]
    OBVIOUS
<1>1. /\ i \in Server /\ m.from \in Server /\ m.Term \in Nat /\ m.Term > 0 /\ m.live \in BOOLEAN
      /\ currentTerm \in [Server -> Nat] /\ votedFor \in [Server -> Server \cup {Nil}]
      /\ tp \in [Server -> {Follower, Candidate, Leader}] /\ votes \subseteq Server \X Nat \X Server
    BY DEF TypeOK, VoteNetTypes, VoteRequest, TermTypes, OtherTypes, ElectionInv, AskedOnce
<1>2. /\ currentTerm' = [currentTerm EXCEPT ![i] = IF m.Term > currentTerm[i] THEN m.Term ELSE @]
      /\ tp' = [tp EXCEPT ![i] = IF m.Term > currentTerm[i] THEN Follower ELSE @]
      /\ votedFor' = [votedFor EXCEPT ![i] = IF grant THEN m.from ELSE IF m.Term > currentTerm[i] THEN Nil ELSE @]
      /\ votes' = IF grant THEN votes \cup {<<i, m.Term, m.from>>} ELSE votes
      /\ rvReq' = rvReq \ {m}
      /\ rvRep' = IF m.live THEN rvRep \cup {new} ELSE rvRep
      /\ UNCHANGED <<voteCount, tally, voters>>
    BY DEF RequestVote, electVars
<1>3. grant => m.Term >= currentTerm[i] /\ (m.Term > currentTerm[i] \/ votedFor[i] \in {Nil, m.from})
    BY DEF Grants
<1>4. new.from = m.from /\ new.to = i /\ new.termTemp = m.Term /\ new.VoteGranted = grant
    OBVIOUS
<1> HIDE DEF grant
<1>5. \A k, j \in Server : \A s \in Nat : Uncounted(k, j, s) => Uncounted(k, j, s)'
    BY <1>1, <1>2, SMTT(30) DEF Uncounted
<1>6. \A k, j, s : ~Spawned(k, j, s) => ~Spawned(k, j, s)'
    BY <1>2 DEF Spawned
<1>7. VotesKnown'
    <2>1. ASSUME NEW v \in votes
          PROVE  v[2] > 0 /\ v[2] <= currentTerm'[v[1]] /\ (v[2] = currentTerm'[v[1]] => votedFor'[v[1]] = v[3])
        <3>1. v[1] \in Server /\ v[2] \in Nat /\ v[3] \in Server /\ v[3] # Nil
            BY <1>1, ServerAssumption
        <3>2. v[2] > 0 /\ v[2] <= currentTerm[v[1]] /\ (v[2] = currentTerm[v[1]] => votedFor[v[1]] = v[3])
            BY DEF ElectionInv, VotesKnown
        <3>3. CASE v[1] # i
            BY <1>1, <1>2, <3>1, <3>2, <3>3
        <3>4. CASE v[1] = i
            <4>1. currentTerm[i] \in Nat /\ currentTerm'[i] = IF m.Term > currentTerm[i] THEN m.Term ELSE currentTerm[i]
                BY <1>1, <1>2
            <4>2. votedFor'[i] = IF grant THEN m.from ELSE IF m.Term > currentTerm[i] THEN Nil ELSE votedFor[i]
                BY <1>1, <1>2
            <4>3. v[2] <= currentTerm[i] /\ (v[2] = currentTerm[i] => votedFor[i] = v[3])
                BY <3>2, <3>4
            <4>4. v[2] <= currentTerm'[i] /\ (v[2] = currentTerm'[i] => votedFor'[i] = v[3])
                BY <1>1, <1>3, <3>1, <4>1, <4>2, <4>3, SMTT(30)
            <4> QED
                BY <3>2, <3>4, <4>4
        <3> QED
            BY <3>3, <3>4
    <2>2. grant => m.Term > 0 /\ m.Term = currentTerm'[i] /\ votedFor'[i] = m.from
        <3>1. currentTerm[i] \in Nat /\ currentTerm'[i] = IF m.Term > currentTerm[i] THEN m.Term ELSE currentTerm[i]
            BY <1>1, <1>2
        <3>2. grant => votedFor'[i] = m.from
            BY <1>1, <1>2
        <3> QED
            BY <1>1, <1>3, <3>1, <3>2, SMTT(30)
    <2> QED
        BY <1>1, <1>2, <2>1, <2>2, SMTT(30) DEF VotesKnown
<1>8. VoteOnce'
    <2>1. grant => \A v \in votes : v[1] = i /\ v[2] = m.Term => v[3] = m.from
        <3> SUFFICES ASSUME grant, NEW v \in votes, v[1] = i, v[2] = m.Term PROVE v[3] = m.from
            OBVIOUS
        <3>1. v[2] <= currentTerm[i] /\ (v[2] = currentTerm[i] => votedFor[i] = v[3])
            BY DEF ElectionInv, VotesKnown
        <3>2. v[3] # Nil
            BY <1>1, ServerAssumption
        <3> QED
            BY <1>1, <1>3, <3>1, <3>2, SMTT(30)
    <2> QED
        BY <1>1, <1>2, <2>1, SMTT(30) DEF ElectionInv, VoteOnce
<1>9. SpawnedOnce'
    <2>1. ASSUME NEW k \in Server, NEW g \in voters[k] PROVE g.to \in Server /\ g.term \in Nat
        <3>1. voters \in [Server -> SUBSET [term : Nat, to : Server]]
            BY DEF TypeOK, ElectTypes
        <3>2. g \in [term : Nat, to : Server]
            BY <3>1
        <3> QED
            BY <3>2
    <2> QED
        BY <1>2, <1>5, <2>1 DEF ElectionInv, SpawnedOnce
<1>10. AskedOnce'
    <2>1. \A n \in rvReq : n.from \in Server /\ n.to \in Server /\ n.Term \in Nat
        BY DEF TypeOK, VoteNetTypes, VoteRequest
    <2> QED
        BY <1>2, <1>5, <1>6, <2>1 DEF ElectionInv, AskedOnce
<1>11. AnsweredOnce'
    <2>1. \A r \in rvRep : r.from \in Server /\ r.to \in Server /\ r.termTemp \in Nat
        BY DEF TypeOK, VoteNetTypes, VoteAnswer
    <2>2. CASE ~m.live
        BY <1>2, <1>5, <1>6, <2>1, <2>2 DEF ElectionInv, AnsweredOnce
    <2>3. CASE m.live
        <3>1. Uncounted(m.from, i, m.Term)' /\ ~Spawned(m.from, i, m.Term)'
            BY <1>1, <1>5, <1>6, <2>3 DEF ElectionInv, AskedOnce
        <3>2. \A n \in rvReq \ {m} : n.live /\ SameCall(n, new) => n.Term # new.termTemp
            BY <1>4, <2>3 DEF ElectionInv, AskedOnce, SameCall
        <3>3. \A r \in rvRep : ~(SameCall(r, new) /\ r.termTemp = new.termTemp)
            BY <1>4, <2>3 DEF ElectionInv, AnsweredOnce, SameCall
        <3>4. \A r \in rvRep : ~(SameCall(new, r) /\ r.termTemp = new.termTemp)
            BY <3>3 DEF SameCall
        <3>5. new.VoteGranted => <<new.to, new.termTemp, new.from>> \in votes'
            BY <1>2, <1>4
        <3>6. votes \subseteq votes'
            BY <1>2
        <3>7. rvRep' = rvRep \cup {new}
            BY <1>2, <2>3
        <3>8. ASSUME NEW r \in rvRep
              PROVE  /\ Uncounted(r.from, r.to, r.termTemp)' /\ ~Spawned(r.from, r.to, r.termTemp)'
                     /\ r.VoteGranted => <<r.to, r.termTemp, r.from>> \in votes'
                     /\ \A n \in rvReq' : n.live /\ SameCall(n, r) => n.Term # r.termTemp
                     /\ \A q \in rvRep' : SameCall(q, r) /\ q.termTemp = r.termTemp => q = r
            <4>1. /\ Uncounted(r.from, r.to, r.termTemp)' /\ ~Spawned(r.from, r.to, r.termTemp)'
                  /\ r.VoteGranted => <<r.to, r.termTemp, r.from>> \in votes'
                BY <1>5, <1>6, <2>1, <3>6 DEF ElectionInv, AnsweredOnce
            <4>2. \A n \in rvReq' : n.live /\ SameCall(n, r) => n.Term # r.termTemp
                BY <1>2 DEF ElectionInv, AnsweredOnce
            <4>3. \A q \in rvRep : SameCall(q, r) /\ q.termTemp = r.termTemp => q = r
                BY DEF ElectionInv, AnsweredOnce
            <4>4. \A q \in rvRep' : SameCall(q, r) /\ q.termTemp = r.termTemp => q = r
                BY <3>4, <3>7, <4>3
            <4> QED
                BY <4>1, <4>2, <4>4
        <3>9. /\ Uncounted(new.from, new.to, new.termTemp)' /\ ~Spawned(new.from, new.to, new.termTemp)'
              /\ \A n \in rvReq' : n.live /\ SameCall(n, new) => n.Term # new.termTemp
              /\ \A q \in rvRep' : SameCall(q, new) /\ q.termTemp = new.termTemp => q = new
            BY <1>2, <1>4, <3>1, <3>2, <3>3, <3>7
        <3> QED
            BY <3>5, <3>7, <3>8, <3>9 DEF AnsweredOnce
    <2> QED
        BY <1>1, <2>2, <2>3
<1>12. VotesCountedOnce'
    <2>1. \A k \in Server : tp'[k] = Candidate => tp[k] = Candidate /\ currentTerm'[k] = currentTerm[k]
        BY <1>1, <1>2, SMTT(30) DEF Follower, Candidate
    <2> QED
        <3>1. votes \subseteq votes' /\ UNCHANGED <<voteCount, tally>>
            BY <1>2
        <3> QED
            BY <2>1, <3>1 DEF ElectionInv, VotesCountedOnce
<1> QED
    BY <1>7, <1>8, <1>9, <1>10, <1>11, <1>12 DEF ElectionInv

LEMMA VoteReplyInv ==
    ASSUME TypeOK, TypeOK', ElectionInv, NEW r \in rvRep, VoteReply(r)
    PROVE  ElectionInv'
<1> DEFINE i == r.from
<1>1. /\ i \in Server /\ r.to \in Server /\ r.Term \in Nat /\ r.termTemp \in Nat
      /\ currentTerm \in [Server -> Nat] /\ tally \in [Server -> SUBSET Server] /\ voteCount \in [Server -> Nat]
    BY DEF TypeOK, VoteNetTypes, VoteAnswer, TermTypes, ElectTypes
<1>2. rvRep' = rvRep \ {r} /\ UNCHANGED <<voters, rvReq, votes>>
    BY DEF VoteReply
<1>3. CASE UNCHANGED <<voteCount, tally>>
    <2>1. (r.Term > currentTerm[i] /\ termUpdate(i, r.Term)) \/ UNCHANGED termVars
        BY DEF VoteReply, StepDown
    <2>2. Calm
        BY <1>1, <1>2, <1>3, <2>1, termUpdateCalm, SameCalm
    <2> QED
        BY <2>2, CalmStep
<1>4. CASE /\ ~Outdated(i, r.termTemp) /\ r.VoteGranted /\ UNCHANGED termVars
           /\ voteCount' = [voteCount EXCEPT ![i] = @ + 1] /\ tally' = [tally EXCEPT ![i] = @ \cup {r.to}]
    <2>1. UNCHANGED <<currentTerm, votedFor, tp>>
        BY <1>4 DEF termVars
    <2>2. Uncounted(i, r.to, r.termTemp) /\ r.termTemp = currentTerm[i]
        <3>1. Uncounted(i, r.to, r.termTemp)
            BY DEF ElectionInv, AnsweredOnce
        <3> QED
            BY <1>1, <1>4, <3>1, SMTT(30) DEF Uncounted, Outdated
    <2>3. r.to \notin tally[i] /\ <<r.to, currentTerm[i], i>> \in votes
        BY <1>4, <2>2 DEF ElectionInv, AnsweredOnce, Uncounted
    <2>4. \A k, j \in Server : \A s \in Nat :
              Uncounted(k, j, s) /\ ~(k = i /\ j = r.to /\ s = r.termTemp) => Uncounted(k, j, s)'
        BY <1>1, <1>4, <2>1, <2>2 DEF Uncounted
    <2>5. \A k, j, s : ~Spawned(k, j, s) => ~Spawned(k, j, s)'
        BY <1>2 DEF Spawned
    <2>6. VotesKnown' /\ VoteOnce'
        BY <1>2, <2>1 DEF ElectionInv, VotesKnown, VoteOnce
    <2>7. SpawnedOnce'
        <3>1. \A k \in Server : \A g \in voters[k] :
                  g.to \in Server /\ g.term \in Nat /\ g = [term |-> g.term, to |-> g.to]
            BY SMTT(30) DEF TypeOK, ElectTypes
        <3>2. \A g \in voters[i] : ~(g.to = r.to /\ g.term = r.termTemp)
            BY <1>1, <3>1 DEF ElectionInv, AnsweredOnce, Spawned
        <3> QED
            BY <1>2, <2>4, <3>1, <3>2 DEF ElectionInv, SpawnedOnce
    <2>8. AskedOnce'
        <3>1. \A m \in rvReq : m.from \in Server /\ m.to \in Server /\ m.Term \in Nat
            BY DEF TypeOK, VoteNetTypes, VoteRequest
        <3>2. \A m \in rvReq : m.live => ~(m.from = i /\ m.to = r.to /\ m.Term = r.termTemp)
            BY DEF ElectionInv, AnsweredOnce, SameCall
        <3> QED
            BY <1>2, <2>4, <2>5, <3>1, <3>2 DEF ElectionInv, AskedOnce
    <2>9. AnsweredOnce'
        <3>1. \A q \in rvRep : q.from \in Server /\ q.to \in Server /\ q.termTemp \in Nat
            BY DEF TypeOK, VoteNetTypes, VoteAnswer
        <3>2. \A q \in rvRep \ {r} : ~(q.from = i /\ q.to = r.to /\ q.termTemp = r.termTemp)
            BY DEF ElectionInv, AnsweredOnce, SameCall
        <3> QED
            BY <1>2, <2>4, <2>5, <3>1, <3>2 DEF ElectionInv, AnsweredOnce
    <2>10. VotesCountedOnce'
        <3>1. IsFiniteSet(tally[i])
            BY <1>1, ServerAssumption, FS_Subset
        <3>2. Cardinality(tally[i] \cup {r.to}) = Cardinality(tally[i]) + 1
            BY <2>3, <3>1, FS_AddElement
        <3>3. \A k \in Server : voteCount'[k] = Cardinality(tally'[k])
            BY <1>1, <1>4, <3>2 DEF ElectionInv, VotesCountedOnce
        <3>4. \A k \in Server : tp'[k] = Candidate => \A j \in tally'[k] : <<j, currentTerm'[k], k>> \in votes'
            BY <1>1, <1>2, <1>4, <2>1, <2>3 DEF ElectionInv, VotesCountedOnce
        <3> QED
            BY <3>3, <3>4 DEF VotesCountedOnce
    <2> QED
        BY <2>6, <2>7, <2>8, <2>9, <2>10 DEF ElectionInv
<1> QED
    BY <1>3, <1>4 DEF VoteReply

(* A restart from a disk that holds the peer's term and vote, or a later   *)
(* term without a vote.                                                    *)
LEMMA RestartInv ==
    ASSUME TypeOK, TypeOK', ElectionInv, NEW i \in Server, NEW disk, NEW handled, Restart(i, disk, handled),
           \/ disk.currentTerm = currentTerm[i] /\ disk.votedFor = votedFor[i]
           \/ disk.currentTerm > currentTerm[i]
    PROVE  ElectionInv'
<1>1. /\ currentTerm \in [Server -> Nat] /\ currentTerm' \in [Server -> Nat]
      /\ votes \subseteq Server \X Nat \X Server
      /\ voters \in [Server -> SUBSET [term : Nat, to : Server]] /\ tally \in [Server -> SUBSET Server]
    BY DEF TypeOK, TermTypes, OtherTypes, ElectTypes
<1>2. /\ currentTerm' = [currentTerm EXCEPT ![i] = disk.currentTerm]
      /\ votedFor' = [votedFor EXCEPT ![i] = IF disk.currentTerm = 0 THEN Nil ELSE disk.votedFor]
      /\ tp' = [tp EXCEPT ![i] = Follower]
      /\ voteCount' = [voteCount EXCEPT ![i] = 0] /\ tally' = [tally EXCEPT ![i] = {}]
      /\ voters' = [voters EXCEPT ![i] = {}] /\ UNCHANGED votes
      /\ rvReq' = Orphans(rvReq \ handled, i) /\ rvRep' = NotTo(rvRep, i)
    BY DEF Restart
<1>3. disk.currentTerm \in Nat /\ disk.currentTerm >= currentTerm[i]
    BY <1>1, <1>2, SMT
<1>4. \A k \in Server \ {i} : /\ currentTerm'[k] = currentTerm[k] /\ votedFor'[k] = votedFor[k] /\ tp'[k] = tp[k]
                              /\ voteCount'[k] = voteCount[k] /\ tally'[k] = tally[k] /\ voters'[k] = voters[k]
    BY <1>2 DEF TypeOK, TermTypes, ElectTypes
<1>5. VotesKnown'
    <2> SUFFICES ASSUME NEW v \in votes
                 PROVE  v[2] <= currentTerm'[v[1]] /\ (v[2] = currentTerm'[v[1]] => votedFor'[v[1]] = v[3])
        BY <1>2 DEF ElectionInv, VotesKnown
    <2>1. v[1] \in Server /\ v[2] \in Nat /\ v[2] > 0
        BY <1>1 DEF ElectionInv, VotesKnown
    <2>2. v[2] <= currentTerm[v[1]] /\ (v[2] = currentTerm[v[1]] => votedFor[v[1]] = v[3])
        BY DEF ElectionInv, VotesKnown
    <2>3. CASE v[1] = i
        <3>1. /\ currentTerm'[i] = disk.currentTerm
              /\ votedFor'[i] = IF disk.currentTerm = 0 THEN Nil ELSE disk.votedFor
            BY <1>1, <1>2 DEF TypeOK, TermTypes
        <3> QED
            BY <1>1, <1>3, <2>1, <2>2, <2>3, <3>1, SMT
    <2>4. CASE v[1] # i
        BY <1>4, <2>1, <2>2, <2>4
    <2> QED
        BY <2>3, <2>4
<1>6. VoteOnce'
    BY <1>2 DEF ElectionInv, VoteOnce
<1>7. \A k \in Server \ {i} : \A j, s : /\ Uncounted(k, j, s) => Uncounted(k, j, s)'
                                        /\ ~Spawned(k, j, s) => ~Spawned(k, j, s)'
    BY <1>4 DEF Uncounted, Spawned
<1>8. SpawnedOnce'
    <2>1. voters'[i] = {}
        BY <1>1, <1>2
    <2> QED
        BY <1>4, <1>7, <2>1 DEF ElectionInv, SpawnedOnce
<1>9. ASSUME NEW n \in rvReq'
      PROVE  /\ n.Term > 0
             /\ n.live => n \in rvReq /\ n.from \in Server \ {i}
    <2>1. PICK m \in rvReq : n = IF m.from = i THEN [m EXCEPT !.live = FALSE] ELSE m
        BY <1>2 DEF Orphans
    <2>2. m \in VoteRequest /\ m.Term > 0
        BY DEF TypeOK, VoteNetTypes, ElectionInv, AskedOnce
    <2>3. CASE m.from = i
        <3>1. n.live = FALSE /\ n.Term = m.Term
            BY <2>1, <2>2, <2>3 DEF VoteRequest
        <3> QED
            BY <2>2, <3>1
    <2>4. CASE m.from # i
        BY <2>1, <2>2, <2>4 DEF VoteRequest
    <2> QED
        BY <2>3, <2>4
<1>10. AskedOnce'
    BY <1>7, <1>9 DEF ElectionInv, AskedOnce
<1>11. AnsweredOnce'
    <2>1. \A r \in rvRep' : r \in rvRep /\ r.from \in Server \ {i}
        BY <1>2 DEF NotTo, TypeOK, VoteNetTypes, VoteAnswer
    <2> QED
        BY <1>2, <1>7, <1>9, <2>1 DEF ElectionInv, AnsweredOnce
<1>12. VotesCountedOnce'
    <2>1. voteCount'[i] = Cardinality(tally'[i])
        BY <1>1, <1>2, FS_EmptySet DEF TypeOK, ElectTypes
    <2>2. tp'[i] # Candidate
        BY <1>2, SMT DEF TypeOK, TermTypes, Follower, Candidate
    <2> QED
        BY <1>2, <1>4, <2>1, <2>2, SMTT(30) DEF ElectionInv, VotesCountedOnce
<1> QED
    BY <1>5, <1>6, <1>8, <1>10, <1>11, <1>12 DEF ElectionInv

LEMMA CrashInv ==
    ASSUME TypeOK, TypeOK', Durable, ElectionInv
    PROVE  /\ \A i \in Server : Make(i) => ElectionInv'
           /\ \A m \in rvReq \cup aeReq \cup isReq : CrashAfterTermUpdate(m) => ElectionInv'
           /\ \A m \in isReq : CrashInInstall(m) => ElectionInv'
<1>1. ASSUME NEW i \in Server, Make(i) PROVE ElectionInv'
    <2>1. raftstate[i].currentTerm = currentTerm[i] /\ raftstate[i].votedFor = votedFor[i]
        <3>1. raftstate[i] = [currentTerm |-> currentTerm[i], votedFor |-> votedFor[i], log |-> log[i]]
            BY DEF Durable
        <3> QED
            BY <3>1, SMTT(30)
    <2> QED
        BY <1>1, <2>1, RestartInv DEF Make
<1>2. ASSUME NEW m \in rvReq \cup aeReq \cup isReq, CrashAfterTermUpdate(m) PROVE ElectionInv'
    <2> DEFINE disk == [raftstate[m.to] EXCEPT !.currentTerm = m.Term, !.votedFor = Nil]
    <2>1. m.to \in Server
        BY DEF TypeOK, VoteNetTypes, AppendNetTypes, VoteRequest, AppendRequest, SnapRequest
    <2>2. disk.currentTerm = m.Term
        BY <2>1 DEF TypeOK, DiskTypes, RaftState
    <2>3. Restart(m.to, disk, {m}) /\ m.Term > currentTerm[m.to]
        BY <1>2 DEF CrashAfterTermUpdate
    <2> HIDE DEF disk
    <2> QED
        BY <2>1, <2>2, <2>3, RestartInv
<1>3. ASSUME NEW m \in isReq, CrashInInstall(m) PROVE ElectionInv'
    <2> DEFINE disk == [currentTerm |-> m.Term, votedFor |-> IF m.Term > currentTerm[m.to] THEN Nil ELSE votedFor[m.to],
                        log |-> << >>]
    <2>1. m.to \in Server /\ m.Term \in Nat /\ currentTerm[m.to] \in Nat
        BY DEF TypeOK, AppendNetTypes, SnapRequest, TermTypes
    <2>2. Restart(m.to, disk, {m}) /\ m.Term >= currentTerm[m.to]
        BY <1>3 DEF CrashInInstall
    <2>3. ASSUME NEW a, NEW b, NEW c, NEW d, d = [currentTerm |-> a, votedFor |-> b, log |-> c]
          PROVE  d.currentTerm = a /\ d.votedFor = b
        BY <2>3, SMT
    <2>4. disk.currentTerm = m.Term /\ (disk.votedFor = IF m.Term > currentTerm[m.to] THEN Nil ELSE votedFor[m.to])
        BY <2>3
    <2> HIDE DEF disk
    <2>5. \A a, b \in Nat : a >= b => a > b \/ (a = b /\ ~(a > b))
        BY SMT
    <2>6. \/ disk.currentTerm = currentTerm[m.to] /\ disk.votedFor = votedFor[m.to]
          \/ disk.currentTerm > currentTerm[m.to]
        BY <2>1, <2>2, <2>4, <2>5
    <2> QED
        BY <2>1, <2>2, <2>6, RestartInv
<1> QED
    BY <1>1, <1>2, <1>3

(* Every step keeps the invariant. *)
LEMMA ElectionStep == TypeOK /\ TypeOK' /\ Durable /\ ElectionInv /\ [Next]_vars => ElectionInv'
<1> SUFFICES ASSUME TypeOK, TypeOK', Durable, ElectionInv, [Next]_vars PROVE ElectionInv'
    OBVIOUS
<1>1. CASE Calm
    BY <1>1, CalmStep
<1>2. CASE UNCHANGED vars
    BY <1>1, <1>2, CalmActions
<1>3. CASE Next
    BY <1>1, <1>3, CalmActions, startElectionInv, sendRequestVoteInv, RequestVoteInv, VoteReplyInv, CrashInv DEF Next
<1> QED
    BY <1>2, <1>3

(* The invariant of the elections holds throughout. *)
LEMMA ElectionInvariant == Spec /\ []TypeOK => []ElectionInv
<1>1. Init => ElectionInv
    <2> SUFFICES ASSUME Init PROVE ElectionInv
        OBVIOUS
    <2>1. VotesCountedOnce
        BY FS_EmptySet DEF Init, VotesCountedOnce, Follower, Candidate
    <2>2. VotesKnown /\ VoteOnce /\ SpawnedOnce /\ AskedOnce /\ AnsweredOnce
        BY DEF Init, VotesKnown, VoteOnce, SpawnedOnce, AskedOnce, AnsweredOnce
    <2> QED
        BY <2>1, <2>2 DEF ElectionInv
<1>2. DurableInv => Durable
    BY DEF DurableInv
<1> QED
    BY <1>1, <1>2, ElectionStep, DurableInvariant, PTL DEF Spec

-----------------------------------------------------------------------------
(* One leader per term *)

(* Who becomes leader has a majority. *)
LEMMA BecomeLeaderElected ==
    ASSUME AtomicCheck, TypeOK, ElectionInv, Elected, NEW i \in Server, NEW t, BecomeLeader(i, t)
    PROVE  Elected'
<1>1. tp[i] = Candidate /\ voteCount[i] > N \div 2
    BY DEF BecomeLeader, CheckPassed
<1>2. leaders' = leaders \cup {<<currentTerm[i], i>>} /\ UNCHANGED votes
    BY DEF BecomeLeader
<1>3. tally[i] \in Majorities
    BY <1>1 DEF ElectionInv, VotesCountedOnce, TypeOK, ElectTypes, Majorities
<1>4. \A j \in tally[i] : <<j, currentTerm[i], i>> \in votes
    BY <1>1 DEF ElectionInv, VotesCountedOnce
<1>5. \A l \in {<<currentTerm[i], i>>} : \E Q \in Majorities : \A j \in Q : <<j, l[1], l[2]>> \in votes
    BY <1>3, <1>4, SMT
<1> QED
    BY <1>2, <1>5 DEF Elected

(* No other step makes a leader, and votes are not taken back. *)
LEMMA ElectedKept ==
    ASSUME Elected, leaders' = leaders, votes \subseteq votes'
    PROVE  Elected'
BY DEF Elected

(* Every step keeps it that leaders were elected. *)
LEMMA ElectedStep == AtomicCheck /\ TypeOK /\ ElectionInv /\ Elected /\ [Next]_vars => Elected'
<1> SUFFICES ASSUME AtomicCheck, TypeOK, ElectionInv, Elected, [Next]_vars PROVE Elected'
    OBVIOUS
<1>1. CASE leaders' = leaders /\ votes \subseteq votes'
    BY <1>1, ElectedKept
<1>2. ASSUME NEW i \in Server, NEW t, BecomeLeader(i, t) PROVE Elected'
    BY <1>2, BecomeLeaderElected
<1> QED
    BY <1>1, <1>2
       DEF Next, vars, startElection, sendRequestVote, RequestVote, VoteReply, ElectionCheck, Start, StartNoop,
           SpawnInstall, sendAppendEntries, sendSnapShot, AppendEntries, AppendReply, InstallSnapshot, SnapReply,
           LoseCall, OfferSnapshot, persistV2, Make, CrashAfterTermUpdate, CrashInInstall, Restart

(* Two majorities have a voter in common, and it voted once. *)
LEMMA MajoritiesElectOne ==
    ASSUME CountingFacts, TypeOK, VoteOnce, Elected
    PROVE  ElectionSafety
<1> SUFFICES ASSUME NEW a \in leaders, NEW b \in leaders, a[1] = b[1] PROVE a[2] = b[2]
    BY DEF ElectionSafety
<1>1. PICK Q \in Majorities : \A j \in Q : <<j, a[1], a[2]>> \in votes
    BY DEF Elected
<1>2. PICK R \in Majorities : \A j \in R : <<j, b[1], b[2]>> \in votes
    BY DEF Elected
<1>3. PICK j : j \in Q /\ j \in R
    BY DEF CountingFacts
<1>4. <<j, a[1], a[2]>> \in votes /\ <<j, b[1], b[2]>> \in votes
    BY <1>1, <1>2, <1>3
<1> QED
    BY <1>4 DEF VoteOnce

(* Hence a term has one leader. *)
LEMMA ElectedInvariant ==
    ASSUME CountingFacts, AtomicCheck
    PROVE  Spec /\ []TypeOK => []ElectionSafety
<1>1. Init => Elected
    BY DEF Init, Elected
<1>2. TypeOK /\ ElectionInv /\ Elected /\ [Next]_vars => Elected'
    BY ElectedStep
<1>3. TypeOK /\ ElectionInv /\ Elected => ElectionSafety
    BY MajoritiesElectOne DEF ElectionInv
<1> QED
    BY <1>1, <1>2, <1>3, ElectionInvariant, PTL DEF Spec
=============================================================================
