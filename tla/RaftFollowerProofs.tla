------------------------- MODULE RaftFollowerProofs -------------------------
(***************************************************************************)
(* The invariant of the logs is preserved by the steps of a follower, that *)
(* is by AppendEntries, and by crashes.                                    *)
(***************************************************************************)
EXTENDS RaftHistoryProofs

(* A leaf is left to Zenon unless it names another prover. *)
USE ZenonT(60)

-----------------------------------------------------------------------------
(* The replies of AppendEntries *)

(* The last index that m covers. *)
End(m) == m.PrevLogIndex + Len(m.Entries)

(* The reply r to m. *)
Answers(m, r, success, miss, len, start) ==
    /\ r.from = m.from /\ r.to = m.to /\ r.termTemp = m.Term
    /\ r.PrevLogIndex = m.PrevLogIndex /\ r.Count = Len(m.Entries)
    /\ r.Success = success /\ r.Miss = miss /\ r.Len = len /\ r.TermStart = start

(* AppendEntries sends that reply, if anybody waits for it. *)
LEMMA ReplyFacts ==
    ASSUME NEW m, NEW success, NEW miss, NEW len, NEW conflict, NEW start,
           AppendEntriesReply(m, success, miss, len, conflict, start)
    PROVE  /\ isRep' \subseteq isRep
           /\ \A r \in aeRep' : r \in aeRep \/ (m.live /\ Answers(m, r, success, miss, len, start))
<1>1. PICK q : q = [from |-> m.from, to |-> m.to, termTemp |-> m.Term,
                    PrevLogIndex |-> m.PrevLogIndex, Count |-> Len(m.Entries), Term |-> currentTerm[m.to],
                    Success |-> success, Miss |-> miss, Len |-> len,
                    TermConflict |-> conflict, TermStart |-> start]
    OBVIOUS
<1>2. Answers(m, q, success, miss, len, start)
    BY <1>1 DEF Answers
<1>3. AnswerCall(m, {q}, {})
    BY <1>1 DEF AppendEntriesReply
<1>4. CASE m.live
    <2>1. aeRep' = (aeRep \ Overtaken(aeRep, m.from, m.to)) \cup {q} /\ isRep' = (isRep \ Overtaken(isRep, m.from, m.to)) \cup {}
        BY <1>3, <1>4 DEF AnswerCall
    <2> QED
        BY <1>2, <1>4, <2>1
<1>5. CASE ~m.live
    BY <1>3, <1>5 DEF AnswerCall
<1> QED
    BY <1>4, <1>5

(* What the reply says is true. *)
LEMMA NewAnswer ==
    ASSUME NEW T, NEW W, NEW V, Moves(T, W, T, V), TermsCalm, NEW m \in aeReq, m.live,
           NEW r, NEW success, NEW miss, NEW len, NEW start, Answers(m, r, success, miss, len, start),
           success => <<m.to, m.Term, End(m)>> \in V, miss => len <= m.PrevLogIndex, start <= m.PrevLogIndex
    PROVE  AnswerAt(T, V, r)'
<1>1. TypeOK /\ TypeOK' /\ TermsGrow /\ Extends(T, W, T, V) /\ LedInv(T) /\ SentAt(T, W, m)
    BY DEF Moves, History, SentInv
<1>2. m.from \in Server /\ m.Term \in Nat /\ m.PrevLogIndex \in Nat /\ m.Entries \in Seq(Entry)
    BY <1>1 DEF TypeOK, AppendNetTypes, AppendRequest
<1>3. /\ m.from # m.to /\ <<m.Term, m.from>> \in leaders
      /\ m.Term = currentTerm[m.from] => tp[m.from] = Leader
      /\ Slice(m, T[m.Term])
    BY <1>1 DEF SentAt
<1>4. m.Term <= currentTerm[m.from] /\ m.Term \in DOMAIN T
    <2>1. <<m.Term, m.from>>[1] = m.Term /\ <<m.Term, m.from>>[2] = m.from
        OBVIOUS
    <2> QED
        BY <1>1, <1>3, <2>1 DEF LedInv
<1>5. m.Term = currentTerm'[m.from] => tp'[m.from] = Leader
    <2>1. m.Term = currentTerm'[m.from] => currentTerm'[m.from] = currentTerm[m.from]
        BY <1>1, <1>2, <1>4, TermFacts, SMT
    <2>2. Stays(m.from)
        BY <1>2 DEF TermsCalm
    <2> QED
        BY <1>3, <2>1, <2>2 DEF Stays
<1>6. <<m.Term, m.from>> \in leaders'
    BY <1>1, <1>3 DEF Extends
<1>7. End(m) <= Len(T[m.Term]) /\ (Len(m.Entries) > 0 => T[m.Term][End(m)].Term = m.Term)
    <2>1. End(m) <= Len(T[m.Term]) /\ (m.Entries # <<>> => T[m.Term][End(m)].Term = m.Term)
        BY <1>3 DEF Slice, End
    <2>2. Len(m.Entries) > 0 => m.Entries # <<>>
        BY <1>2, SMT
    <2> QED
        BY <2>1, <2>2
<1>8. /\ r.from = m.from /\ r.to = m.to /\ r.termTemp = m.Term
      /\ r.PrevLogIndex = m.PrevLogIndex /\ r.Count = Len(m.Entries)
      /\ r.Success = success /\ r.Miss = miss /\ r.Len = len /\ r.TermStart = start
    BY DEF Answers
<1> QED
    BY <1>3, <1>5, <1>6, <1>7, <1>8 DEF AnswerAt, End

(* So the replies on their way remain true. *)
LEMMA AnswersFrame ==
    ASSUME NEW T, NEW W, NEW V, Moves(T, W, T, V), TermsCalm, NEW m \in aeReq,
           NEW success, NEW miss, NEW len, NEW conflict, NEW start,
           AppendEntriesReply(m, success, miss, len, conflict, start),
           success => <<m.to, m.Term, End(m)>> \in V, miss => len <= m.PrevLogIndex, start <= m.PrevLogIndex
    PROVE  AnswerInv(T, V)' /\ isRep' \subseteq isRep
<1>1. /\ isRep' \subseteq isRep
      /\ \A r \in aeRep' : r \in aeRep \/ (m.live /\ Answers(m, r, success, miss, len, start))
    BY ReplyFacts
<1>2. \A r \in aeRep : Stays(r.from)
    BY DEF Moves, TypeOK, AppendNetTypes, AppendAnswer, TermsCalm
<1>3. \A r \in aeRep : AnswerAt(T, V, r)'
    BY <1>2, AnswerFrame
<1>4. \A r \in aeRep' : AnswerAt(T, V, r)'
    BY <1>1, <1>3, NewAnswer
<1> QED
    BY <1>1, <1>4 DEF AnswerInv

(* An AppendEntries that is refused. *)
LEMMA RefuseHistory ==
    ASSUME SearchFacts, TypeOK, TypeOK', SnapFree, ElectionInv, NEW T, NEW W, History(T, W), NEW m \in aeReq,
           AppendEntriesStale(m) \/ AppendEntriesReject(m), aeReq' \subseteq aeReq,
           UNCHANGED <<leaderVars, installs, voteNet, isReq, votes, leaders>>
    PROVE  History(T, W)'
<1>1. PICK i \in Server : i = m.to
    BY DEF TypeOK, AppendNetTypes, AppendRequest
<1>2. m.Term \in Nat /\ m.PrevLogIndex \in Nat /\ log[i] \in Seq(Entry) /\ Len(log[i]) \in Nat /\ snapshotIndex[i] = 0
    BY LogFacts DEF TypeOK, AppendNetTypes, AppendRequest, LogTypes, SnapFree
<1>3. /\ UNCHANGED <<logVars, serviceVars>>
      /\ UNCHANGED termVars \/ AcceptLeader(i, m.Term)
    BY <1>1 DEF AppendEntriesStale, AppendEntriesReject
<1>4. TermsCalm
    BY <1>2, <1>3, TermsSame, TermsAccept
<1>5. UNCHANGED <<log, leaders, nextIndex, matchIndex, startAppend, commitIndex, applied, votes, rvReq, isReq, installs>>
    BY <1>3 DEF logVars, leaderVars, voteNet, serviceVars
<1>6. /\ HistTypes(T, W)' /\ LedInv(T)' /\ SoundInv(T)' /\ AcceptInv(T, W)' /\ KeptInv(T, W)'
      /\ WonInv(T, W)' /\ CommitUpToDate' /\ AppliedInv(T, W)' /\ SentInv(T, W)' /\ CommitInv(T, W)'
      /\ AskInv' /\ VotedInv(T, W)' /\ LeadInv(W)'
    BY <1>4, <1>5, QuietBase
<1>7. Moves(T, W, T, W)
    BY <1>4, <1>5, QuietMoves DEF TermsCalm
<1>8. AnswerInv(T, W)' /\ isRep' \subseteq isRep
    <2>1. CASE AppendEntriesStale(m)
        <3>1. PICK z : z = 0
            OBVIOUS
        <3>2. AppendEntriesReply(m, FALSE, FALSE, z, z, z)
            BY <2>1, <3>1 DEF AppendEntriesStale
        <3>3. z <= m.PrevLogIndex
            BY <1>2, <3>1, SMT
        <3> QED
            BY <1>4, <1>7, <3>2, <3>3, AnswersFrame
    <2>2. CASE AppendEntriesReject(m)
        <3>1. PrevPosition(i, m) = m.PrevLogIndex
            BY <1>2, SMT DEF PrevPosition
        <3>2. CASE m.PrevLogIndex > Len(log[i])
            <4>1. AppendEntriesReply(m, FALSE, TRUE, LastLogIndex(i) + 1, 0, 0)
                BY <1>1, <2>2, <3>1, <3>2 DEF AppendEntriesReject
            <4>2. LastLogIndex(i) + 1 <= m.PrevLogIndex /\ 0 <= m.PrevLogIndex
                BY <1>2, <3>2, SMT DEF LastLogIndex
            <4> QED
                BY <1>4, <1>7, <4>1, <4>2, AnswersFrame
        <3>3. CASE ~(m.PrevLogIndex > Len(log[i]))
            <4>1. PICK start : start = findEntry(log[i], m.PrevLogIndex) + snapshotIndex[i]
                OBVIOUS
            <4>2. AppendEntriesReply(m, FALSE, FALSE, 0, log[i][m.PrevLogIndex].Term, start)
                BY <1>1, <2>2, <3>1, <3>3, <4>1 DEF AppendEntriesReject
            <4>3. start <= m.PrevLogIndex
                BY <1>2, <4>1, SMT DEF SearchFacts
            <4> QED
                BY <1>4, <1>7, <4>2, <4>3, AnswersFrame
        <3> QED
            BY <3>2, <3>3
    <2> QED
        BY <2>1, <2>2
<1>9. InstallsInv'
    <2>1. \A k \in Server : \A t : Started(k, t) => Started(k, t)'
        BY <1>4, <1>5, QuietStarted DEF TermsCalm
    <2>2. /\ \A k \in Server : \A h \in installs'[k] : Started(k, h.termTemp)
          /\ (\A n \in isReq' : Started(n.from, n.termTemp)) /\ (\A r \in isRep' : Started(r.from, r.termTemp))
        BY <1>5, <1>8 DEF History, InstallsInv
    <2> QED
        BY <2>1, <2>2, InstallsFrame
<1> QED
    BY <1>6, <1>8, <1>9 DEF History

-----------------------------------------------------------------------------
(* AppendEntries accepts *)

(* M is a log for i that holds what m covers, as the log of the leader of  *)
(* its term does: either the log of i already did, or M ends with m.       *)
Merges(T, W, i, m, M) ==
    /\ m.Term \in DOMAIN T /\ i # m.from /\ <<m.Term, m.from>> \in leaders /\ <<m.Term, i>> \notin leaders
    /\ currentTerm[i] <= m.Term
    /\ M \in Seq(Entry) /\ Agree(M, T[m.Term], End(m)) /\ (M = log[i] \/ Len(M) = End(m))
    /\ \A k \in 1 .. Len(T[m.Term]) : T[m.Term][k].Term # m.Term => k <= End(m)
    /\ \A w \in W : w[1] = i /\ w[2] = m.Term => w[3] <= End(m)
    /\ m.LeaderCommit <= End(m)

(* The log that AppendEntries makes of its own and the new entries. *)
LEMMA MergeFacts ==
    ASSUME TypeOK, ElectionSafety, SnapFree, NEW T, NEW W, History(T, W), NEW m \in aeReq,
           m.Term >= currentTerm[m.to], PrevMatches(m.to, m)
    PROVE  Merges(T, W, m.to, m, MergedLog(m.to, m))
<1>1. PICK i \in Server : i = m.to
    BY DEF TypeOK, AppendNetTypes, AppendRequest
<1>2. PICK p \in Nat : p = m.PrevLogIndex
    BY DEF TypeOK, AppendNetTypes, AppendRequest
<1>3. PICK E \in Seq(Entry) : E = m.Entries
    BY DEF TypeOK, AppendNetTypes, AppendRequest
<1>4. PICK u \in Nat : u = m.Term
    BY DEF TypeOK, AppendNetTypes, AppendRequest
<1>5. PICK end \in Nat : end = p + Len(E) /\ end = End(m)
    BY <1>2, <1>3, LogFacts, SMT DEF End
<1>6. PICK L \in Seq(Entry) : L = log[i]
    BY DEF TypeOK, LogTypes
<1>7. HistTypes(T, W) /\ SoundInv(T) /\ LedInv(T) /\ SentAt(T, W, m) /\ Sound(T, L, currentTerm[i])
    BY <1>6 DEF History, SentInv, SoundInv
<1>8. /\ i # m.from /\ <<u, m.from>> \in leaders /\ Slice(m, T[u])
      /\ \A w \in W : w[1] = i /\ w[2] = u => w[3] <= end
    BY <1>1, <1>4, <1>5, <1>7 DEF SentAt, End
<1>9. u \in DOMAIN T /\ <<u, i>> \notin leaders
    <2>1. /\ <<u, m.from>>[1] = u /\ <<u, m.from>>[2] = m.from /\ <<u, i>>[1] = u /\ <<u, i>>[2] = i
        OBVIOUS
    <2> QED
        BY <1>7, <1>8, <2>1 DEF LedInv, ElectionSafety
<1>10. PICK R \in Seq(Entry) : R = T[u] /\ Sound(T, R, u)
    BY <1>7, <1>9, HistFacts DEF SoundInv
<1>11. /\ end <= Len(R) /\ (\A k \in 1 .. Len(E) : E[k] = R[p + k]) /\ (p > 0 => m.PrevLogTerm = R[p].Term)
       /\ (\A k \in 1 .. Len(R) : R[k].Term # u => k <= end) /\ m.LeaderCommit <= end
    BY <1>2, <1>3, <1>4, <1>5, <1>8, <1>10 DEF Slice, End
<1>12. PrevPosition(i, m) = p /\ LastPosition(i, m) = end /\ 1 - p \in Int
    BY <1>2, <1>3, <1>5, SMT DEF PrevPosition, LastPosition, SnapFree
<1>13. Len(L) \in Nat /\ Len(R) \in Nat /\ Len(E) \in Nat
    BY LogFacts
<1>14. p > 0 => Agree(L, R, p)
    <2> SUFFICES ASSUME p > 0 PROVE Agree(L, R, p)
        OBVIOUS
    <2>1. p <= Len(L) /\ L[p].Term = m.PrevLogTerm
        BY <1>1, <1>6, <1>12 DEF PrevMatches
    <2>2. Has(L, R[p].Term, p) /\ Has(R, R[p].Term, p)
        BY <1>5, <1>11, <1>13, <2>1, SMTT(30) DEF Has
    <2> QED
        BY <1>7, <1>10, <2>2, SoundAgree
<1>15. PICK M : M = MergedLog(i, m)
    OBVIOUS
<1>16. CASE AlreadyHave(i, m)
    <2>1. M = L
        BY <1>6, <1>15, <1>16 DEF MergedLog
    <2>2. end <= 0 \/ (end < Len(L) /\ L[end].Term = u)
        BY <1>4, <1>6, <1>12, <1>16 DEF AlreadyHave
    <2>3. Agree(L, R, end)
        <3>1. CASE end <= 0
            BY <1>5, <1>13, <3>1, SMT DEF Agree
        <3>2. CASE ~(end <= 0)
            <4>1. Has(L, u, end)
                BY <1>13, <2>2, <3>2, SMT DEF Has
            <4> QED
                BY <1>7, <1>10, <4>1, SoundHas
        <3> QED
            BY <3>1, <3>2
    <2> QED
        BY <1>1, <1>4, <1>5, <1>6, <1>8, <1>9, <1>10, <1>11, <1>15, <2>1, <2>3 DEF Merges
<1>17. CASE ~AlreadyHave(i, m)
    <2>1. M \in Seq(Entry) /\ Len(M) = end /\ Agree(M, R, end)
        <3>1. CASE p > 0
            <4>1. M = SubSeq(L, 1, p) \o E
                BY <1>3, <1>6, <1>12, <1>15, <1>17, <3>1 DEF MergedLog
            <4>2. p <= Len(L) /\ \A k \in 1 .. p : L[k] = R[k]
                BY <1>14, <3>1 DEF Agree
            <4>3. PICK P : P = SubSeq(L, 1, p)
                OBVIOUS
            <4>4. P \in Seq(Entry) /\ Len(P) = p /\ \A k \in 1 .. p : P[k] = L[k]
                BY <1>13, <4>2, <4>3, SMT
            <4>5. M \in Seq(Entry) /\ Len(M) = p + Len(E)
                BY <4>1, <4>3, <4>4, SMT
            <4>6. \A k \in 1 .. p + Len(E) : M[k] = IF k <= p THEN P[k] ELSE E[k - p]
                BY <4>1, <4>3, <4>4, SMT
            <4>7. \A k \in 1 .. end : M[k] = R[k]
                <5> SUFFICES ASSUME NEW k \in 1 .. p + Len(E) PROVE M[k] = R[k]
                    BY <1>5
                <5>1. CASE k <= p
                    BY <4>2, <4>4, <4>6, <5>1, SMTT(30)
                <5>2. CASE ~(k <= p)
                    <6>1. k - p \in 1 .. Len(E) /\ p + (k - p) = k
                        BY <1>13, <5>2, SMT
                    <6>2. M[k] = E[k - p]
                        BY <4>6, <5>2
                    <6>3. E[k - p] = R[p + (k - p)]
                        BY <1>11, <6>1
                    <6> QED
                        BY <6>1, <6>2, <6>3
                <5> QED
                    BY <5>1, <5>2
            <4> QED
                BY <1>5, <1>11, <4>5, <4>7, SMT DEF Agree
        <3>2. CASE ~(p > 0)
            <4>0. p = 0 /\ 1 - p = 1
                BY <3>2, SMT
            <4>1. M = SubSeq(E, 1, Len(E))
                BY <1>3, <1>12, <1>15, <1>17, <3>2, <4>0 DEF MergedLog
            <4>2. M \in Seq(Entry) /\ Len(M) = Len(E) /\ \A k \in 1 .. Len(E) : M[k] = E[k]
                BY <1>13, <4>1, SMT
            <4> QED
                BY <1>5, <1>11, <1>13, <4>0, <4>2, SMT DEF Agree
        <3> QED
            BY <3>1, <3>2
    <2> QED
        BY <1>1, <1>4, <1>5, <1>6, <1>8, <1>9, <1>10, <1>11, <1>15, <2>1 DEF Merges
<1> QED
    BY <1>16, <1>17

(* The types of a merge. *)
LEMMA MergeTypes ==
    ASSUME TypeOK, NEW T, NEW W, HistTypes(T, W), NEW i \in Server, NEW m \in aeReq, NEW M, Merges(T, W, i, m, M)
    PROVE  /\ m.Term \in Nat /\ m.LeaderCommit \in Nat /\ End(m) \in Nat /\ currentTerm[i] \in Nat
           /\ T[m.Term] \in Seq(Entry) /\ Len(T[m.Term]) \in Nat /\ M \in Seq(Entry) /\ Len(M) \in Nat
           /\ log[i] \in Seq(Entry) /\ Len(log[i]) \in Nat /\ commitIndex[i] \in Nat
<1>1. m.Term \in Nat /\ m.LeaderCommit \in Nat /\ m.PrevLogIndex \in Nat /\ m.Entries \in Seq(Entry)
    BY DEF TypeOK, AppendNetTypes, AppendRequest
<1>2. End(m) \in Nat
    BY <1>1, LogFacts, SMT DEF End
<1>3. T[m.Term] \in Seq(Entry) /\ M \in Seq(Entry)
    BY HistFacts DEF Merges
<1>4. log[i] \in Seq(Entry) /\ commitIndex[i] \in Nat /\ currentTerm[i] \in Nat
    BY DEF TypeOK, TermTypes, LogTypes, ServiceTypes
<1> QED
    BY <1>1, <1>2, <1>3, <1>4, LogFacts

(* What i has committed is covered by m: it was chosen in an earlier term, *)
(* so the leader has it and sends it, or i has accepted it from that       *)
(* leader.                                                                 *)
LEMMA MergeCommit ==
    ASSUME CountingFacts, TypeOK, NEW T, NEW W, History(T, W), NEW i \in Server, NEW m \in aeReq,
           NEW M, Merges(T, W, i, m, M)
    PROVE  commitIndex[i] <= End(m) /\ Agree(log[i], M, commitIndex[i])
<1>1. PICK u : u = m.Term
    OBVIOUS
<1>2. PICK end : end = End(m)
    OBVIOUS
<1>3. PICK c : c = commitIndex[i]
    OBVIOUS
<1>4. PICK L : L = log[i]
    OBVIOUS
<1>5. PICK R : R = T[u]
    OBVIOUS
<1>6. HistTypes(T, W) /\ SoundInv(T) /\ AcceptInv(T, W) /\ WonInv(T, W) /\ CommitAt(T, W, i)
    BY DEF History, CommitInv
<1>7. /\ u \in Nat /\ end \in Nat /\ c \in Nat /\ currentTerm[i] \in Nat /\ M \in Seq(Entry)
      /\ L \in Seq(Entry) /\ R \in Seq(Entry) /\ Len(L) \in Nat /\ Len(R) \in Nat
    BY <1>1, <1>2, <1>3, <1>4, <1>5, <1>6, MergeTypes
<1>8. /\ u \in DOMAIN T /\ <<u, i>> \notin leaders /\ currentTerm[i] <= u
      /\ Agree(M, R, end) /\ (\A k \in 1 .. Len(R) : R[k].Term # u => k <= end)
      /\ \A w \in W : w[1] = i /\ w[2] = u => w[3] <= end
    BY <1>1, <1>2, <1>5 DEF Merges
<1>9. ASSUME c <= end, Agree(L, R, c) PROVE commitIndex[i] <= End(m) /\ Agree(log[i], M, commitIndex[i])
    <2>1. Agree(M, R, c) /\ R \in Seq(Entry)
        <3>1. c \in 0 .. end
            BY <1>7, <1>9, NatOrder
        <3> QED
            BY <1>7, <1>8, <3>1, AgreeFacts
    <2>2. Agree(R, M, c)
        BY <1>7, <2>1, AgreeFacts
    <2>3. Agree(L, M, c)
        BY <1>7, <1>9, <2>2, AgreeFacts
    <2> QED
        BY <1>2, <1>3, <1>4, <1>9, <2>3
<1>10. CASE c = 0
    <2>1. c <= end /\ Agree(L, R, c)
        BY <1>7, <1>10, SMT DEF Agree
    <2> QED
        BY <1>9, <2>1
<1>11. ASSUME c > 0, NEW b \in Int, b < u, Chosen(T, W, L, c, b) PROVE c <= end /\ Agree(L, R, c)
    <2>1. PICK t \in DOMAIN T : \E k \in 1 .. Len(T[t]) : t <= b /\ c <= k /\ Committed(T, W, t, k) /\ Agree(L, T[t], c)
        BY <1>11 DEF Chosen
    <2>2. PICK k \in 1 .. Len(T[t]) : t <= b /\ c <= k /\ Committed(T, W, t, k) /\ Agree(L, T[t], c)
        BY <2>1
    <2>3. t \in Nat /\ T[t] \in Seq(Entry) /\ Len(T[t]) \in Nat /\ k \in Nat
        BY <1>6, HistFacts, SMTT(30)
    <2>4. t < u
        BY <1>7, <1>11, <2>2, <2>3, SMT
    <2>5. Has(R, t, k)
        BY <1>5, <1>6, <1>8, <2>2, <2>4, CommittedStays
    <2>6. Sound(T, R, u)
        BY <1>5, <1>6, <1>8 DEF SoundInv
    <2>7. Agree(R, T[t], k)
        BY <1>6, <1>7, <2>5, <2>6, SoundHas
    <2>8. k <= end
        <3>1. t # u
            BY <1>7, <2>3, <2>4, NatOrder
        <3> QED
            BY <1>8, <2>5, <3>1 DEF Has
    <2>9. Agree(T[t], R, c)
        <3>1. c \in 0 .. k
            BY <1>7, <2>2, <2>3, NatOrder
        <3> QED
            BY <1>7, <2>3, <2>7, <3>1, AgreeFacts
    <2>10. Agree(L, R, c)
        BY <1>7, <2>2, <2>3, <2>9, AgreeFacts
    <2> QED
        BY <1>7, <2>2, <2>3, <2>8, <2>10, NatOrder
<1>12. /\ Chosen(T, W, L, c, currentTerm[i])
       /\ \/ <<currentTerm[i], i>> \in leaders
          \/ \E w \in W : w[1] = i /\ w[2] = currentTerm[i] /\ c <= w[3]
          \/ Chosen(T, W, L, c, currentTerm[i] - 1)
    BY <1>3, <1>4, <1>6 DEF CommitAt
<1>13. CASE c > 0 /\ currentTerm[i] < u
    BY <1>7, <1>9, <1>11, <1>12, <1>13, SMT
<1>14. CASE c > 0 /\ currentTerm[i] = u
    <2>1. CASE Chosen(T, W, L, c, currentTerm[i] - 1)
        <3>1. currentTerm[i] - 1 \in Int /\ currentTerm[i] - 1 < u
            BY <1>7, <1>14, SMT
        <3> QED
            BY <1>9, <1>11, <1>14, <2>1, <3>1
    <2>2. CASE \E w \in W : w[1] = i /\ w[2] = currentTerm[i] /\ c <= w[3]
        <3>1. PICK w \in W : w[1] = i /\ w[2] = u /\ c <= w[3]
            BY <1>14, <2>2
        <3>2. w[3] \in Nat /\ w[3] <= end /\ Agree(L, R, w[3])
            BY <1>4, <1>5, <1>6, <1>8, <1>14, <3>1 DEF HistTypes, AcceptInv, AcceptAt
        <3>3. c <= end /\ Agree(L, R, c)
            BY <1>7, <3>1, <3>2, AgreeFacts, SMT
        <3> QED
            BY <1>9, <3>3
    <2> QED
        BY <1>8, <1>12, <1>14, <2>1, <2>2
<1> QED
    BY <1>7, <1>8, <1>10, <1>13, <1>14, SMTT(30)

(* i takes over the log M, and V records that it has accepted m. *)
AcceptStep(T, W, V, i, m, M) ==
    /\ Merges(T, W, i, m, M) /\ V = W \cup {<<i, m.Term, End(m)>>}
    /\ AcceptLeader(i, m.Term) /\ log' = [log EXCEPT ![i] = M] /\ leaders' = leaders

(* What an accepted AppendEntries adds to the histories. *)
LEMMA AcceptMoves ==
    ASSUME TypeOK, TypeOK', ElectionInv, NEW T, NEW W, History(T, W), NEW i \in Server, NEW m \in aeReq,
           NEW M, NEW V, AcceptStep(T, W, V, i, m, M)
    PROVE  /\ Moves(T, W, T, V) /\ TermsCalm /\ tp'[i] = Follower /\ currentTerm'[i] = m.Term /\ log'[i] = M
           /\ \A j \in Server : j # i => currentTerm'[j] = currentTerm[j] /\ tp'[j] = tp[j] /\ log'[j] = log[j]
<1>1. HistTypes(T, W) /\ LedInv(T)
    BY DEF History
<1>2. /\ Merges(T, W, i, m, M) /\ V = W \cup {<<i, m.Term, End(m)>>}
      /\ AcceptLeader(i, m.Term) /\ log' = [log EXCEPT ![i] = M] /\ leaders' = leaders
    BY DEF AcceptStep
<1>3. /\ m.Term \in Nat /\ End(m) \in Nat /\ T[m.Term] \in Seq(Entry) /\ currentTerm[i] \in Nat
      /\ m.Term \in DOMAIN T /\ currentTerm[i] <= m.Term /\ <<m.Term, i>> \notin leaders
    BY <1>1, <1>2, MergeTypes, SMTT(30) DEF Merges
<1>4. /\ currentTerm \in [Server -> Nat] /\ tp \in [Server -> {Follower, Candidate, Leader}]
      /\ log \in [Server -> Seq(Entry)]
    BY DEF TypeOK, TermTypes, LogTypes
<1>5. tp[i] = Leader => m.Term # currentTerm[i]
    BY <1>1, <1>3 DEF LedInv
<1>6. currentTerm'[i] = m.Term /\ tp'[i] = Follower /\ log'[i] = M
    <2>1. CASE m.Term > currentTerm[i]
        BY <1>2, <1>4, <2>1 DEF AcceptLeader, termUpdate
    <2>2. CASE ~(m.Term > currentTerm[i])
        BY <1>2, <1>3, <1>4, <1>5, <2>2, SMTT(30) DEF AcceptLeader, Follower, Candidate, Leader
    <2> QED
        BY <2>1, <2>2
<1>7. \A j \in Server : j # i => currentTerm'[j] = currentTerm[j] /\ tp'[j] = tp[j] /\ log'[j] = log[j]
    BY <1>2, <1>4 DEF AcceptLeader, termUpdate
<1>8. TermsCalm
    BY <1>2, <1>3, TermsAccept
<1>9. TermsGrow
    <2>1. \A j \in Server : currentTerm[j] <= currentTerm[j]
        BY <1>4, SMT
    <2> QED
        BY <1>3, <1>6, <1>7, <2>1 DEF TermsGrow
<1>10. CandidatesKept
    BY <1>6, <1>7, SMTT(30) DEF CandidatesKept, Follower, Candidate
<1>11. Extends(T, W, T, V)
    <2>1. HistTypes(T, V)
        BY <1>1, <1>2, <1>3, SMT DEF HistTypes
    <2>2. W \subseteq V
        BY <1>2
    <2>3. Extends(T, W, T, W)
        BY <1>1, <1>2, SameHistory
    <2> QED
        BY <2>1, <2>2, <2>3 DEF Extends
<1>12. Frozen(T, W, T, V)
    <2> SUFFICES ASSUME NEW j \in Server, NEW t \in DOMAIN T, NEW k, t < currentTerm[j], Acked(T, V, j, t, k)'
                 PROVE  Acked(T, W, j, t, k)
        BY DEF Frozen
    <2>1. t \in DOMAIN T /\ Has(T[t], t, k) /\ (<<t, j>> \in leaders' \/ \E w \in V : w[1] = j /\ w[2] = t /\ k <= w[3])
        BY DEF Acked, Has
    <2>2. \A w \in V : w \in W \/ (w[1] = i /\ w[2] = m.Term)
        BY <1>2, SMTT(30)
    <2>3. ~(j = i /\ t = m.Term)
        BY <1>3, SMT
    <2> QED
        BY <1>2, <2>1, <2>2, <2>3 DEF Acked
<1> QED
    BY <1>6, <1>7, <1>8, <1>9, <1>10, <1>11, <1>12 DEF Moves

(* The logs after i has accepted m. *)
LEMMA AcceptLogs ==
    ASSUME TypeOK, TypeOK', ElectionInv, NEW T, NEW W, History(T, W), NEW i \in Server, NEW m \in aeReq,
           NEW M, NEW V, AcceptStep(T, W, V, i, m, M)
    PROVE  LedInv(T)' /\ SoundInv(T)' /\ AcceptInv(T, V)' /\ KeptInv(T, V)'
<1>1. PICK u : u = m.Term
    OBVIOUS
<1>2. PICK end : end = End(m)
    OBVIOUS
<1>3. PICK R : R = T[u]
    OBVIOUS
<1>4. PICK L : L = log[i]
    OBVIOUS
<1>5. HistTypes(T, W) /\ LedInv(T) /\ SoundInv(T) /\ AcceptInv(T, W) /\ KeptInv(T, W)
    BY DEF History
<1>6. Merges(T, W, i, m, M) /\ V = W \cup {<<i, u, end>>} /\ leaders' = leaders
    BY <1>1, <1>2 DEF AcceptStep
<1>7. /\ u \in Nat /\ end \in Nat /\ currentTerm[i] \in Nat /\ M \in Seq(Entry) /\ Len(M) \in Nat
      /\ L \in Seq(Entry) /\ R \in Seq(Entry) /\ Len(L) \in Nat /\ Len(R) \in Nat
    BY <1>1, <1>2, <1>3, <1>4, <1>5, <1>6, MergeTypes
<1>8. /\ u \in DOMAIN T /\ <<u, i>> \notin leaders /\ currentTerm[i] <= u
      /\ Agree(M, R, end) /\ (M = L \/ Len(M) = end)
      /\ (\A k \in 1 .. Len(R) : R[k].Term # u => k <= end)
      /\ \A w \in W : w[1] = i /\ w[2] = u => w[3] <= end
    BY <1>1, <1>2, <1>3, <1>4, <1>6 DEF Merges
<1>9. /\ Moves(T, W, T, V) /\ tp'[i] = Follower /\ currentTerm'[i] = u /\ log'[i] = M
      /\ \A j \in Server : j # i => currentTerm'[j] = currentTerm[j] /\ tp'[j] = tp[j] /\ log'[j] = log[j]
    BY <1>1, AcceptMoves, SMTT(30)
<1>10. LedInv(T)'
    <2>1. \A t \in DOMAIN T : \E j \in Server : <<t, j>> \in leaders'
        BY <1>5, <1>6 DEF LedInv
    <2>2. ASSUME NEW l \in leaders'
          PROVE  /\ l[1] \in DOMAIN T /\ l[1] <= currentTerm'[l[2]]
                 /\ l[1] = currentTerm'[l[2]] => tp'[l[2]] # Candidate /\ log'[l[2]] = T[l[1]]
        <3>1. /\ l \in leaders /\ l = <<l[1], l[2]>> /\ l[1] \in Nat /\ l[2] \in Server
              /\ l[1] \in DOMAIN T /\ l[1] <= currentTerm[l[2]]
              /\ l[1] = currentTerm[l[2]] => tp[l[2]] # Candidate /\ log[l[2]] = T[l[1]]
            BY <1>5, <1>6, SMTT(30) DEF LedInv, TypeOK, OtherTypes
        <3>2. CASE l[2] = i
            <4>1. l[1] # u
                BY <1>8, <3>1, <3>2
            <4> QED
                BY <1>7, <1>8, <1>9, <3>1, <3>2, <4>1, SMTT(30)
        <3>3. CASE l[2] # i
            BY <1>9, <3>1, <3>3
        <3> QED
            BY <3>2, <3>3
    <2>3. \A j \in Server : tp'[j] = Leader => <<currentTerm'[j], j>> \in leaders'
        BY <1>5, <1>6, <1>9, SMTT(30) DEF LedInv, Follower, Leader
    <2> QED
        BY <2>1, <2>2, <2>3 DEF LedInv
<1>11. SoundInv(T)'
    <2>1. Sound(T, L, currentTerm[i]) /\ Sound(T, R, u)
        BY <1>3, <1>4, <1>5, <1>8 DEF SoundInv
    <2>2. Sound(T, M, u)
        <3>1. CASE M = L
            <4>1. \A k \in 1 .. Len(L) : L[k].Term \in Nat
                BY <1>7, LogFacts
            <4> QED
                BY <1>7, <1>8, <2>1, <3>1, <4>1, SMTT(30) DEF Sound
        <3>2. CASE Len(M) = end
            <4> SUFFICES ASSUME NEW k \in 1 .. Len(M)
                         PROVE  M[k].Term \in DOMAIN T /\ M[k].Term <= u /\ Agree(M, T[M[k].Term], k)
                BY DEF Sound
            <4>1. k \in Nat /\ k \in 1 .. Len(R) /\ M[k] = R[k]
                BY <1>7, <1>8, <3>2, SMTT(30) DEF Agree
            <4>2. R[k].Term \in DOMAIN T /\ R[k].Term <= u /\ Agree(R, T[R[k].Term], k)
                BY <2>1, <4>1 DEF Sound
            <4>3. T[R[k].Term] \in Seq(Entry)
                BY <1>5, <4>2, HistFacts
            <4>4. Agree(M, R, k)
                BY <1>7, <1>8, <3>2, AgreeFacts, SMTT(30)
            <4>5. Agree(M, T[R[k].Term], k)
                BY <1>7, <4>1, <4>2, <4>3, <4>4, AgreeFacts
            <4> QED
                BY <4>1, <4>2, <4>5
        <3> QED
            BY <1>8, <3>1, <3>2
    <2>3. \A j \in Server : Sound(T, log'[j], currentTerm'[j])
        BY <1>9, <2>2, SoundFrame
    <2> QED
        BY <1>5, <2>3 DEF SoundInv, Sound, Agree
<1>12. AcceptInv(T, V)'
    <2>1. ASSUME NEW w \in W PROVE AcceptAt(T, w)'
        <3>1. /\ w[1] \in Server /\ w[2] \in Nat /\ w[3] \in Nat
              /\ w[2] \in DOMAIN T /\ w[2] <= currentTerm[w[1]] /\ w[3] <= Len(T[w[2]])
              /\ w[2] = currentTerm[w[1]] => Agree(log[w[1]], T[w[2]], w[3])
            BY <1>5 DEF HistTypes, AcceptInv, AcceptAt
        <3>2. CASE w[1] # i
            <4>1. currentTerm'[w[1]] = currentTerm[w[1]] /\ log'[w[1]] = log[w[1]]
                BY <1>9, <3>1, <3>2
            <4> QED
                BY <3>1, <4>1 DEF AcceptAt, Agree
        <3>3. CASE w[1] = i
            <4>1. w[2] <= currentTerm'[i]
                BY <1>7, <1>8, <1>9, <3>1, <3>3, NatOrder
            <4>2. w[2] = u => Agree(M, R, w[3])
                BY <1>7, <1>8, <3>1, <3>3, AgreeFacts, SMTT(30)
            <4> QED
                BY <1>3, <1>9, <3>1, <3>3, <4>1, <4>2 DEF AcceptAt, Agree
        <3> QED
            BY <3>2, <3>3
    <2>2. AcceptAt(T, <<i, u, end>>)'
        <3>1. <<i, u, end>>[1] = i /\ <<i, u, end>>[2] = u /\ <<i, u, end>>[3] = end /\ u <= u
            BY <1>7, SMT
        <3>2. end <= Len(R)
            BY <1>8 DEF Agree
        <3> QED
            BY <1>3, <1>8, <1>9, <3>1, <3>2 DEF AcceptAt, Agree
    <2>3. \A w \in V : AcceptAt(T, w)'
        BY <1>6, <2>1, <2>2
    <2> QED
        BY <2>3 DEF AcceptInv
<1>13. KeptInv(T, V)'
    <2>1. ASSUME NEW j \in Server, NEW t, NEW k, Acked(T, V, j, t, k)' PROVE KeptAt(T, j, t, k)'
        <3>1. /\ t \in DOMAIN T /\ Has(T[t], t, k)
              /\ <<t, j>> \in leaders \/ \E w \in V : w[1] = j /\ w[2] = t /\ k <= w[3]
            BY <1>6, <2>1 DEF Acked, Has
        <3>2. t \in Nat /\ k \in Nat /\ k \in 1 .. Len(T[t])
            BY <1>5, <3>1, HistFacts, SMTT(30) DEF Has
        <3>3. CASE j # i
            <4>1. \A w \in V : w[1] = j => w \in W
                BY <1>6, <3>3, SMT
            <4>2. Acked(T, W, j, t, k)
                BY <3>1, <4>1 DEF Acked
            <4> QED
                BY <1>9, <3>3, <4>2, KeptFrame
        <3>4. CASE j = i /\ t = u
            <4>1. PICK w \in V : w[1] = i /\ w[2] = u /\ k <= w[3]
                BY <1>8, <3>1, <3>4
            <4>2. w[3] \in Nat /\ w[3] <= end
                BY <1>5, <1>6, <1>7, <1>8, <4>1, SMTT(30) DEF HistTypes
            <4>3. Has(M, t, k)
                <5>1. k \in 1 .. end
                    BY <1>7, <3>2, <4>1, <4>2, SMT
                <5> QED
                    BY <1>3, <1>7, <1>8, <3>1, <3>4, <5>1, AgreeFacts
            <4> QED
                BY <1>9, <3>4, <4>3 DEF KeptAt, Has
        <3>5. CASE j = i /\ t # u
            <4>1. \A w \in V : w[1] = i /\ w[2] = t => w \in W
                BY <1>6, <3>5, SMT
            <4>2. Acked(T, W, i, t, k)
                BY <3>1, <3>5, <4>1 DEF Acked
            <4>3. t <= currentTerm[i]
                <5>1. <<t, i>>[1] = t /\ <<t, i>>[2] = i
                    OBVIOUS
                <5>2. <<t, i>> \in leaders => t <= currentTerm[i]
                    BY <1>5, <5>1 DEF LedInv
                <5>3. \A w \in W : w[1] = i /\ w[2] = t => t <= currentTerm[i]
                    BY <1>5 DEF AcceptInv, AcceptAt
                <5> QED
                    BY <3>1, <3>5, <4>1, <5>2, <5>3
            <4>4. t < u
                BY <1>7, <1>8, <3>2, <3>5, <4>3, SMTT(30)
            <4>5. CASE Has(R, t, k)
                <5>1. Has(M, t, k)
                    BY <1>7, <1>8, <3>5, <4>5, SMTT(30) DEF Has, Agree
                <5> QED
                    BY <1>9, <3>5, <5>1 DEF KeptAt, Has
            <4>6. CASE ~Has(R, t, k)
                <5>1. Lost(T, u, t, k)
                    BY <1>3, <1>8, <4>4, <4>6 DEF Lost
                <5>2. u <= currentTerm'[i]
                    BY <1>7, <1>9, SMTT(30)
                <5> QED
                    BY <1>8, <3>5, <5>1, <5>2 DEF KeptAt, Lost, Has
            <4> QED
                BY <4>5, <4>6
        <3> QED
            BY <3>3, <3>4, <3>5
    <2> QED
        BY <2>1 DEF KeptInv
<1> QED
    BY <1>10, <1>11, <1>12, <1>13

(* What i commits and applies when it has accepted m: n is its new         *)
(* commitIndex.                                                            *)
LEMMA AcceptCommit ==
    ASSUME CountingFacts, TypeOK, TypeOK', ElectionInv, NEW T, NEW W, History(T, W), NEW i \in Server, NEW m \in aeReq,
           NEW M, NEW V, AcceptStep(T, W, V, i, m, M),
           NEW n, n = commitIndex[i] \/ (commitIndex[i] < n /\ n = m.LeaderCommit),
           commitIndex' = [commitIndex EXCEPT ![i] = n], AppliesTo(M, commitIndex[i] + 1, n, m.Term)
    PROVE  /\ (\A j \in Server : CommitAt(T, V, j)') /\ AppliedInv(T, V)'
           /\ \A j \in Server : commitIndex[j] <= commitIndex'[j]
<1>1. PICK u : u = m.Term
    OBVIOUS
<1>2. PICK end : end = End(m)
    OBVIOUS
<1>3. PICK R : R = T[u]
    OBVIOUS
<1>4. PICK c : c = commitIndex[i]
    OBVIOUS
<1>5. PICK L : L = log[i]
    OBVIOUS
<1>6. PICK b : b = currentTerm[i]
    OBVIOUS
<1>7. PICK lc : lc = m.LeaderCommit
    OBVIOUS
<1>8. /\ HistTypes(T, W) /\ Chosen(T, W, L, c, b) /\ Chosen(T, W, R, lc, u)
    BY <1>1, <1>3, <1>4, <1>5, <1>6, <1>7 DEF History, CommitInv, CommitAt, CommitSent
<1>9. Merges(T, W, i, m, M) /\ V = W \cup {<<i, u, end>>}
    BY <1>1, <1>2 DEF AcceptStep
<1>10. /\ u \in Nat /\ lc \in Nat /\ end \in Nat /\ b \in Nat /\ M \in Seq(Entry) /\ Len(M) \in Nat
       /\ L \in Seq(Entry) /\ R \in Seq(Entry) /\ Len(L) \in Nat /\ Len(R) \in Nat /\ c \in Nat
    BY <1>1, <1>2, <1>3, <1>4, <1>5, <1>6, <1>7, <1>8, <1>9, MergeTypes
<1>11. /\ b <= u /\ Agree(M, R, end) /\ lc <= end
    BY <1>1, <1>2, <1>3, <1>5, <1>6, <1>7, <1>9 DEF Merges
<1>12. c <= end /\ Agree(L, M, c)
    BY <1>2, <1>4, <1>5, <1>9, MergeCommit
<1>13. /\ Moves(T, W, T, V) /\ currentTerm'[i] = u /\ log'[i] = M
       /\ \A j \in Server : j # i => currentTerm'[j] = currentTerm[j] /\ tp'[j] = tp[j] /\ log'[j] = log[j]
    BY <1>1, AcceptMoves, SMTT(30)
<1>14. Extends(T, W, T, V)
    BY <1>13 DEF Moves
<1>15. n \in Nat /\ (n = c \/ (c < n /\ n = lc)) /\ n <= end /\ c <= n
    BY <1>4, <1>7, <1>10, <1>11, <1>12, SMTT(30)
<1>16. commitIndex \in [Server -> Nat] /\ log \in [Server -> Seq(Entry)]
    BY DEF TypeOK, ServiceTypes, LogTypes
<1>17. commitIndex'[i] = n /\ \A j \in Server : j # i => commitIndex'[j] = commitIndex[j]
    BY <1>16
<1>18. Chosen(T, V, M, n, u)'
    <2>1. CASE n = c
        BY <1>8, <1>10, <1>11, <1>12, <1>14, <2>1, GrowsChosen, SMTT(30)
    <2>2. CASE n = lc
        <3>1. Agree(R, M, lc)
            BY <1>10, <1>11, SMTT(30) DEF Agree
        <3>2. u \in Int /\ u <= u
            BY <1>10, SMT
        <3> QED
            BY <1>8, <1>10, <1>14, <2>2, <3>1, <3>2, GrowsChosen
    <2> QED
        BY <1>15, <2>1, <2>2
<1>19. ASSUME NEW j \in Server PROVE CommitAt(T, V, j)'
    <2>1. CASE j # i
        <3>1. log'[j] = log[j] /\ commitIndex'[j] = commitIndex[j] /\ log[j] \in Seq(Entry) /\ commitIndex[j] \in Nat
            BY <1>13, <1>16, <1>17, <2>1
        <3>2. commitIndex[j] <= Len(log[j])
            BY DEF History, CommitInv, CommitAt, Chosen
        <3>3. Agree(log[j], log[j], commitIndex[j])
            BY <3>1, <3>2, AgreeSame
        <3>4. Agree(log[j], log'[j], commitIndex[j])
            BY <3>1, <3>3
        <3> QED
            BY <1>13, <3>1, <3>4, CommitFrame
    <2>2. CASE j = i
        <3>1. <<i, u, end>> \in V /\ <<i, u, end>>[1] = i /\ <<i, u, end>>[2] = u /\ <<i, u, end>>[3] = end
            BY <1>9
        <3>2. Chosen(T, V, log[i], commitIndex[i], currentTerm[i])'
            BY <1>13, <1>17, <1>18 DEF Chosen
        <3>3. \E w \in V : w[1] = i /\ w[2] = currentTerm'[i] /\ commitIndex'[i] <= w[3]
            BY <1>13, <1>15, <1>17, <3>1
        <3> QED
            BY <2>2, <3>2, <3>3 DEF CommitAt
    <2> QED
        BY <2>1, <2>2
<1>20. ASSUME NEW a \in applied' PROVE AppliedAt(T, V, a)'
    <2>1. CASE a \in applied
        BY <1>13, <2>1, AppliedFrame
    <2>2. CASE a \notin applied
        <3>1. PICK x \in c + 1 .. n : a = <<x, M[x], u>>
            BY <1>1, <1>4, <2>2 DEF AppliesTo
        <3>2. x \in Nat /\ x > 0 /\ x <= n /\ n > 0
            BY <1>10, <1>15, SMTT(30)
        <3>3. a[1] = x /\ a[2] = M[x] /\ a[3] = u
            BY <3>1
        <3>4. PICK t \in DOMAIN T : \E k \in 1 .. Len(T[t]) :
                  t <= u /\ n <= k /\ Committed(T, V, t, k)' /\ Agree(M, T[t], n)
            BY <1>18, <3>2 DEF Chosen
        <3>5. PICK k \in 1 .. Len(T[t]) : t <= u /\ n <= k /\ Committed(T, V, t, k)' /\ Agree(M, T[t], n)
            BY <3>4
        <3>6. x \in 1 .. n /\ x \in 1 .. k
            BY <1>15, <3>2, <3>5, SMTT(30)
        <3>7. T[t][x] = M[x]
            BY <3>5, <3>6 DEF Agree
        <3> QED
            BY <3>3, <3>5, <3>6, <3>7 DEF AppliedAt
    <2> QED
        BY <2>1, <2>2
<1>21. \A j \in Server : commitIndex[j] <= commitIndex'[j]
    BY <1>4, <1>15, <1>16, <1>17, SMTT(30)
<1> QED
    BY <1>19, <1>20, <1>21 DEF AppliedInv

(* No commitIndex falls, and only those of followers rise. *)
FollowerCommits ==
    \A j \in Server : commitIndex[j] <= commitIndex'[j] /\ (commitIndex'[j] # commitIndex[j] => tp'[j] = Follower)

(* An AppendEntries that is accepted.  W grows. *)
LEMMA AcceptHistory ==
    ASSUME CountingFacts, MedianFacts, TypeOK, TypeOK', SnapFree, ElectionInv, ElectionSafety,
           NEW T, NEW W, History(T, W), NEW m \in aeReq, AppendEntriesAccept(m), aeReq' = aeReq \ {m},
           UNCHANGED <<leaderVars, installs, voteNet, isReq, votes, leaders>>
    PROVE  (\E V : History(T, V)') /\ FollowerCommits
<1>1. PICK i \in Server : i = m.to
    BY DEF TypeOK, AppendNetTypes, AppendRequest
<1>2. PICK M : M = MergedLog(i, m)
    OBVIOUS
<1>3. PICK V : V = W \cup {<<i, m.Term, End(m)>>}
    OBVIOUS
<1>4. PICK n : n = IF m.LeaderCommit <= commitIndex[i] THEN commitIndex[i]
                   ELSE IF m.LeaderCommit <= Len(M) + snapshotIndex[i] THEN m.LeaderCommit
                   ELSE Len(M) + snapshotIndex[i]
    OBVIOUS
<1>5. /\ m.Term >= currentTerm[i] /\ PrevMatches(i, m) /\ AcceptLeader(i, m.Term)
      /\ log' = [log EXCEPT ![i] = M] /\ commitIndex' = [commitIndex EXCEPT ![i] = n]
      /\ Apply(i, m.Term, CommandMsgs(M, snapshotIndex[i], commitIndex[i] + 1, n, 2))
      /\ AppendEntriesReply(m, TRUE, FALSE, 0, 0, 0)
    BY <1>1, <1>2, <1>4 DEF AppendEntriesAccept
<1>6. Merges(T, W, i, m, M)
    BY <1>1, <1>2, <1>5, MergeFacts
<1>7. AcceptStep(T, W, V, i, m, M)
    BY <1>3, <1>5, <1>6 DEF AcceptStep
<1>8. HistTypes(T, W) /\ SentInv(T, W) /\ LedInv(T) /\ LeadInv(W) /\ InstallsInv /\ CommitUpToDate
    BY DEF History
<1>9. /\ m.Term \in Nat /\ m.LeaderCommit \in Nat /\ End(m) \in Nat /\ commitIndex[i] \in Nat
      /\ M \in Seq(Entry) /\ Len(M) \in Nat
    BY <1>6, <1>8, MergeTypes
<1>10. /\ Moves(T, W, T, V) /\ TermsCalm /\ tp'[i] = Follower /\ log'[i] = M
       /\ \A j \in Server : j # i => currentTerm'[j] = currentTerm[j] /\ tp'[j] = tp[j] /\ log'[j] = log[j]
    BY <1>7, AcceptMoves, SMTT(30)
<1>11. /\ LedInv(T)' /\ SoundInv(T)' /\ AcceptInv(T, V)' /\ KeptInv(T, V)'
    BY <1>7, AcceptLogs
<1>12. W \subseteq V /\ <<m.to, m.Term, End(m)>> \in V
    BY <1>1, <1>3
<1>13. (\A j \in Server : CommitAt(T, V, j)') /\ AppliedInv(T, V)' /\ \A j \in Server : commitIndex[j] <= commitIndex'[j]
    <2>1. snapshotIndex[i] = 0
        BY DEF SnapFree
    <2>2. m.LeaderCommit <= Len(M)
        <3>1. m.LeaderCommit <= End(m) /\ End(m) <= Len(M)
            BY <1>6 DEF Merges, Agree
        <3> QED
            BY <1>9, <3>1, SMT
    <2>3. n \in Nat /\ (n = commitIndex[i] \/ (commitIndex[i] < n /\ n = m.LeaderCommit))
        BY <1>4, <1>9, <2>1, <2>2, SMTT(30)
    <2>4. PICK lo \in Nat : lo = commitIndex[i] + 1
        BY <1>9, SMT
    <2>5. Apply(i, m.Term, CommandMsgs(M, 0, lo, n, 2))
        BY <1>5, <2>1, <2>4
    <2>6. AppliesTo(M, lo, n, m.Term)
        BY <2>3, <2>5, AppliedNew
    <2> QED
        BY <1>5, <1>7, <2>3, <2>4, <2>6, AcceptCommit
<1>14. UNCHANGED <<leaders, nextIndex, matchIndex, startAppend, votes, rvReq, isReq, installs>>
    BY DEF leaderVars, voteNet
<1>15. /\ HistTypes(T, V)' /\ AskInv' /\ VotedInv(T, V)' /\ WonInv(T, V)' /\ SentInv(T, W)'
       /\ \A q \in aeReq' : CommitSent(T, V, q)'
    <2>1. rvReq' \subseteq rvReq /\ aeReq' \subseteq aeReq /\ \A j \in Server : Stays(j)
        BY <1>10, <1>14 DEF TermsCalm
    <2> QED
        BY <1>10, <1>14, <2>1, Frames
<1>16. SentInv(T, V)'
    <2>1. ASSUME NEW q \in aeReq' PROVE SentAt(T, V, q)'
        <3>1. q \in aeReq /\ q # m
            OBVIOUS
        <3>2. <<q.Term, q.from>> \in leaders /\ <<m.Term, m.from>> \in leaders
            BY <1>8, <3>1 DEF SentInv, SentAt
        <3>3. ~(q.to = i /\ q.Term = m.Term)
            <4>1. <<q.Term, q.from>>[1] = q.Term /\ <<q.Term, q.from>>[2] = q.from
                  /\ <<m.Term, m.from>>[1] = m.Term /\ <<m.Term, m.from>>[2] = m.from
                OBVIOUS
            <4>2. q.Term = m.Term => q.from = m.from
                BY <3>2, <4>1 DEF ElectionSafety
            <4> QED
                BY <1>1, <1>8, <3>1, <4>2 DEF SentInv, OneCall, SameCall
        <3>4. \A w \in V : w[1] = q.to /\ w[2] = q.Term => w \in W
            BY <1>3, <3>3, SMTT(30)
        <3>5. SentAt(T, W, q)'
            BY <1>15 DEF SentInv
        <3> QED
            BY <3>4, <3>5 DEF SentAt
    <2> QED
        BY <1>15, <2>1 DEF SentInv
<1>17. AnswerInv(T, V)' /\ isRep' \subseteq isRep
    <2>1. PICK z : z = 0
        OBVIOUS
    <2>2. AppendEntriesReply(m, TRUE, FALSE, z, z, z)
        BY <1>5, <2>1
    <2>3. z <= m.PrevLogIndex
        BY <2>1, SMTT(30) DEF TypeOK, AppendNetTypes, AppendRequest
    <2> QED
        BY <1>10, <1>12, <2>2, <2>3, AnswersFrame
<1>18. LeadInv(V)'
    <2>1. ASSUME NEW j \in Server PROVE LeadAt(V, j)'
        <3>1. CASE j = i
            BY <1>10, <3>1, SMTT(30) DEF LeadAt, Follower, Leader
        <3>2. CASE j # i
            BY <1>8, <1>10, <1>12, <1>14, <3>2, LeadFrame DEF LeadInv
        <3> QED
            BY <3>1, <3>2
    <2> QED
        BY <2>1 DEF LeadInv
<1>19. InstallsInv'
    <2>1. \A j \in Server : tp'[j] = Leader => tp[j] = Leader
        BY <1>10, SMTT(30) DEF Follower, Leader
    <2>2. \A j \in Server : \A t : Started(j, t) => Started(j, t)'
        BY <1>10, <1>14, <2>1, StartedFrame
    <2>3. /\ \A k \in Server : \A h \in installs'[k] : Started(k, h.termTemp)
          /\ (\A q \in isReq' : Started(q.from, q.termTemp)) /\ (\A r \in isRep' : Started(r.from, r.termTemp))
        BY <1>8, <1>14, <1>17 DEF InstallsInv
    <2> QED
        BY <2>2, <2>3, InstallsFrame
<1>20. CommitUpToDate'
    <2>1. ASSUME NEW j \in Server, startAppend'[j] PROVE MedianMatch(matchIndex'[j]) <= commitIndex'[j]
        <3>1. PICK x : x = MedianMatch(matchIndex[j])
            OBVIOUS
        <3>2. matchIndex[j] \in [Server -> Nat] /\ commitIndex[j] \in Nat /\ commitIndex'[j] \in Nat
            BY DEF TypeOK, LeaderTypes, ServiceTypes
        <3>3. x \in Nat
            BY <3>1, <3>2 DEF MedianFacts
        <3>4. x <= commitIndex[j]
            BY <1>8, <1>14, <2>1, <3>1 DEF CommitUpToDate
        <3>5. x <= commitIndex'[j]
            BY <1>13, <3>2, <3>3, <3>4, SMTT(30)
        <3> QED
            BY <1>14, <3>1, <3>5
    <2> QED
        BY <2>1 DEF CommitUpToDate
<1>21. CommitInv(T, V)'
    BY <1>13, <1>15 DEF CommitInv
<1>22. History(T, V)'
    BY <1>11, <1>13, <1>15, <1>16, <1>17, <1>18, <1>19, <1>20, <1>21 DEF History
<1>23. FollowerCommits
    <2>1. \A j \in Server : j # i => commitIndex'[j] = commitIndex[j]
        BY <1>5 DEF TypeOK, ServiceTypes
    <2> QED
        BY <1>10, <1>13, <2>1 DEF FollowerCommits
<1> QED
    BY <1>22, <1>23

(* AppendEntries keeps the invariant, and only followers commit by it. *)
LEMMA AppendEntriesHistory ==
    ASSUME CountingFacts, MedianFacts, SearchFacts, TypeOK, TypeOK', SnapFree, ElectionInv, ElectionSafety,
           NEW T, NEW W, History(T, W), NEW m \in aeReq, AppendEntries(m)
    PROVE  (\E V : History(T, V)') /\ FollowerCommits
<1>1. aeReq' = aeReq \ {m} /\ UNCHANGED <<leaderVars, installs, voteNet, isReq, votes, leaders>>
    BY DEF AppendEntries
<1>2. CASE AppendEntriesStale(m) \/ AppendEntriesReject(m)
    <2>1. aeReq' \subseteq aeReq
        BY <1>1
    <2>2. History(T, W)'
        BY <1>1, <1>2, <2>1, RefuseHistory
    <2>3. commitIndex' = commitIndex
        BY <1>2 DEF AppendEntriesStale, AppendEntriesReject, serviceVars
    <2>4. FollowerCommits
        BY <2>3, SMT DEF FollowerCommits, TypeOK, ServiceTypes
    <2> QED
        BY <2>2, <2>4
<1>3. CASE AppendEntriesAccept(m)
    BY <1>1, <1>3, AcceptHistory
<1> QED
    BY <1>2, <1>3 DEF AppendEntries

-----------------------------------------------------------------------------
(* Crashes *)

(* The requests of the peer that has crashed are still there, but nobody   *)
(* waits for their replies.                                                *)
Orphaned(p, q, i) == IF p.from = i THEN q = [p EXCEPT !.live = FALSE] ELSE q = p

LEMMA OrphanFacts ==
    ASSUME NEW S, NEW H, NEW i, NEW q \in Orphans(S \ H, i)
    PROVE  \E p \in S : Orphaned(p, q, i)
BY DEF Orphans, Orphaned

LEMMA OrphanedSame ==
    ASSUME NEW i, NEW p, NEW a, Orphaned(p, a, i), NEW b, Orphaned(p, b, i)
    PROVE  a = b
<1>1. PICK e : e = [p EXCEPT !.live = FALSE]
    OBVIOUS
<1>2. (p.from = i => a = e /\ b = e) /\ (p.from # i => a = p /\ b = p)
    BY <1>1 DEF Orphaned
<1> QED
    BY <1>2

LEMMA OrphanedAppend ==
    ASSUME NEW i, NEW p \in AppendRequest, NEW q, Orphaned(p, q, i)
    PROVE  /\ q.from = p.from /\ q.to = p.to /\ q.Term = p.Term /\ q.PrevLogIndex = p.PrevLogIndex
           /\ q.PrevLogTerm = p.PrevLogTerm /\ q.Entries = p.Entries /\ q.LeaderCommit = p.LeaderCommit
           /\ p.from = i => ~q.live
           /\ p.from # i => q = p
BY DEF AppendRequest, Orphaned

LEMMA SliceSame ==
    ASSUME NEW p, NEW q, NEW L, Slice(p, L), q.Term = p.Term, q.PrevLogIndex = p.PrevLogIndex,
           q.PrevLogTerm = p.PrevLogTerm, q.Entries = p.Entries, q.LeaderCommit = p.LeaderCommit
    PROVE  Slice(q, L)
BY DEF Slice

(* What is on its way after peer i has crashed. *)
LEMMA RestartCalls ==
    ASSUME NEW T, NEW W, Moves(T, W, T, W), NEW i \in Server, \A j \in Server : j # i => Stays(j),
           NEW H, aeReq' = Orphans(aeReq \ H, i), aeRep' = NotTo(aeRep, i),
           rvReq' = Orphans(rvReq \ H, i), UNCHANGED <<votes, leaders>>
    PROVE  /\ SentInv(T, W)' /\ AnswerInv(T, W)' /\ AskInv' /\ VotedInv(T, W)'
           /\ \A q \in aeReq' : CommitSent(T, W, q)'
<1>1. TypeOK /\ SentInv(T, W) /\ AnswerInv(T, W)
    BY DEF Moves, History
<1>2. aeReq \subseteq AppendRequest /\ aeRep \subseteq AppendAnswer /\ rvReq \subseteq VoteRequest
    BY <1>1 DEF TypeOK, AppendNetTypes, VoteNetTypes
<1>3. ASSUME NEW q \in aeReq' PROVE SentAt(T, W, q)' /\ CommitSent(T, W, q)'
    <2>1. PICK p \in aeReq : Orphaned(p, q, i)
        BY OrphanFacts
    <2>2. /\ q.from = p.from /\ q.to = p.to /\ q.Term = p.Term /\ q.PrevLogIndex = p.PrevLogIndex
          /\ q.PrevLogTerm = p.PrevLogTerm /\ q.Entries = p.Entries /\ q.LeaderCommit = p.LeaderCommit
          /\ p.from = i => ~q.live
          /\ p.from # i => q = p
        BY <1>2, <2>1, OrphanedAppend, SMTT(30)
    <2>3. CommitSent(T, W, q)'
        <3>1. CommitSent(T, W, p)'
            BY CommitSentFrame
        <3> QED
            BY <2>2, <3>1 DEF CommitSent
    <2>4. SentAt(T, W, q)'
        <3>1. CASE p.from # i
            <4>1. Stays(p.from)
                BY <1>2, <3>1 DEF AppendRequest
            <4> QED
                BY <2>2, <3>1, <4>1, SentFrame
        <3>2. CASE p.from = i
            <4>1. /\ p.from # p.to /\ <<p.Term, p.from>> \in leaders /\ Slice(p, T[p.Term])
                  /\ \A w \in W : w[1] = p.to /\ w[2] = p.Term => w[3] <= p.PrevLogIndex + Len(p.Entries)
                BY <1>1 DEF SentInv, SentAt
            <4>2. Slice(q, T[q.Term])
                BY <2>2, <4>1, SliceSame
            <4>3. /\ q.from # q.to /\ <<q.Term, q.from>> \in leaders' /\ ~q.live
                  /\ \A w \in W : w[1] = q.to /\ w[2] = q.Term => w[3] <= q.PrevLogIndex + Len(q.Entries)
                BY <2>2, <3>2, <4>1
            <4> QED
                BY <4>2, <4>3 DEF SentAt
        <3> QED
            BY <3>1, <3>2
    <2> QED
        BY <2>3, <2>4
<1>4. OneCall'
    <2> SUFFICES ASSUME NEW a \in aeReq', NEW b \in aeReq', SameCall(a, b) PROVE a = b
        BY DEF OneCall, SameCall
    <2>1. PICK p \in aeReq : Orphaned(p, a, i)
        BY OrphanFacts
    <2>2. PICK q \in aeReq : Orphaned(q, b, i)
        BY OrphanFacts
    <2>3. a.from = p.from /\ a.to = p.to /\ b.from = q.from /\ b.to = q.to
        BY <1>2, <2>1, <2>2, OrphanedAppend, SMTT(30)
    <2>4. p = q
        BY <1>1, <2>3 DEF SentInv, OneCall, SameCall
    <2> QED
        BY <2>1, <2>2, <2>4, OrphanedSame
<1>5. AnswerInv(T, W)'
    <2>1. ASSUME NEW r \in aeRep' PROVE AnswerAt(T, W, r)'
        <3>1. r \in aeRep /\ r.from # i
            BY DEF NotTo
        <3>2. Stays(r.from)
            BY <1>2, <3>1 DEF AppendAnswer
        <3> QED
            BY <3>1, <3>2, AnswerFrame
    <2> QED
        BY <2>1 DEF AnswerInv
<1>6. ASSUME NEW q \in rvReq' PROVE AskAt(q)'
    <2>1. PICK p \in rvReq : Orphaned(p, q, i)
        BY OrphanFacts
    <2>2. /\ q.from = p.from /\ q.Term = p.Term /\ q.LastLogIndex = p.LastLogIndex /\ q.LastLogTerm = p.LastLogTerm
        BY <1>2, <2>1 DEF VoteRequest, Orphaned
    <2>3. AskAt(p)'
        BY AskFrame
    <2> QED
        BY <2>2, <2>3 DEF AskAt
<1>7. \A v \in votes' : v[2] <= currentTerm'[v[3]] /\ VotedAt(T, W, v)'
    BY VotedFrame
<1> QED
    BY <1>3, <1>4, <1>5, <1>6, <1>7 DEF SentInv, AskInv, VotedInv

(* A restart keeps the invariant. *)
LEMMA RestartHistory ==
    ASSUME TypeOK, TypeOK', SnapFree, Durable, ElectionInv, NEW T, NEW W, History(T, W),
           NEW i \in Server, NEW disk, NEW H, Restart(i, disk, H),
           disk.log = log[i], disk.currentTerm \in Nat, currentTerm[i] <= disk.currentTerm
    PROVE  History(T, W)'
<1>1. /\ currentTerm' = [currentTerm EXCEPT ![i] = disk.currentTerm] /\ tp' = [tp EXCEPT ![i] = Follower]
      /\ log' = [log EXCEPT ![i] = disk.log]
      /\ UNCHANGED <<applied, votes, leaders>>
    BY DEF Restart
<1>2. /\ nextIndex' = [nextIndex EXCEPT ![i] = [j \in Server |-> Len(disk.log) + 1]]
      /\ matchIndex' = [matchIndex EXCEPT ![i] = [j \in Server |-> IF j = i THEN Len(disk.log) ELSE 0]]
      /\ startAppend' = [startAppend EXCEPT ![i] = FALSE]
      /\ installs' = [installs EXCEPT ![i] = {}]
      /\ commitIndex' = [commitIndex EXCEPT ![i] = snapshot[i].LastIndex]
    BY DEF Restart
<1>3. /\ aeReq' = Orphans(aeReq \ H, i) /\ aeRep' = NotTo(aeRep, i) /\ rvReq' = Orphans(rvReq \ H, i)
      /\ isReq' = Orphans(isReq \ H, i) /\ isRep' = NotTo(isRep, i)
    BY DEF Restart
<1>4. /\ currentTerm \in [Server -> Nat] /\ tp \in [Server -> {Follower, Candidate, Leader}]
      /\ log \in [Server -> Seq(Entry)] /\ commitIndex \in [Server -> Nat]
      /\ nextIndex \in [Server -> [Server -> Int]] /\ matchIndex \in [Server -> [Server -> Nat]]
      /\ startAppend \in [Server -> BOOLEAN] /\ installs \in [Server -> SUBSET [to : Server, termTemp : Nat]]
    BY DEF TypeOK, TermTypes, LogTypes, LeaderTypes, ServiceTypes, OtherTypes
<1>5. log' = log
    BY <1>1, <1>4
<1>6. /\ currentTerm'[i] = disk.currentTerm /\ tp'[i] = Follower
      /\ \A j \in Server : j # i => currentTerm'[j] = currentTerm[j] /\ tp'[j] = tp[j]
    BY <1>1, <1>4
<1>7. Settled /\ \A j \in Server : j # i => Stays(j)
    <2>1. currentTerm[i] \in Nat
        BY <1>4
    <2>2. Settled
        BY <1>6, <2>1, Roles, NatOrder DEF Settled
    <2> QED
        BY <1>6, <2>2 DEF Stays
<1>8. Moves(T, W, T, W) /\ \A j \in Server : tp'[j] = Leader => tp[j] = Leader /\ currentTerm'[j] = currentTerm[j]
    BY <1>1, <1>5, <1>7, QuietMoves
<1>9. LedInv(T)' /\ SoundInv(T)' /\ AcceptInv(T, W)' /\ KeptInv(T, W)'
    BY <1>1, <1>5, <1>7, <1>8, QuietLogs
<1>10. /\ SentInv(T, W)' /\ AnswerInv(T, W)' /\ AskInv' /\ VotedInv(T, W)'
       /\ \A q \in aeReq' : CommitSent(T, W, q)'
    BY <1>1, <1>3, <1>7, <1>8, RestartCalls
<1>11. HistTypes(T, W)' /\ WonInv(T, W)' /\ AppliedInv(T, W)'
    BY <1>1, <1>8, Frames
<1>12. \A j \in Server : j # i => /\ nextIndex'[j] = nextIndex[j] /\ matchIndex'[j] = matchIndex[j]
                                  /\ startAppend'[j] = startAppend[j] /\ commitIndex'[j] = commitIndex[j]
                                  /\ installs'[j] = installs[j]
    BY <1>2, <1>4
<1>13. LeadInv(W)'
    <2>1. ASSUME NEW j \in Server PROVE LeadAt(W, j)'
        <3>1. CASE j = i
            BY <1>6, <3>1, Roles DEF LeadAt
        <3>2. CASE j # i
            <4>1. LeadAt(W, j) /\ log'[j] = log[j]
                BY <1>5 DEF History, LeadInv
            <4> QED
                BY <1>8, <1>12, <3>2, <4>1, LeadFrame
        <3> QED
            BY <3>1, <3>2
    <2> QED
        BY <2>1 DEF LeadInv
<1>14. InstallsInv'
    <2>1. \A j \in Server : tp'[j] = Leader => tp[j] = Leader /\ startAppend'[j] = startAppend[j]
        BY <1>6, <1>8, <1>12, SMTT(30) DEF Follower, Leader
    <2>2. \A j \in Server : \A t : Started(j, t) => Started(j, t)'
        BY <1>8, <2>1, StartedFrame
    <2>3. InstallsInv /\ isReq \subseteq SnapRequest
        BY DEF History, TypeOK, AppendNetTypes
    <2>4. installs'[i] = {}
        BY <1>2, <1>4
    <2>5. \A k \in Server : \A h \in installs'[k] : Started(k, h.termTemp)
        BY <1>12, <2>3, <2>4 DEF InstallsInv
    <2>6. ASSUME NEW q \in isReq' PROVE Started(q.from, q.termTemp)
        <3>1. PICK p \in isReq : Orphaned(p, q, i)
            BY <1>3, OrphanFacts
        <3>2. q.from = p.from /\ q.termTemp = p.termTemp
            BY <2>3, <3>1 DEF SnapRequest, Orphaned
        <3> QED
            BY <2>3, <3>2 DEF InstallsInv
    <2>7. isRep' \subseteq isRep
        BY <1>3 DEF NotTo
    <2>8. \A r \in isRep' : Started(r.from, r.termTemp)
        BY <2>3, <2>7 DEF InstallsInv
    <2> QED
        BY <2>2, <2>5, <2>6, <2>8, InstallsFrame
<1>15. CommitUpToDate'
    <2>1. ~startAppend'[i]
        BY <1>2, <1>4
    <2>2. CommitUpToDate
        BY DEF History
    <2>3. ASSUME NEW j \in Server, startAppend'[j] PROVE MedianMatch(matchIndex'[j]) <= commitIndex'[j]
        <3>1. PICK x : x = MedianMatch(matchIndex[j])
            OBVIOUS
        <3>2. matchIndex'[j] = matchIndex[j] /\ commitIndex'[j] = commitIndex[j] /\ startAppend[j]
            BY <1>12, <2>1, <2>3
        <3>3. x <= commitIndex[j]
            BY <2>2, <3>1, <3>2 DEF CommitUpToDate
        <3> QED
            BY <3>1, <3>2, <3>3
    <2> QED
        BY <2>3 DEF CommitUpToDate
<1>16. \A j \in Server : CommitAt(T, W, j)'
    <2>1. \A j \in Server : j # i => CommitAt(T, W, j)'
        BY <1>5, <1>8, <1>12, QuietCommit
    <2>2. snapshot[i].LastIndex = 0
        <3>1. snapshot[i] = [LastIndex |-> snapshotIndex[i], LastTerm |-> snapshotTerm[i]] /\ snapshotIndex[i] = 0
            BY DEF Durable, SnapFree
        <3> QED
            BY <3>1, SMTT(30)
    <2>3. commitIndex'[i] = 0
        BY <1>2, <1>4, <2>2
    <2>4. 0 <= Len(log'[i])
        BY <1>4, <1>5, LogFacts, NatOrder
    <2>5. \A b : Chosen(T, W, log[i], commitIndex[i], b)'
        BY <2>3, <2>4, SMTT(30) DEF Chosen
    <2>6. CommitAt(T, W, i)'
        BY <2>5 DEF CommitAt, Chosen
    <2> QED
        BY <2>1, <2>6
<1> QED
    BY <1>9, <1>10, <1>11, <1>13, <1>14, <1>15, <1>16 DEF History, CommitInv

(* Make, and the crash between the writes of a handler.  (A crash in       *)
(* InstallSnapshot needs a snapshot.)                                      *)
LEMMA CrashHistory ==
    ASSUME TypeOK, TypeOK', SnapFree, Durable, ElectionInv, NEW T, NEW W, History(T, W)
    PROVE  /\ \A i \in Server : Make(i) => History(T, W)'
           /\ \A m \in rvReq \cup aeReq \cup isReq : CrashAfterTermUpdate(m) => History(T, W)'
<1>1. ASSUME NEW i \in Server, Make(i) PROVE History(T, W)'
    <2>1. raftstate[i].currentTerm = currentTerm[i] /\ raftstate[i].log = log[i]
        <3>1. raftstate[i] = [currentTerm |-> currentTerm[i], votedFor |-> votedFor[i], log |-> log[i]]
            BY DEF Durable
        <3> QED
            BY <3>1, SMTT(30)
    <2>2. raftstate[i].currentTerm \in Nat /\ currentTerm[i] <= raftstate[i].currentTerm
        BY <2>1, SMTT(30) DEF TypeOK, TermTypes
    <2> QED
        BY <1>1, <2>1, <2>2, RestartHistory DEF Make
<1>2. ASSUME NEW m \in rvReq \cup aeReq \cup isReq, CrashAfterTermUpdate(m) PROVE History(T, W)'
    <2>1. m.to \in Server /\ m.Term \in Nat
        BY DEF TypeOK, VoteNetTypes, AppendNetTypes, VoteRequest, AppendRequest, SnapRequest
    <2>2. PICK disk : disk = [raftstate[m.to] EXCEPT !.currentTerm = m.Term, !.votedFor = Nil]
        OBVIOUS
    <2>3. m.Term > currentTerm[m.to] /\ Restart(m.to, disk, {m})
        BY <1>2, <2>2 DEF CrashAfterTermUpdate
    <2>4. disk.log = log[m.to] /\ disk.currentTerm = m.Term
        <3>1. raftstate[m.to] = [currentTerm |-> currentTerm[m.to], votedFor |-> votedFor[m.to], log |-> log[m.to]]
            BY <2>1 DEF Durable
        <3> QED
            BY <2>2, <3>1, SMT
    <2>5. currentTerm[m.to] <= m.Term
        BY <2>1, <2>3, SMTT(30) DEF TypeOK, TermTypes
    <2> QED
        BY <2>1, <2>3, <2>4, <2>5, RestartHistory
<1> QED
    BY <1>1, <1>2
=============================================================================
