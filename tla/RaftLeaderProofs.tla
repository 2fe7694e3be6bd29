-------------------------- MODULE RaftLeaderProofs --------------------------
(***************************************************************************)
(* The steps that elect a leader, and those by which it extends its log    *)
(* and sends it, keep the history of the logs.                             *)
(***************************************************************************)
EXTENDS RaftHistoryProofs

(* A leaf is left to Zenon unless it names another prover. *)
USE ZenonT(60)

-----------------------------------------------------------------------------
(* The install goroutines. *)
LEMMA SpawnInstallHistory ==
    ASSUME TypeOK, TypeOK', ElectionInv, NEW T, NEW W, History(T, W), NEW i \in Server, NEW j \in Server, SpawnInstall(i, j)
    PROVE  History(T, W)'
<1>1. UNCHANGED <<termVars, logVars, leaderVars, voteNet, appendNet, serviceVars, votes, leaders>>
    BY DEF SpawnInstall
<1>2. TermsCalm
    BY <1>1, TermsSame
<1>3. UNCHANGED <<log, leaders, nextIndex, matchIndex, startAppend, commitIndex, applied, votes, rvReq, aeReq, aeRep, isReq, isRep>>
    BY <1>1 DEF logVars, leaderVars, voteNet, appendNet, serviceVars
<1>4. /\ HistTypes(T, W)' /\ LedInv(T)' /\ SoundInv(T)' /\ AcceptInv(T, W)' /\ KeptInv(T, W)'
      /\ WonInv(T, W)' /\ CommitUpToDate' /\ AppliedInv(T, W)' /\ SentInv(T, W)' /\ CommitInv(T, W)'
      /\ AnswerInv(T, W)' /\ AskInv' /\ VotedInv(T, W)' /\ LeadInv(W)'
    BY <1>2, <1>3, QuietBase
<1>5. InstallsInv'
    <2>1. \A k \in Server : \A t : Started(k, t) => Started(k, t)'
        BY <1>2, <1>3, QuietStarted DEF TermsCalm
    <2>2. Started(i, currentTerm[i])
        <3>1. tp[i] = Leader /\ nextIndex[i][j] <= 0
            BY DEF SpawnInstall
        <3>2. <<currentTerm[i], i>> \in leaders
            BY <3>1 DEF History, LedInv
        <3>3. ~startAppend[i] => nextIndex[i][j] = Len(log[i]) + 1
            BY <3>1 DEF History, LeadInv, LeadAt
        <3>4. Len(log[i]) \in Nat
            BY LogFacts DEF TypeOK, LogTypes
        <3>5. startAppend[i]
            BY <3>1, <3>3, <3>4, SMT
        <3> QED
            BY <3>2, <3>5 DEF Started
    <2>3. \A k \in Server : \A g \in installs'[k] : g \in installs[k] \/ (k = i /\ g.termTemp = currentTerm[i])
        BY SMT DEF SpawnInstall, TypeOK, OtherTypes
    <2>4. \A k \in Server : \A g \in installs'[k] : Started(k, g.termTemp)
        BY <2>2, <2>3 DEF History, InstallsInv
    <2>5. (\A m \in isReq' : Started(m.from, m.termTemp)) /\ (\A r \in isRep' : Started(r.from, r.termTemp))
        BY <1>3 DEF History, InstallsInv
    <2> QED
        BY <2>1, <2>4, <2>5, InstallsFrame
<1> QED
    BY <1>4, <1>5 DEF History

(* The calls of InstallSnapshot. *)
LEMMA sendSnapShotHistory ==
    ASSUME TypeOK, TypeOK', ElectionInv, NEW T, NEW W, History(T, W), NEW i \in Server, NEW g \in installs[i], sendSnapShot(i, g)
    PROVE  History(T, W)'
<1>1. UNCHANGED <<termVars, logVars, leaderVars, voteNet, aeRep, isRep, serviceVars, votes, leaders>>
    BY DEF sendSnapShot
<1>2. TermsCalm
    BY <1>1, TermsSame
<1>3. UNCHANGED <<log, leaders, nextIndex, matchIndex, startAppend, commitIndex, applied, votes, rvReq, aeRep, isRep>>
    BY <1>1 DEF logVars, leaderVars, voteNet, serviceVars
<1>4. aeReq' \subseteq aeReq
    BY DEF sendSnapShot
<1>5. /\ HistTypes(T, W)' /\ LedInv(T)' /\ SoundInv(T)' /\ AcceptInv(T, W)' /\ KeptInv(T, W)'
      /\ WonInv(T, W)' /\ CommitUpToDate' /\ AppliedInv(T, W)' /\ SentInv(T, W)' /\ CommitInv(T, W)'
      /\ AnswerInv(T, W)' /\ AskInv' /\ VotedInv(T, W)' /\ LeadInv(W)'
    BY <1>2, <1>3, <1>4, QuietBase
<1>6. InstallsInv'
    <2>1. \A k \in Server : \A t : Started(k, t) => Started(k, t)'
        BY <1>2, <1>3, QuietStarted DEF TermsCalm
    <2>2. \A m \in isReq' : m \in isReq \/ (m.from = i /\ m.termTemp = g.termTemp)
        BY SMTT(30) DEF sendSnapShot
    <2>3. \A k \in Server : installs'[k] \subseteq installs[k]
        BY DEF sendSnapShot, TypeOK, OtherTypes
    <2>4. \A m \in isReq' : Started(m.from, m.termTemp)
        BY <2>2 DEF History, InstallsInv
    <2>5. /\ \A k \in Server : \A h \in installs'[k] : Started(k, h.termTemp)
          /\ \A r \in isRep' : Started(r.from, r.termTemp)
        BY <1>3, <2>3 DEF History, InstallsInv
    <2> QED
        BY <2>1, <2>4, <2>5, InstallsFrame
<1> QED
    BY <1>5, <1>6 DEF History

(* A snapshot of nothing is not installed. *)
LEMMA InstallSnapshotHistory ==
    ASSUME TypeOK, TypeOK', SnapFree, ElectionInv, NEW T, NEW W, History(T, W), NEW m \in isReq, InstallSnapshot(m)
    PROVE  History(T, W)'
<1>1. m \in SnapRequest /\ m.to \in Server /\ m.Term \in Nat
    BY DEF TypeOK, AppendNetTypes, SnapRequest
<1>2. ~(m.LastIncludedIndex > snapshotIndex[m.to])
    BY <1>1, SMT DEF SnapFree
<1>3. /\ UNCHANGED <<logVars, serviceVars>>
      /\ AcceptLeader(m.to, m.Term) \/ UNCHANGED termVars
    BY <1>2 DEF InstallSnapshot
<1>4. TermsCalm
    BY <1>1, <1>3, TermsSame, TermsAccept
<1>5. UNCHANGED <<leaderVars, installs, voteNet, aeReq, votes, leaders>>
    BY DEF InstallSnapshot
<1>6. UNCHANGED <<log, leaders, nextIndex, matchIndex, startAppend, commitIndex, applied, votes, rvReq, aeReq, installs>>
    BY <1>3, <1>5 DEF logVars, leaderVars, voteNet, serviceVars
<1>7. isReq' \subseteq isReq /\ InstallSnapshotReply(m)
    BY DEF InstallSnapshot
<1>8. /\ aeRep' \subseteq aeRep
      /\ \A r \in isRep' : r \in isRep \/ (r.from = m.from /\ r.termTemp = m.termTemp)
    BY <1>7, SMT DEF InstallSnapshotReply, AnswerCall
<1>9. /\ HistTypes(T, W)' /\ LedInv(T)' /\ SoundInv(T)' /\ AcceptInv(T, W)' /\ KeptInv(T, W)'
      /\ WonInv(T, W)' /\ CommitUpToDate' /\ AppliedInv(T, W)' /\ SentInv(T, W)' /\ CommitInv(T, W)'
      /\ AnswerInv(T, W)' /\ AskInv' /\ VotedInv(T, W)' /\ LeadInv(W)'
    BY <1>4, <1>6, <1>8, QuietBase
<1>10. InstallsInv'
    <2>1. \A k \in Server : \A t : Started(k, t) => Started(k, t)'
        BY <1>4, <1>6, QuietStarted DEF TermsCalm
    <2>2. \A r \in isRep' : Started(r.from, r.termTemp)
        BY <1>8 DEF History, InstallsInv
    <2>3. /\ \A k \in Server : \A g \in installs'[k] : Started(k, g.termTemp)
          /\ \A n \in isReq' : Started(n.from, n.termTemp)
        BY <1>6, <1>7 DEF History, InstallsInv
    <2> QED
        BY <2>1, <2>2, <2>3, InstallsFrame
<1> QED
    BY <1>9, <1>10 DEF History

(* The replies to InstallSnapshot. *)
LEMMA SnapReplyHistory ==
    ASSUME TypeOK, TypeOK', ElectionInv, NEW T, NEW W, History(T, W), NEW r \in isRep, SnapReply(r)
    PROVE  History(T, W)'
<1> DEFINE i == r.from
<1>1. i \in Server /\ r.to \in Server /\ r.Term \in Nat /\ r.termTemp \in Nat
    BY DEF TypeOK, AppendNetTypes, SnapAnswer
<1>2. /\ UNCHANGED <<logVars, installs, voteNet, aeReq, aeRep, isReq, serviceVars, votes, leaders>>
      /\ isRep' \subseteq isRep
    BY DEF SnapReply, StepDown
<1>3. (r.Term > currentTerm[i] /\ termUpdate(i, r.Term)) \/ UNCHANGED termVars
    BY DEF SnapReply, StepDown
<1>4. TermsCalm
    BY <1>1, <1>3, TermsSame, TermsUp
<1>5. UNCHANGED <<matchIndex, startAppend>>
    BY DEF SnapReply, leaderVars
<1>6. UNCHANGED <<log, leaders, commitIndex, applied, votes, rvReq>>
    BY <1>2 DEF logVars, voteNet, serviceVars
<1>7. /\ HistTypes(T, W)' /\ LedInv(T)' /\ SoundInv(T)' /\ AcceptInv(T, W)' /\ KeptInv(T, W)'
      /\ WonInv(T, W)' /\ CommitUpToDate' /\ AppliedInv(T, W)' /\ SentInv(T, W)' /\ CommitInv(T, W)'
      /\ AnswerInv(T, W)' /\ AskInv' /\ VotedInv(T, W)' /\ (nextIndex' = nextIndex => LeadInv(W)')
    BY <1>2, <1>4, <1>5, <1>6, QuietBase
<1>8. InstallsInv'
    <2>1. \A k \in Server : \A t : Started(k, t) => Started(k, t)'
        BY <1>4, <1>5, <1>6, QuietStarted DEF TermsCalm
    <2>2. /\ \A k \in Server : \A g \in installs'[k] : Started(k, g.termTemp)
          /\ (\A n \in isReq' : Started(n.from, n.termTemp)) /\ (\A q \in isRep' : Started(q.from, q.termTemp))
        BY <1>2 DEF History, InstallsInv
    <2> QED
        BY <2>1, <2>2, InstallsFrame
<1>9. LeadInv(W)'
    <2>1. CASE UNCHANGED leaderVars
        BY <1>7, <2>1 DEF leaderVars
    <2>2. CASE /\ ~Outdated(i, r.termTemp) /\ nextIndex' = [nextIndex EXCEPT ![i][r.to] = 1]
               /\ UNCHANGED termVars
        <3>1. \A k \in Server : LeadAt(W, k)
            BY DEF History, LeadInv
        <3>2. UNCHANGED <<tp, currentTerm>>
            BY <2>2 DEF termVars
        <3>3. \A k \in Server \ {i} : nextIndex'[k] = nextIndex[k]
            BY <2>2 DEF TypeOK, LeaderTypes
        <3>4. \A k \in Server \ {i} : LeadAt(W, k)'
            BY <1>5, <1>6, <3>1, <3>2, <3>3, LeadFrame
        <3>5. ASSUME tp[i] = Leader PROVE LeadAt(W, i)'
            <4>1. <<r.termTemp, i>> \in leaders /\ (r.termTemp = currentTerm[i] => startAppend[i])
                BY <3>5 DEF History, InstallsInv, Started
            <4>2. r.termTemp <= currentTerm[i]
                BY <4>1 DEF History, LedInv
            <4>3. startAppend[i]
                BY <1>1, <2>2, <4>1, <4>2, SMT DEF Outdated, TypeOK, TermTypes
            <4>4. \A j \in Server : nextIndex'[i][j] \in {1, nextIndex[i][j]}
                BY <1>1, <2>2 DEF TypeOK, LeaderTypes
            <4>5. Len(log[i]) \in Nat
                BY <1>1, LogFacts DEF TypeOK, LogTypes
            <4>6. \A j \in Server : nextIndex[i][j] <= Len(log[i]) + 1
                BY <1>1, <3>1, <3>5 DEF LeadAt
            <4>7. \A j \in Server : nextIndex'[i][j] <= Len(log[i]) + 1
                BY <4>4, <4>5, <4>6, SMT
            <4>8. /\ Has(log[i], currentTerm[i], Len(log[i])) /\ matchIndex[i][i] = Len(log[i])
                  /\ \A j \in Server \ {i} : matchIndex[i][j] > 0 =>
                        Has(log[i], currentTerm[i], matchIndex[i][j]) /\ <<j, currentTerm[i], matchIndex[i][j]>> \in W
                BY <1>1, <3>1, <3>5, <4>3 DEF LeadAt
            <4>9. log'[i] = log[i] /\ matchIndex'[i] = matchIndex[i] /\ startAppend'[i] /\ currentTerm'[i] = currentTerm[i]
                BY <1>5, <1>6, <3>2, <4>3
            <4> QED
                BY <4>7, <4>8, <4>9 DEF LeadAt, Has
        <3>6. ASSUME tp[i] # Leader PROVE LeadAt(W, i)'
            <4>1. tp'[i] # Leader
                BY <3>2, <3>6
            <4> QED
                BY <4>1 DEF LeadAt
        <3> QED
            BY <3>4, <3>5, <3>6 DEF LeadInv
    <2> QED
        BY <2>1, <2>2 DEF SnapReply
<1> QED
    BY <1>7, <1>8, <1>9 DEF History

-----------------------------------------------------------------------------
(* The elections *)

(* A new election. *)
LEMMA startElectionHistory ==
    ASSUME TypeOK, TypeOK', ElectionInv, NEW T, NEW W, History(T, W), NEW i \in Server, startElection(i)
    PROVE  History(T, W)'
<1> DEFINE u == currentTerm[i] + 1
<1>1. /\ UNCHANGED <<logVars, leaderVars, installs, voteNet, appendNet, serviceVars, leaders>>
      /\ currentTerm' = [currentTerm EXCEPT ![i] = u] /\ tp' = [tp EXCEPT ![i] = Candidate]
      /\ votes' = votes \cup {<<i, u, i>>}
    BY DEF startElection
<1>2. currentTerm \in [Server -> Nat] /\ u \in Nat
    BY SMT DEF TypeOK, TermTypes
<1>3. TermsCalm
    BY <1>1, <1>2, SMT DEF TermsCalm, Settled, Stays, TypeOK, TermTypes, Candidate, Leader
<1>4. /\ UNCHANGED <<log, leaders, nextIndex, matchIndex, startAppend, commitIndex, applied, rvReq>>
      /\ UNCHANGED <<aeReq, aeRep, isReq, isRep, installs>>
    BY <1>1 DEF logVars, leaderVars, voteNet, appendNet, serviceVars
<1>5. /\ HistTypes(T, W)' /\ LedInv(T)' /\ SoundInv(T)' /\ AcceptInv(T, W)' /\ KeptInv(T, W)'
      /\ WonInv(T, W)' /\ CommitUpToDate' /\ AppliedInv(T, W)' /\ SentInv(T, W)' /\ CommitInv(T, W)'
      /\ AnswerInv(T, W)' /\ LeadInv(W)'
    BY <1>3, <1>4, QuietBase
<1>6. InstallsInv'
    <2>1. \A k \in Server : \A t : Started(k, t) => Started(k, t)'
        BY <1>3, <1>4, QuietStarted DEF TermsCalm
    <2>2. /\ \A k \in Server : \A h \in installs'[k] : Started(k, h.termTemp)
          /\ (\A n \in isReq' : Started(n.from, n.termTemp)) /\ (\A r \in isRep' : Started(r.from, r.termTemp))
        BY <1>4 DEF History, InstallsInv
    <2> QED
        BY <2>1, <2>2, InstallsFrame
<1>7. Moves(T, W, T, W)
    BY <1>3, <1>4, QuietMoves DEF TermsCalm
<1>8. currentTerm'[i] = u
    BY <1>1, <1>2
<1>9. AskInv'
    <2>1. \A m \in rvReq' : AskAt(m)'
        BY <1>4, <1>7, AskFrame
    <2>2. \A v \in votes : v[2] <= currentTerm'[v[3]]
        BY <1>7, VotedFrame
    <2>3. \A v \in votes' : v[2] <= currentTerm'[v[3]]
        BY <1>1, <1>2, <1>8, <2>2, SMT
    <2> QED
        BY <2>1, <2>3 DEF AskInv
<1>10. VotedInv(T, W)'
    <2>1. HistTypes(T, W) /\ KeptInv(T, W)
        BY DEF History
    <2>2. \A v \in votes : VotedAt(T, W, v)'
        BY <1>7, VotedFrame
    <2>3. Covers(T, W, log[i], i, u, u)
        <3> SUFFICES ASSUME NEW t \in DOMAIN T, NEW k \in 1 .. Len(T[t]), Acked(T, W, i, t, k)
                     PROVE  Has(log[i], t, k) \/ \E s \in DOMAIN T : s <= u /\ Lost(T, s, t, k)
            BY DEF Covers
        <3>1. KeptAt(T, i, t, k)
            BY <2>1 DEF KeptInv
        <3>2. \A s \in DOMAIN T : s <= currentTerm[i] => s <= u
            BY <1>2, <2>1, SMT DEF HistTypes
        <3> QED
            BY <3>1, <3>2 DEF KeptAt
    <2>4. PICK b : b = u
        OBVIOUS
    <2>5. Covers(T, W, log[i], i, b, b)'
        BY <1>4, <2>3, <2>4 DEF Covers, Acked
    <2>6. \A v \in votes' : v \in votes \/ (v[1] = i /\ v[2] = b /\ v[3] = i)
        BY <1>1, <2>4, SMT
    <2>7. \A v \in votes' : v \in votes \/ Covers(T, W, log[v[3]], v[1], v[2], v[2])'
        BY <2>5, <2>6
    <2> QED
        BY <2>2, <2>7 DEF VotedInv, VotedAt
<1> QED
    BY <1>5, <1>6, <1>9, <1>10 DEF History

(* A vote request. *)
LEMMA sendRequestVoteHistory ==
    ASSUME TypeOK, TypeOK', SnapFree, ElectionInv, NEW T, NEW W, History(T, W),
           NEW i \in Server, NEW g \in voters[i], sendRequestVote(i, g)
    PROVE  History(T, W)'
<1>1. UNCHANGED <<termVars, logVars, leaderVars, installs, appendNet, serviceVars, votes, leaders>>
    BY DEF sendRequestVote
<1>2. TermsCalm
    BY <1>1, TermsSame
<1>3. /\ UNCHANGED <<log, leaders, nextIndex, matchIndex, startAppend, commitIndex, applied, votes>>
      /\ UNCHANGED <<currentTerm, tp, aeReq, aeRep, isReq, isRep, installs>>
    BY <1>1 DEF termVars, logVars, leaderVars, appendNet, serviceVars
<1>4. /\ HistTypes(T, W)' /\ LedInv(T)' /\ SoundInv(T)' /\ AcceptInv(T, W)' /\ KeptInv(T, W)'
      /\ WonInv(T, W)' /\ CommitUpToDate' /\ AppliedInv(T, W)' /\ SentInv(T, W)' /\ CommitInv(T, W)'
      /\ AnswerInv(T, W)' /\ LeadInv(W)'
    BY <1>2, <1>3, QuietBase
<1>5. InstallsInv'
    <2>1. \A k \in Server : \A t : Started(k, t) => Started(k, t)'
        BY <1>2, <1>3, QuietStarted DEF TermsCalm
    <2>2. /\ \A k \in Server : \A h \in installs'[k] : Started(k, h.termTemp)
          /\ (\A n \in isReq' : Started(n.from, n.termTemp)) /\ (\A r \in isRep' : Started(r.from, r.termTemp))
        BY <1>3 DEF History, InstallsInv
    <2> QED
        BY <2>1, <2>2, InstallsFrame
<1>6. VotedInv(T, W)'
    BY <1>3 DEF History, VotedInv, VotedAt, Covers, Acked
<1>7. AskInv'
    <2>1. LastLogIndex(i) = Len(log[i]) /\ LastLogTerm(i) = TermAt(log[i], Len(log[i]))
        <3>1. log[i] \in Seq(Entry) /\ snapshotIndex[i] = 0 /\ snapshotTerm[i] = 0
            BY DEF TypeOK, LogTypes, SnapFree
        <3>2. Len(log[i]) \in Nat /\ (Len(log[i]) = 0 <=> log[i] = <<>>)
            BY <3>1, LogFacts, SMT
        <3> QED
            BY <3>1, <3>2, SMT DEF LastLogIndex, LastLogTerm, TermAt
    <2>2. g.term <= currentTerm[i]
        BY DEF ElectionInv, SpawnedOnce, Uncounted
    <2>3. \A m \in rvReq' : m \in rvReq \/ (m.from = i /\ m.Term = g.term /\ m.LastLogIndex = LastLogIndex(i)
                                            /\ m.LastLogTerm = LastLogTerm(i))
        BY SMT DEF sendRequestVote
    <2>4. AskInv
        BY DEF History
    <2> QED
        BY <1>3, <2>1, <2>2, <2>3, <2>4 DEF AskInv, AskAt, TermAt
<1> QED
    BY <1>4, <1>5, <1>6, <1>7 DEF History

(* A candidate whose log is at least as up to date as that of a voter      *)
(* covers what the voter has acknowledged.                                 *)
LEMMA UpToDateCovers ==
    ASSUME TypeOK, SnapFree, NEW T, NEW W, History(T, W), NEW j \in Server, NEW c \in Server, NEW m \in VoteRequest,
           UpToDate(j, m), m.LastLogIndex = Len(log[c]), m.LastLogTerm = TermAt(log[c], Len(log[c])),
           NEW u, NEW b \in Nat, currentTerm[j] <= b, currentTerm[c] <= b
    PROVE  Covers(T, W, log[c], j, u, b)
<1>1. HistTypes(T, W) /\ SoundInv(T) /\ KeptInv(T, W)
    BY DEF History
<1>2. /\ log[j] \in Seq(Entry) /\ log[c] \in Seq(Entry) /\ Len(log[j]) \in Nat /\ Len(log[c]) \in Nat
      /\ currentTerm[j] \in Nat /\ currentTerm[c] \in Nat
    BY LogFacts DEF TypeOK, LogTypes, TermTypes
<1>3. Sound(T, log[j], currentTerm[j]) /\ Sound(T, log[c], currentTerm[c])
    BY <1>1 DEF SoundInv
<1> SUFFICES ASSUME NEW t \in DOMAIN T, NEW k \in 1 .. Len(T[t]), Acked(T, W, j, t, k)
             PROVE  Has(log[c], t, k) \/ \E s \in DOMAIN T : s <= b /\ Lost(T, s, t, k)
    BY DEF Covers
<1>4. KeptAt(T, j, t, k)
    BY <1>1 DEF KeptInv
<1>5. \A s \in DOMAIN T : s \in Nat
    BY <1>1 DEF HistTypes
<1>6. CASE \E s \in DOMAIN T : s <= currentTerm[j] /\ Lost(T, s, t, k)
    <2>1. \A s \in DOMAIN T : s <= currentTerm[j] => s <= b
        BY <1>2, <1>5, SMTT(30)
    <2> QED
        BY <1>6, <2>1
<1>7. CASE Has(log[j], t, k)
    <2> DEFINE n == Len(log[j])
               p == Len(log[c])
               lj == log[j][n].Term
               lc == log[c][p].Term
    <2>1. k \in 1 .. n /\ n \in 1 .. n /\ log[j] # <<>> /\ t \in Nat
        BY <1>2, <1>5, <1>7, LogFacts, SMTT(30) DEF Has
    <2>2. Has(log[j], lj, n)
        BY <2>1 DEF Has
    <2>3. lj \in DOMAIN T /\ lj \in Nat /\ Agree(log[j], T[lj], n) /\ t <= lj
        <3>1. /\ lj \in DOMAIN T /\ lj \in Nat /\ Agree(log[j], T[lj], n)
              /\ \A h \in 1 .. n : log[j][h].Term <= lj
            <4> HIDE DEF n, lj
            <4> QED
                BY <1>1, <1>2, <1>3, <2>2, SoundHas
        <3> QED
            BY <1>7, <2>1, <3>1 DEF Has
    <2>4. LastLogTerm(j) = lj /\ LastLogIndex(j) = n
        BY <1>2, <2>1, SMTT(30) DEF LastLogTerm, LastLogIndex, SnapFree
    <2>5. m.LastLogTerm > lj \/ (m.LastLogTerm = lj /\ p >= n)
        BY <2>4 DEF UpToDate
    <2> HIDE DEF n, p, lj
    <2>6. p \in 1 .. p /\ m.LastLogTerm = lc
        <3>1. p # 0
            BY <1>2, <2>1, <2>3, <2>5, SMTT(30) DEF TermAt, n, p
        <3> QED
            BY <1>2, <3>1, SMT DEF TermAt, p
    <2>7. Has(log[c], lc, p)
        BY <2>6 DEF Has, p
    <2> HIDE DEF lc
    <2>8. lc \in DOMAIN T /\ lc \in Nat /\ lc <= currentTerm[c] /\ Agree(log[c], T[lc], p) /\ Has(T[lc], lc, p)
        BY <1>1, <1>2, <1>3, <2>7, SoundHas
    <2>9. T[lc] \in Seq(Entry) /\ Sound(T, T[lc], lc)
        BY <1>1, <2>8, HistFacts DEF SoundInv
    <2>10. p \in Nat /\ n \in Nat /\ k \in Nat
        BY <1>2, <2>1, SMTT(30) DEF p, n
    <2>11. k <= p /\ Has(T[lc], t, k) => Has(log[c], t, k)
        <3>1. k <= p => k \in 1 .. p
            BY <2>1, <2>10, SMTT(30)
        <3> QED
            BY <1>2, <2>8, <2>9, <2>10, <3>1, AgreeFacts
    <2>12. CASE lc > lj
        <3>1. t < lc
            BY <2>1, <2>3, <2>8, <2>12, SMTT(30)
        <3>2. CASE Has(T[lc], t, k)
            <4>1. \A h \in 1 .. k : T[lc][h].Term <= t
                BY <1>1, <2>9, <3>2, SoundHas
            <4>2. k <= p
                <5>1. ~(k <= p) => p \in 1 .. k
                    BY <2>6, <2>10, SMTT(30)
                <5>2. ~(k <= p) => lc <= t
                    BY <2>8, <4>1, <5>1 DEF Has
                <5> QED
                    BY <2>1, <2>8, <3>1, <5>2, SMTT(30)
            <4> QED
                BY <2>11, <3>2, <4>2
        <3>3. CASE ~Has(T[lc], t, k)
            <4>1. Lost(T, lc, t, k) /\ lc <= b
                BY <1>2, <2>8, <3>1, <3>3, SMTT(30) DEF Lost
            <4> QED
                BY <2>8, <4>1
        <3> QED
            BY <3>2, <3>3
    <2>13. CASE lc = lj /\ p >= n
        <3>1. Has(T[lc], t, k)
            BY <1>2, <1>7, <2>1, <2>3, <2>9, <2>10, <2>13, AgreeFacts
        <3>2. k <= p
            BY <2>1, <2>10, <2>13, SMTT(30)
        <3> QED
            BY <2>11, <3>1, <3>2
    <2> QED
        BY <2>5, <2>6, <2>12, <2>13
<1> QED
    BY <1>4, <1>6, <1>7 DEF KeptAt

(* A vote: the candidate covers what its voter has acknowledged. *)
LEMMA RequestVoteHistory ==
    ASSUME TypeOK, TypeOK', SnapFree, ElectionInv, NEW T, NEW W, History(T, W), NEW m \in rvReq, RequestVote(m)
    PROVE  History(T, W)'
<1> DEFINE j == m.to
           c == m.from
           u == m.Term
<1>1. m \in VoteRequest /\ j \in Server /\ c \in Server /\ u \in Nat
    BY DEF TypeOK, VoteNetTypes, VoteRequest
<1>2. /\ UNCHANGED <<logVars, leaderVars, installs, appendNet, serviceVars, leaders>>
      /\ currentTerm' = [currentTerm EXCEPT ![j] = IF u > currentTerm[j] THEN u ELSE @]
      /\ tp' = [tp EXCEPT ![j] = IF u > currentTerm[j] THEN Follower ELSE @]
      /\ rvReq' \subseteq rvReq
      /\ votes' = IF Grants(j, m) THEN votes \cup {<<j, u, c>>} ELSE votes
    BY DEF RequestVote
<1> HIDE DEF j, c, u
<1>3. currentTerm \in [Server -> Nat] /\ tp \in [Server -> {Follower, Candidate, Leader}]
    BY DEF TypeOK, TermTypes
<1>4. TermsCalm
    <2>1. Settled
        BY <1>1, <1>2, <1>3, SMT DEF Settled, Follower, Leader
    <2>2. \A k \in Server : Stays(k)
        BY <1>1, <1>2, <1>3, SMT DEF Stays
    <2> QED
        BY <2>1, <2>2 DEF TermsCalm
<1>5. /\ UNCHANGED <<log, leaders, nextIndex, matchIndex, startAppend, commitIndex, applied>>
      /\ UNCHANGED <<aeReq, aeRep, isReq, isRep, installs>>
    BY <1>2 DEF logVars, leaderVars, appendNet, serviceVars
<1>6. /\ HistTypes(T, W)' /\ LedInv(T)' /\ SoundInv(T)' /\ AcceptInv(T, W)' /\ KeptInv(T, W)'
      /\ WonInv(T, W)' /\ CommitUpToDate' /\ AppliedInv(T, W)' /\ SentInv(T, W)' /\ CommitInv(T, W)'
      /\ AnswerInv(T, W)' /\ LeadInv(W)'
    BY <1>4, <1>5, QuietBase
<1>7. InstallsInv'
    <2>1. \A k \in Server : \A t : Started(k, t) => Started(k, t)'
        BY <1>4, <1>5, QuietStarted DEF TermsCalm
    <2>2. /\ \A k \in Server : \A h \in installs'[k] : Started(k, h.termTemp)
          /\ (\A n \in isReq' : Started(n.from, n.termTemp)) /\ (\A r \in isRep' : Started(r.from, r.termTemp))
        BY <1>5 DEF History, InstallsInv
    <2> QED
        BY <2>1, <2>2, InstallsFrame
<1>8. Moves(T, W, T, W)
    BY <1>4, <1>5, QuietMoves DEF TermsCalm
<1>9. AskAt(m) /\ TermsGrow /\ CandidatesKept
    BY <1>8 DEF Moves, History, AskInv
<1>10. \A v \in votes' : v \in votes \/ (Grants(j, m) /\ v[1] = j /\ v[2] = u /\ v[3] = c)
    BY <1>2, SMT
<1>11. u <= currentTerm[c] /\ currentTerm[c] <= currentTerm'[c]
    BY <1>1, <1>9 DEF AskAt, TermsGrow, u, c
<1>12. AskInv'
    <2>1. \A n \in rvReq' : AskAt(n)'
        BY <1>2, <1>8, AskFrame
    <2>2. \A v \in votes : v[2] <= currentTerm'[v[3]]
        BY <1>8, VotedFrame
    <2>3. u <= currentTerm'[c]
        BY <1>1, <1>3, <1>11, SMT DEF TypeOK, TermTypes
    <2>4. \A v \in votes' : v[2] <= currentTerm'[v[3]]
        BY <1>10, <2>2, <2>3
    <2> QED
        BY <2>1, <2>4 DEF AskInv
<1>13. VotedInv(T, W)'
    <2>1. \A v \in votes : VotedAt(T, W, v)'
        BY <1>8, VotedFrame
    <2>2. ASSUME Grants(j, m), u = currentTerm'[c], tp'[c] = Candidate
          PROVE  Covers(T, W, log[c], j, u, u)'
        <3>1. currentTerm'[c] \in Nat
            BY <1>1 DEF TypeOK, TermTypes
        <3>2. currentTerm[c] = u /\ tp[c] = Candidate
            BY <1>1, <1>3, <1>9, <1>11, <2>2, <3>1, SMTT(30) DEF CandidatesKept
        <3>3. m.LastLogIndex = Len(log[c]) /\ m.LastLogTerm = TermAt(log[c], Len(log[c]))
            BY <1>9, <3>2 DEF AskAt, u, c
        <3>4. UpToDate(j, m) /\ currentTerm[j] <= u /\ currentTerm[c] <= u
            BY <1>1, <1>3, <2>2, <3>2, SMTT(30) DEF Grants, u
        <3>5. Covers(T, W, log[c], j, u, u)
            BY <1>1, <3>3, <3>4, UpToDateCovers
        <3>6. log' = log /\ leaders' = leaders
            BY <1>5
        <3> QED
            BY <3>5, <3>6 DEF Covers, Acked, c, j, u
    <2>3. ASSUME NEW v \in votes', v[2] = currentTerm'[v[3]], tp'[v[3]] = Candidate
          PROVE  Covers(T, W, log[v[3]], v[1], v[2], v[2])'
        <3>1. CASE v \in votes
            BY <2>1, <2>3, <3>1 DEF VotedAt
        <3>2. CASE Grants(j, m) /\ v[1] = j /\ v[2] = u /\ v[3] = c
            BY <2>2, <2>3, <3>2 DEF c, j, u
        <3> QED
            BY <1>10, <3>1, <3>2
    <2> QED
        BY <2>3 DEF VotedInv, VotedAt
<1> QED
    BY <1>6, <1>7, <1>12, <1>13 DEF History

(* A candidate that has won begins the log of its term. *)
LEMMA BecomeLeaderHistory ==
    ASSUME AtomicCheck, TypeOK, TypeOK', ElectionInv, ElectionSafety', NEW T, NEW W, History(T, W),
           NEW i \in Server, NEW t0, BecomeLeader(i, t0)
    PROVE  \E S, V : History(S, V)'
<1>1. PICK u : u = currentTerm[i]
    OBVIOUS
<1>2. PICK S : S = [x \in DOMAIN T \cup {u} |-> IF x = u THEN log[i] ELSE T[x]]
    OBVIOUS
<1>3. /\ tp[i] = Candidate /\ voteCount[i] > N \div 2
      /\ UNCHANGED <<currentTerm, logVars, installs, voteNet, appendNet, serviceVars, votes>>
      /\ tp' = [tp EXCEPT ![i] = Leader] /\ leaders' = leaders \cup {<<u, i>>}
      /\ nextIndex' = [nextIndex EXCEPT ![i] = [index \in Server |-> Len(log[i]) + 1]]
      /\ matchIndex' = [matchIndex EXCEPT ![i] = [index \in Server |-> 0]]
      /\ startAppend' = [startAppend EXCEPT ![i] = FALSE]
    BY <1>1 DEF BecomeLeader, CheckPassed
<1>4. UNCHANGED <<currentTerm, log, commitIndex, applied, votes, rvReq, aeReq, aeRep, isReq, isRep, installs>>
    BY <1>3 DEF logVars, voteNet, appendNet, serviceVars
<1>5. /\ currentTerm \in [Server -> Nat] /\ tp \in [Server -> {Follower, Candidate, Leader}] /\ u \in Nat
      /\ log \in [Server -> Seq(Entry)] /\ leaders \subseteq Nat \X Server
    BY <1>1 DEF TypeOK, TermTypes, LogTypes, OtherTypes
<1>6. /\ HistTypes(T, W) /\ LedInv(T) /\ SoundInv(T) /\ SentInv(T, W) /\ AnswerInv(T, W) /\ AcceptInv(T, W)
      /\ KeptInv(T, W) /\ AskInv /\ VotedInv(T, W) /\ WonInv(T, W) /\ LeadInv(W) /\ InstallsInv
      /\ CommitUpToDate /\ CommitInv(T, W) /\ AppliedInv(T, W)
    BY DEF History
<1>7. TermsGrow /\ CandidatesKept /\ \A j \in Server : Stays(j)
    BY <1>3, <1>4, <1>5, SMTT(30) DEF TermsGrow, CandidatesKept, Stays, Leader, Candidate
<1>8. u \notin DOMAIN T
    <2> SUFFICES ASSUME u \in DOMAIN T PROVE FALSE
        OBVIOUS
    <2>1. PICK j \in Server : <<u, j>> \in leaders
        BY <1>6 DEF LedInv
    <2>2. <<u, i>> \in leaders' /\ <<u, j>> \in leaders'
        BY <1>3, <2>1
    <2>3. <<u, i>>[1] = u /\ <<u, i>>[2] = i /\ <<u, j>>[1] = u /\ <<u, j>>[2] = j
        OBVIOUS
    <2>4. j = i
        BY <2>2, <2>3 DEF ElectionSafety
    <2> QED
        BY <1>1, <1>3, <1>6, <2>1, <2>3, <2>4 DEF LedInv
<1>9. /\ DOMAIN S = DOMAIN T \cup {u} /\ S[u] = log[i]
      /\ \A t \in DOMAIN T : t \in DOMAIN S /\ S[t] = T[t] /\ t # u
    BY <1>2, <1>8
<1>10. Extends(T, W, S, W)
    <2>1. HistTypes(S, W)
        BY <1>5, <1>6, <1>9 DEF HistTypes
    <2>2. \A t \in DOMAIN T : Len(T[t]) \in Nat
        BY <1>6, HistFacts
    <2>3. Grows(T, S)
        BY <1>9, <2>2, SMTT(30) DEF Grows, Agree
    <2> QED
        BY <1>3, <1>6, <2>1, <2>3 DEF Extends
<1>11. Sound(T, log[i], u)
    BY <1>1, <1>6 DEF SoundInv
<1>12. \A k : ~Has(log[i], u, k)
    BY <1>5, <1>6, <1>8, <1>11, SoundHas
<1>13. \A j \in Server : \A t, k : Acked(S, W, j, t, k)' => t \in DOMAIN T /\ Acked(T, W, j, t, k)
    <2> SUFFICES ASSUME NEW j \in Server, NEW t, NEW k, Acked(S, W, j, t, k)'
                 PROVE  t \in DOMAIN T /\ Acked(T, W, j, t, k)
        OBVIOUS
    <2>1. /\ t \in DOMAIN S /\ Has(S[t], t, k)
          /\ <<t, j>> \in leaders' \/ \E w \in W : w[1] = j /\ w[2] = t /\ k <= w[3]
        BY DEF Acked, Has
    <2>2. t # u
        BY <1>9, <1>12, <2>1
    <2>3. t \in DOMAIN T /\ S[t] = T[t]
        BY <1>9, <2>1, <2>2
    <2>4. <<t, j>> \in leaders' => <<t, j>> \in leaders
        BY <1>3, <2>2
    <2> QED
        BY <2>1, <2>3, <2>4 DEF Acked
<1>14. Moves(T, W, S, W)
    <2>1. Frozen(T, W, S, W)
        BY <1>13 DEF Frozen
    <2> QED
        BY <1>7, <1>10, <2>1 DEF Moves
<1>15. LedInv(S)'
    <2>1. \A t \in DOMAIN S : \E j \in Server : <<t, j>> \in leaders'
        BY <1>3, <1>6, <1>9 DEF LedInv
    <2>2. ASSUME NEW l \in leaders'
          PROVE  /\ l[1] \in DOMAIN S /\ l[1] <= currentTerm'[l[2]]
                 /\ l[1] = currentTerm'[l[2]] => tp'[l[2]] # Candidate /\ log'[l[2]] = S[l[1]]
        <3>1. CASE l = <<u, i>>
            BY <1>1, <1>3, <1>4, <1>5, <1>9, <3>1, SMTT(30) DEF Leader, Candidate
        <3>2. CASE l \in leaders
            <4>1. /\ l[1] \in DOMAIN T /\ l[1] <= currentTerm[l[2]] /\ l[2] \in Server
                  /\ l[1] = currentTerm[l[2]] => tp[l[2]] # Candidate /\ log[l[2]] = T[l[1]]
                BY <1>5, <1>6, <3>2 DEF LedInv
            <4> QED
                BY <1>3, <1>4, <1>5, <1>9, <4>1 DEF Leader, Candidate
        <3> QED
            BY <1>3, <3>1, <3>2
    <2>3. \A j \in Server : tp'[j] = Leader => <<currentTerm'[j], j>> \in leaders'
        BY <1>1, <1>3, <1>4, <1>5, <1>6 DEF LedInv
    <2> QED
        BY <2>1, <2>2, <2>3 DEF LedInv
<1>16. SoundInv(S)'
    <2>1. \A j \in Server : Sound(S, log'[j], currentTerm'[j])
        BY <1>4, <1>5, <1>6, <1>10, GrowsSound DEF SoundInv
    <2>2. \A t \in DOMAIN T : Sound(S, S[t], t)
        BY <1>6, <1>9, <1>10, GrowsSound, HistFacts DEF SoundInv
    <2>3. Sound(S, S[u], u)
        BY <1>5, <1>9, <1>10, <1>11, GrowsSound
    <2>4. \A t \in DOMAIN S : Sound(S, S[t], t)
        BY <1>9, <2>2, <2>3
    <2> QED
        BY <2>1, <2>4 DEF SoundInv, Sound, Agree
<1>17. /\ HistTypes(S, W)' /\ AskInv' /\ VotedInv(S, W)' /\ SentInv(S, W)' /\ AnswerInv(S, W)' /\ AppliedInv(S, W)'
       /\ \A m \in aeReq' : CommitSent(S, W, m)'
    BY <1>4, <1>7, <1>14, Frames
<1>18. AcceptInv(S, W)'
    <2>1. ASSUME NEW w \in W PROVE AcceptAt(S, w)'
        <3>1. w[1] \in Server /\ w[3] \in Nat /\ (w[2] = currentTerm[w[1]] => w[3] <= Len(log[w[1]]))
            BY <1>6 DEF HistTypes, AcceptInv, AcceptAt, Agree
        <3>2. w[2] = currentTerm[w[1]] => Agree(log[w[1]], log'[w[1]], w[3])
            BY <1>4, <1>5, <3>1, AgreeSame
        <3> QED
            BY <1>14, <3>2, AcceptFrame
    <2> QED
        BY <2>1 DEF AcceptInv
<1>19. KeptInv(S, W)'
    <2>1. \A j \in Server : \A t, k : Acked(S, W, j, t, k)' => KeptAt(S, j, t, k)'
        BY <1>4, <1>13, <1>14, KeptFrame
    <2> QED
        BY <2>1 DEF KeptInv
<1>20. WonInv(S, W)'
    <2>1. \A t \in DOMAIN T : Won(S, W, t)'
        BY <1>14, WonFrame
    <2>2. Won(S, W, u)'
        <3>1. tally[i] \in Majorities
            BY <1>3 DEF ElectionInv, VotesCountedOnce, Majorities, TypeOK, ElectTypes
        <3>2. ASSUME NEW j \in tally[i]
              PROVE  u <= currentTerm'[j] /\ Covers(S, W, S[u], j, u, u - 1)'
            <4>1. j \in Server /\ <<j, u, i>> \in votes
                BY <1>1, <1>3 DEF ElectionInv, VotesCountedOnce, TypeOK, ElectTypes
            <4>2. PICK v \in votes : v[1] = j /\ v[2] = u /\ v[3] = i
                BY <4>1
            <4>3. u <= currentTerm[j]
                BY <4>2 DEF ElectionInv, VotesKnown
            <4>4. Covers(T, W, log[i], j, u, u)
                BY <1>1, <1>3, <1>6, <4>2 DEF VotedInv, VotedAt
            <4>5. Covers(T, W, log[i], j, u, u - 1)
                <5>1. \A s \in DOMAIN T : s \in Nat /\ s # u
                    BY <1>6, <1>8 DEF HistTypes
                <5>2. \A s \in DOMAIN T : s <= u => s <= u - 1
                    BY <1>5, <5>1, SMTT(30)
                <5> QED
                    BY <4>4, <5>2 DEF Covers
            <4>6. PICK L : L = log[i]
                OBVIOUS
            <4>7. Covers(S, W, L, j, u, u - 1)'
                BY <1>5, <1>14, <4>1, <4>3, <4>5, <4>6, CoversFrame DEF Moves
            <4>8. L = S[u]
                BY <1>9, <4>6
            <4> QED
                BY <1>4, <4>3, <4>7, <4>8
        <3>3. PICK Q : Q = tally[i]
            OBVIOUS
        <3> QED
            BY <3>1, <3>2, <3>3 DEF Won, Majorities
    <2> QED
        BY <1>9, <2>1, <2>2 DEF WonInv
<1>21. LeadInv(W)'
    <2>1. LeadAt(W, i)'
        <3>1. /\ \A j \in Server : nextIndex'[i][j] = Len(log'[i]) + 1 /\ matchIndex'[i][j] = 0
              /\ ~startAppend'[i]
            BY <1>3, <1>4 DEF TypeOK, LeaderTypes
        <3>2. Len(log'[i]) + 1 \in Nat
            BY <1>4, <1>5, LogFacts, SMTT(30)
        <3>3. \A j \in Server : nextIndex'[i][j] <= Len(log'[i]) + 1 /\ ~(matchIndex'[i][j] > 0)
            BY <3>1, <3>2, SMTT(30)
        <3> QED
            BY <3>1, <3>3 DEF LeadAt
    <2>2. ASSUME NEW j \in Server, j # i PROVE LeadAt(W, j)'
        <3>1. LeadAt(W, j)
            BY <1>6 DEF LeadInv
        <3>2. /\ nextIndex'[j] = nextIndex[j] /\ matchIndex'[j] = matchIndex[j] /\ startAppend'[j] = startAppend[j]
              /\ tp'[j] = tp[j]
            BY <1>3, <2>2, SMTT(30) DEF TypeOK, TermTypes, LeaderTypes
        <3> QED
            BY <1>4, <3>1, <3>2, LeadFrame
    <2> QED
        BY <2>1, <2>2 DEF LeadInv
<1>22. InstallsInv'
    <2>1. \A j \in Server : tp'[j] = Leader => (tp[j] = Leader /\ (startAppend[j] => startAppend'[j])) \/ tp[j] = Candidate
        BY <1>3 DEF TypeOK, TermTypes, LeaderTypes
    <2>2. \A j \in Server : \A t : Started(j, t) => Started(j, t)'
        BY <1>14, <2>1, StartedFrame
    <2>3. /\ \A j \in Server : \A g \in installs'[j] : Started(j, g.termTemp)
          /\ (\A m \in isReq' : Started(m.from, m.termTemp)) /\ (\A r \in isRep' : Started(r.from, r.termTemp))
        BY <1>4, <1>6 DEF InstallsInv
    <2> QED
        BY <2>2, <2>3, InstallsFrame
<1>23. CommitUpToDate'
    <2>1. \A j \in Server : startAppend'[j] => startAppend[j] /\ matchIndex'[j] = matchIndex[j]
        BY <1>3 DEF TypeOK, LeaderTypes
    <2> QED
        BY <1>4, <1>6, <2>1 DEF CommitUpToDate
<1>24. CommitInv(S, W)'
    <2>1. ASSUME NEW j \in Server PROVE CommitAt(S, W, j)'
        <3>1. commitIndex[j] \in Nat /\ commitIndex[j] <= Len(log[j])
            BY <1>6 DEF CommitInv, CommitAt, Chosen, TypeOK, ServiceTypes
        <3>2. Agree(log[j], log'[j], commitIndex[j])
            BY <1>4, <1>5, <3>1, AgreeSame
        <3> QED
            BY <1>4, <1>14, <3>2, CommitFrame
    <2> QED
        BY <1>17, <2>1 DEF CommitInv
<1> QED
    BY <1>15, <1>16, <1>17, <1>18, <1>19, <1>20, <1>21, <1>22, <1>23, <1>24 DEF History
-----------------------------------------------------------------------------
(* Start *)

(* The leader i appends e, and S is the history T with e at the end of the *)
(* log of its term.                                                        *)
AppendStep(T, S, i, e) ==
    /\ tp[i] = Leader /\ e \in Entry /\ e.Term = currentTerm[i]
    /\ log' = [log EXCEPT ![i] = Append(@, e)]
    /\ UNCHANGED <<currentTerm, tp, leaders>>
    /\ S = [T EXCEPT ![currentTerm[i]] = Append(log[i], e)]

(* The entry that a leader appends is acknowledged by itself only, and     *)
(* nothing else changes for the entries that were there.                   *)
LEMMA AppendGrows ==
    ASSUME TypeOK, TypeOK', ElectionSafety, NEW T, NEW W, History(T, W), NEW i \in Server, NEW e, NEW S,
           AppendStep(T, S, i, e)
    PROVE  /\ currentTerm[i] \in DOMAIN T /\ T[currentTerm[i]] = log[i]
           /\ DOMAIN S = DOMAIN T /\ S[currentTerm[i]] = log'[i]
           /\ \A t \in DOMAIN T : t # currentTerm[i] => S[t] = T[t]
           /\ Extends(T, W, S, W) /\ Frozen(T, W, S, W)
           /\ \A j \in Server : \A t, k :
                  Acked(S, W, j, t, k)' => \/ Acked(T, W, j, t, k)
                                           \/ j = i /\ t = currentTerm[i] /\ k = Len(log'[i])
           /\ \A l \in leaders : l[1] = currentTerm[i] => l[2] = i
<1> USE DEF AppendStep
<1>1. PICK u : u = currentTerm[i]
    OBVIOUS
<1>2. HistTypes(T, W) /\ LedInv(T) /\ AcceptInv(T, W)
    BY DEF History
<1>3. log[i] \in Seq(Entry) /\ Len(log[i]) \in Nat /\ u \in Nat /\ currentTerm \in [Server -> Nat] /\ log'[i] = Append(log[i], e)
    BY <1>1, LogFacts DEF TypeOK, LogTypes, TermTypes
<1>4. /\ Append(log[i], e) \in Seq(Entry) /\ Len(Append(log[i], e)) = Len(log[i]) + 1
      /\ Append(log[i], e)[Len(log[i]) + 1] = e
      /\ \A k \in 1 .. Len(log[i]) : Append(log[i], e)[k] = log[i][k]
    BY <1>3, SMTT(30)
<1>5. <<u, i>> \in leaders /\ <<u, i>>[1] = u /\ <<u, i>>[2] = i
    BY <1>1, <1>2 DEF LedInv
<1>6. u \in DOMAIN T /\ T[u] = log[i]
    BY <1>1, <1>2, <1>5 DEF LedInv
<1>7. DOMAIN S = DOMAIN T /\ S[u] = log'[i] /\ \A t \in DOMAIN T : t # u => S[t] = T[t]
    BY <1>1, <1>3, <1>6
<1>8. \A l \in leaders : l[1] = u => l[2] = i
    BY <1>5 DEF ElectionSafety
<1>9. Extends(T, W, S, W)
    <2>1. HistTypes(S, W)
        BY <1>2, <1>3, <1>4, <1>7 DEF HistTypes
    <2>2. \A t \in DOMAIN T : Len(T[t]) \in Nat
        BY <1>2, HistFacts
    <2>3. \A t \in DOMAIN T : t # u => Agree(T[t], S[t], Len(T[t]))
        <3> SUFFICES ASSUME NEW t \in DOMAIN T, t # u PROVE Agree(T[t], S[t], Len(T[t]))
            OBVIOUS
        <3>1. T[t] \in Seq(Entry) /\ Len(T[t]) \in Nat /\ S[t] = T[t]
            BY <1>2, <1>7, HistFacts
        <3>2. Agree(T[t], T[t], Len(T[t]))
            BY <3>1, AgreeSame, SMTT(30)
        <3> QED
            BY <3>1, <3>2
    <2>4. Agree(T[u], S[u], Len(T[u]))
        BY <1>3, <1>4, <1>6, <1>7, SMTT(30) DEF Agree
    <2>5. \A t \in DOMAIN T : \A k \in 1 .. Len(S[t]) : k > Len(T[t]) => S[t][k].Term = t
        BY <1>1, <1>3, <1>4, <1>6, <1>7, <2>2, SMTT(30)
    <2>6. Grows(T, S)
        BY <1>7, <2>3, <2>4, <2>5 DEF Grows
    <2> QED
        BY <1>2, <2>1, <2>6 DEF Extends
<1>10. ASSUME NEW j \in Server, NEW t, NEW k, Acked(S, W, j, t, k)'
       PROVE  Acked(T, W, j, t, k) \/ (j = i /\ t = u /\ k = Len(log'[i]))
    <2>1. /\ t \in DOMAIN S /\ Has(S[t], t, k)
          /\ <<t, j>> \in leaders' \/ \E w \in W : w[1] = j /\ w[2] = t /\ k <= w[3]
        BY <1>10 DEF Acked, Has
    <2>2. CASE t # u
        BY <1>7, <2>1, <2>2 DEF Acked
    <2>3. CASE t = u /\ k # Len(log'[i])
        <3>1. Has(T[t], t, k)
            BY <1>3, <1>4, <1>6, <1>7, <2>1, <2>3, SMTT(30) DEF Has
        <3> QED
            BY <1>7, <2>1, <3>1 DEF Acked
    <2>4. CASE t = u /\ k = Len(log'[i])
        <3>1. \A w \in W : w[2] = u => w[3] \in Nat /\ w[3] <= Len(log[i])
            BY <1>2, <1>6 DEF AcceptInv, AcceptAt, HistTypes
        <3>2. <<t, j>> \in leaders
            BY <1>3, <1>4, <2>1, <2>4, <3>1, SMTT(30)
        <3>3. j = i
            BY <1>8, <2>4, <3>2
        <3> QED
            BY <2>4, <3>3
    <2> QED
        BY <2>2, <2>3, <2>4
<1>11. Frozen(T, W, S, W)
    <2>1. ~(u < currentTerm[i])
        BY <1>1, <1>3, SMT
    <2> QED
        BY <1>10, <2>1 DEF Frozen
<1> QED
    BY <1>1, <1>6, <1>7, <1>8, <1>9, <1>10, <1>11

(* Start, called for a client or for the no-op of a new leader. *)
LEMMA AppendHistory ==
    ASSUME MedianFacts, TypeOK, TypeOK', ElectionInv, ElectionSafety, SnapFree, NEW T, NEW W, History(T, W),
           NEW i \in Server, tp[i] = Leader, NEW c \in Commands \cup {"no-op"}, AppendToLog(i, c),
           UNCHANGED <<installs, voteNet, appendNet, serviceVars, votes, leaders>>
    PROVE  \E S, V : History(S, V)'
<1>1. PICK e : e = [Command |-> c, Term |-> currentTerm[i]]
    OBVIOUS
<1>2. PICK S : S = [T EXCEPT ![currentTerm[i]] = Append(log[i], e)]
    OBVIOUS
<1>3. PICK u : u = currentTerm[i]
    OBVIOUS
<1>4. /\ currentTerm \in [Server -> Nat] /\ u \in Nat /\ log \in [Server -> Seq(Entry)] /\ leaders \subseteq Nat \X Server
      /\ matchIndex \in [Server -> [Server -> Nat]] /\ startAppend \in [Server -> BOOLEAN]
      /\ commitIndex \in [Server -> Nat]
    BY <1>3 DEF TypeOK, TermTypes, LogTypes, LeaderTypes, ServiceTypes, OtherTypes
<1>5. e \in Entry /\ e.Term = u
    BY <1>1, <1>3, <1>4 DEF Entry
<1>6. /\ log' = [log EXCEPT ![i] = Append(@, e)]
      /\ matchIndex' = [matchIndex EXCEPT ![i][i] = Len(log[i]) + 1]
      /\ startAppend' = [startAppend EXCEPT ![i] = TRUE]
      /\ UNCHANGED <<currentTerm, tp, nextIndex, leaders, commitIndex, applied, votes>>
      /\ UNCHANGED <<rvReq, aeReq, aeRep, isReq, isRep, installs>>
    <2>1. LastLogIndex(i) = Len(log[i])
        BY <1>4, LogFacts, SMTT(30) DEF LastLogIndex, SnapFree
    <2> QED
        BY <1>1, <2>1 DEF AppendToLog, termVars, voteNet, appendNet, serviceVars
<1>7. /\ HistTypes(T, W) /\ LedInv(T) /\ SoundInv(T) /\ AcceptInv(T, W) /\ LeadInv(W) /\ InstallsInv
      /\ CommitUpToDate /\ CommitInv(T, W)
    BY DEF History
<1>8. /\ u \in DOMAIN T /\ T[u] = log[i] /\ DOMAIN S = DOMAIN T /\ S[u] = log'[i]
      /\ \A t \in DOMAIN T : t # u => S[t] = T[t]
      /\ Extends(T, W, S, W) /\ Frozen(T, W, S, W)
      /\ \A j \in Server : \A t, k :
             Acked(S, W, j, t, k)' => Acked(T, W, j, t, k) \/ (j = i /\ t = u /\ k = Len(log'[i]))
      /\ \A l \in leaders : l[1] = u => l[2] = i
    <2>1. AppendStep(T, S, i, e)
        BY <1>2, <1>3, <1>5, <1>6 DEF AppendStep
    <2>2. /\ currentTerm[i] \in DOMAIN T /\ T[currentTerm[i]] = log[i] /\ DOMAIN S = DOMAIN T
          /\ S[currentTerm[i]] = log'[i] /\ \A t \in DOMAIN T : t # currentTerm[i] => S[t] = T[t]
          /\ Extends(T, W, S, W) /\ Frozen(T, W, S, W)
        BY <2>1, AppendGrows, SMTT(30)
    <2>3. /\ \A l \in leaders : l[1] = currentTerm[i] => l[2] = i
          /\ \A j \in Server : \A t, k :
                 Acked(S, W, j, t, k)' => Acked(T, W, j, t, k) \/ (j = i /\ t = currentTerm[i] /\ k = Len(log'[i]))
        BY <2>1, AppendGrows, SMTT(30)
    <2> QED
        BY <1>3, <2>2, <2>3, SMTT(30)
<1>9. Moves(T, W, S, W) /\ \A j \in Server : Stays(j)
    <2>1. TermsGrow /\ CandidatesKept /\ \A j \in Server : Stays(j)
        BY <1>4, <1>6, SMTT(30) DEF TermsGrow, CandidatesKept, Stays, Leader, Candidate
    <2> QED
        BY <1>8, <2>1 DEF Moves
<1>10. /\ log[i] \in Seq(Entry) /\ log'[i] \in Seq(Entry) /\ Len(log[i]) \in Nat /\ Len(log'[i]) = Len(log[i]) + 1
       /\ log'[i][Len(log[i]) + 1] = e /\ \A k \in 1 .. Len(log[i]) : log'[i][k] = log[i][k]
    <2>1. log[i] \in Seq(Entry) /\ log'[i] = Append(log[i], e)
        BY <1>4, <1>6
    <2> QED
        BY <1>5, <2>1, SMTT(30)
<1>11. \A j \in Server : j # i => log'[j] = log[j]
    BY <1>4, <1>6
<1>12. \A j \in Server : \A n \in Nat : n <= Len(log[j]) => Agree(log[j], log'[j], n)
    <2> SUFFICES ASSUME NEW j \in Server, NEW n \in Nat, n <= Len(log[j]) PROVE Agree(log[j], log'[j], n)
        OBVIOUS
    <2>1. CASE j = i
        BY <1>10, <2>1, SMTT(30) DEF Agree
    <2>2. CASE j # i
        <3>1. Agree(log[j], log[j], n)
            BY <1>4, AgreeSame
        <3> QED
            BY <1>11, <2>2, <3>1
    <2> QED
        BY <2>1, <2>2
<1>13. LedInv(S)'
    <2>1. \A t \in DOMAIN S : \E j \in Server : <<t, j>> \in leaders'
        BY <1>6, <1>7, <1>8 DEF LedInv
    <2>2. ASSUME NEW l \in leaders'
          PROVE  /\ l[1] \in DOMAIN S /\ l[1] <= currentTerm'[l[2]]
                 /\ l[1] = currentTerm'[l[2]] => tp'[l[2]] # Candidate /\ log'[l[2]] = S[l[1]]
        <3>1. /\ l \in leaders /\ l[1] \in DOMAIN T /\ l[1] <= currentTerm[l[2]] /\ l[2] \in Server
              /\ l[1] = currentTerm[l[2]] => tp[l[2]] # Candidate /\ log[l[2]] = T[l[1]]
            BY <1>4, <1>6, <1>7 DEF LedInv
        <3>2. l[2] = i \/ l[1] # u
            BY <1>8, <3>1
        <3> QED
            BY <1>3, <1>6, <1>8, <1>11, <3>1, <3>2
    <2>3. \A j \in Server : tp'[j] = Leader => <<currentTerm'[j], j>> \in leaders'
        BY <1>6, <1>7 DEF LedInv
    <2> QED
        BY <2>1, <2>2, <2>3 DEF LedInv
<1>14. SoundInv(S)'
    <2>1. Sound(S, log'[i], u)
        <3>1. Sound(S, log[i], u)
            BY <1>3, <1>4, <1>7, <1>8, GrowsSound DEF SoundInv
        <3> SUFFICES ASSUME NEW k \in 1 .. Len(log'[i])
                     PROVE  /\ log'[i][k].Term \in DOMAIN S /\ log'[i][k].Term <= u
                            /\ Agree(log'[i], S[log'[i][k].Term], k)
            BY DEF Sound
        <3>2. CASE k \in 1 .. Len(log[i])
            <4>1. log[i][k].Term \in DOMAIN S /\ log[i][k].Term <= u /\ Agree(log[i], S[log[i][k].Term], k)
                BY <3>1, <3>2 DEF Sound
            <4>2. \A x : \A h \in 1 .. Len(log[i]) :
                     Agree(log[i], x, h) => log'[i][h] = log[i][h] /\ Agree(log'[i], x, h)
                BY <1>10, Longer
            <4>3. log'[i][k] = log[i][k] /\ Agree(log'[i], S[log[i][k].Term], k)
                BY <3>2, <4>1, <4>2
            <4> QED
                BY <4>1, <4>3
        <3>3. CASE k = Len(log[i]) + 1
            <4>1. log'[i][k].Term = u /\ k \in Nat /\ k <= Len(log'[i])
                BY <1>5, <1>10, <3>3, SMTT(30)
            <4>2. Agree(log'[i], log'[i], k)
                BY <1>10, <4>1, AgreeSame
            <4> QED
                BY <1>4, <1>8, <4>1, <4>2, SMTT(30)
        <3> QED
            BY <1>10, <3>2, <3>3, Longer
    <2>2. \A j \in Server : Sound(S, log'[j], currentTerm'[j])
        BY <1>3, <1>6, <1>9, <1>11, <2>1, SoundFrame
    <2>3. \A t \in DOMAIN S : Sound(S, S[t], t)
        <3> SUFFICES ASSUME NEW t \in DOMAIN S PROVE Sound(S, S[t], t)
            OBVIOUS
        <3>1. CASE t = u
            BY <1>8, <2>1, <3>1
        <3>2. CASE t # u
            <4>1. T[t] \in Seq(Entry) /\ Sound(T, T[t], t)
                BY <1>7, <1>8, HistFacts DEF SoundInv
            <4> QED
                BY <1>8, <3>2, <4>1, GrowsSound
        <3> QED
            BY <3>1, <3>2
    <2> QED
        BY <2>2, <2>3 DEF SoundInv, Sound, Agree
<1>15. /\ HistTypes(S, W)' /\ AskInv' /\ VotedInv(S, W)' /\ WonInv(S, W)' /\ SentInv(S, W)' /\ AnswerInv(S, W)'
       /\ AppliedInv(S, W)' /\ \A m \in aeReq' : CommitSent(S, W, m)'
    BY <1>6, <1>8, <1>9, Frames
<1>16. AcceptInv(S, W)'
    <2>1. ASSUME NEW w \in W PROVE AcceptAt(S, w)'
        <3>1. w[1] \in Server /\ w[3] \in Nat /\ (w[2] = currentTerm[w[1]] => w[3] <= Len(log[w[1]]))
            BY <1>7 DEF HistTypes, AcceptInv, AcceptAt, Agree
        <3> QED
            BY <1>9, <1>12, <3>1, AcceptFrame
    <2> QED
        BY <2>1 DEF AcceptInv
<1>17. KeptInv(S, W)'
    <2>1. ASSUME NEW j \in Server, NEW t, NEW k, Acked(S, W, j, t, k)' PROVE KeptAt(S, j, t, k)'
        <3>1. CASE Acked(T, W, j, t, k)
            <4>1. Has(log[j], t, k) => Has(log'[j], t, k)
                <5>1. CASE j = i
                    BY <1>10, <5>1, Longer
                <5>2. CASE j # i
                    BY <1>11, <5>2
                <5> QED
                    BY <5>1, <5>2
            <4> QED
                BY <1>9, <3>1, <4>1, KeptFrame
        <3>2. CASE j = i /\ t = u /\ k = Len(log'[i])
            <4>1. Len(log[i]) + 1 \in 1 .. Len(log[i]) + 1
                BY <1>10, NatOrder
            <4>2. Has(log'[j], t, k)
                BY <1>5, <1>10, <3>2, <4>1 DEF Has
            <4> QED
                BY <4>2 DEF KeptAt, Has
        <3>3. \A h \in Server : \A v, x :
                 Acked(S, W, h, v, x)' => Acked(T, W, h, v, x) \/ (h = i /\ v = u /\ x = Len(log'[i]))
            BY <1>8
        <3> QED
            BY <2>1, <3>1, <3>2, <3>3, SMT
    <2> QED
        BY <2>1 DEF KeptInv
<1>18. LeadAt(W, i)
    BY <1>7 DEF LeadInv
<1>19. LeadInv(W)'
    <2>1. \A j \in Server : j # i => LeadAt(W, j)'
        <3> SUFFICES ASSUME NEW j \in Server, j # i PROVE LeadAt(W, j)'
            OBVIOUS
        <3>1. /\ LeadAt(W, j) /\ nextIndex'[j] = nextIndex[j] /\ matchIndex'[j] = matchIndex[j]
              /\ startAppend'[j] = startAppend[j] /\ log'[j] = log[j] /\ tp'[j] = tp[j] /\ currentTerm'[j] = currentTerm[j]
            BY <1>4, <1>6, <1>7, <1>11 DEF LeadInv
        <3> QED
            BY <3>1, LeadFrame
    <2>2. LeadAt(W, i)'
        <3>1. \A j \in Server : nextIndex'[i][j] <= Len(log'[i]) + 1
            <4>1. \A j \in Server : nextIndex[i][j] \in Int /\ nextIndex[i][j] <= Len(log[i]) + 1
                BY <1>18 DEF LeadAt, TypeOK, LeaderTypes
            <4> QED
                BY <1>6, <1>10, <4>1, SMTT(30)
        <3>2. startAppend'[i] /\ matchIndex'[i][i] = Len(log'[i])
            BY <1>4, <1>6, <1>10
        <3>3. Has(log'[i], u, Len(log'[i]))
            BY <1>5, <1>10, SMTT(30) DEF Has
        <3>4. ASSUME NEW j \in Server \ {i}, matchIndex'[i][j] > 0
              PROVE  Has(log'[i], u, matchIndex'[i][j]) /\ <<j, u, matchIndex'[i][j]>> \in W
            <4>1. matchIndex'[i][j] = matchIndex[i][j]
                BY <1>4, <1>6
            <4>2. Has(log[i], u, matchIndex[i][j]) /\ <<j, u, matchIndex[i][j]>> \in W
                BY <1>3, <1>18, <3>4, <4>1 DEF LeadAt
            <4>3. Has(log'[i], u, matchIndex[i][j])
                BY <1>10, <4>2, Longer
            <4> QED
                BY <4>1, <4>2, <4>3
        <3>5. u = currentTerm'[i]
            BY <1>3, <1>6
        <3> QED
            BY <3>1, <3>2, <3>3, <3>4, <3>5 DEF LeadAt, Has
    <2> QED
        BY <2>1, <2>2 DEF LeadInv
<1>20. InstallsInv'
    <2>1. \A j \in Server : tp'[j] = Leader => tp[j] = Leader /\ (startAppend[j] => startAppend'[j])
        BY <1>4, <1>6
    <2>2. \A j \in Server : \A t : Started(j, t) => Started(j, t)'
        BY <1>9, <2>1, StartedFrame
    <2>3. /\ \A j \in Server : \A g \in installs'[j] : Started(j, g.termTemp)
          /\ (\A m \in isReq' : Started(m.from, m.termTemp)) /\ (\A r \in isRep' : Started(r.from, r.termTemp))
        BY <1>6, <1>7 DEF InstallsInv
    <2> QED
        BY <2>2, <2>3, InstallsFrame
<1>21. CommitUpToDate'
    <2>1. ASSUME NEW j \in Server, j # i, startAppend'[j] PROVE MedianMatch(matchIndex'[j]) <= commitIndex'[j]
        <3>1. startAppend[j] /\ matchIndex'[j] = matchIndex[j] /\ commitIndex'[j] = commitIndex[j]
            BY <1>4, <1>6, <2>1
        <3> QED
            BY <1>7, <3>1 DEF CommitUpToDate
    <2>2. (\A j \in Server : matchIndex[i][j] <= matchIndex[i][i]) /\ MedianMatch(matchIndex[i]) <= commitIndex[i]
        <3>1. CASE startAppend[i]
            <4>1. \A j \in Server \ {i} : matchIndex[i][j] > 0 => matchIndex[i][j] <= Len(log[i])
                <5>1. \A j \in Server \ {i} : matchIndex[i][j] > 0 => Has(log[i], currentTerm[i], matchIndex[i][j])
                    BY <1>18 DEF LeadAt
                <5> QED
                    BY <1>10, <5>1, SMTT(30) DEF Has
            <4>3. \A j \in Server : matchIndex[i][j] \in Nat
                BY <1>4
            <4>2. matchIndex[i][i] = Len(log[i]) /\ MedianMatch(matchIndex[i]) <= commitIndex[i]
                BY <1>7, <1>18, <3>1 DEF LeadAt, CommitUpToDate
            <4>4. ASSUME NEW j \in Server PROVE matchIndex[i][j] <= Len(log[i])
                <5>1. matchIndex[i][j] > 0 \/ matchIndex[i][j] <= Len(log[i])
                    BY <1>10, <4>3, NatOrder
                <5>2. Len(log[i]) <= Len(log[i])
                    BY <1>10, NatOrder
                <5> QED
                    BY <4>1, <4>2, <5>1, <5>2
            <4> QED
                BY <4>2, <4>4
        <3>2. CASE ~startAppend[i]
            <4>1. \A j \in Server : matchIndex[i][j] = 0
                BY <1>18, <3>2 DEF LeadAt
            <4>2. matchIndex[i] \in [Server -> Nat]
                BY <1>4
            <4>3. \E j \in Server : MedianMatch(matchIndex[i]) = matchIndex[i][j]
                BY <4>2 DEF MedianFacts
            <4> QED
                BY <1>4, <4>1, <4>3, SMTT(30)
        <3> QED
            BY <3>1, <3>2
    <2>3. MedianMatch(matchIndex'[i]) <= commitIndex'[i]
        <3>1. /\ matchIndex[i] \in [Server -> Nat] /\ matchIndex'[i] \in [Server -> Nat]
              /\ \A j \in Server \ {i} : matchIndex'[i][j] = matchIndex[i][j]
            BY <1>4, <1>6, <1>10, SMTT(30)
        <3>2. MedianMatch(matchIndex'[i]) <= MedianMatch(matchIndex[i])
            BY <2>2, <3>1 DEF MedianFacts
        <3>3. MedianMatch(matchIndex'[i]) \in Nat /\ MedianMatch(matchIndex[i]) \in Nat
            BY <3>1 DEF MedianFacts
        <3>4. commitIndex' = commitIndex /\ commitIndex[i] \in Nat
            BY <1>4, <1>6
        <3> QED
            BY <2>2, <3>2, <3>3, <3>4, NatOrder
    <2> QED
        BY <2>1, <2>3 DEF CommitUpToDate, MedianMatch, N
<1>22. CommitInv(S, W)'
    <2>1. ASSUME NEW j \in Server PROVE CommitAt(S, W, j)'
        <3>1. commitIndex[j] \in Nat /\ commitIndex[j] <= Len(log[j]) /\ commitIndex'[j] = commitIndex[j]
            BY <1>4, <1>6, <1>7 DEF CommitInv, CommitAt, Chosen
        <3> QED
            BY <1>9, <1>12, <3>1, CommitFrame
    <2> QED
        BY <1>15, <2>1 DEF CommitInv
<1> QED
    BY <1>13, <1>14, <1>15, <1>16, <1>17, <1>19, <1>20, <1>21, <1>22 DEF History

-----------------------------------------------------------------------------
(* AppendEntries, the leader's side *)

(* The leader i sends m to j. *)
Sending(i, j, m) ==
    LET next == nextIndex[i][j]
    IN  /\ tp[i] = Leader /\ next > 0 /\ next <= Len(log[i]) + 1
        /\ m.from = i /\ m.to = j /\ m.live = TRUE /\ m.Term = currentTerm[i]
        /\ m.PrevLogIndex = next - 1 + snapshotIndex[i]
        /\ m.PrevLogTerm = IF next = 1 THEN snapshotTerm[i] ELSE log[i][next - 1].Term
        /\ m.Entries = SubSeq(log[i], next, Len(log[i])) /\ m.LeaderCommit = commitIndex[i]

(* The request covers the whole log of its sender. *)
LEMMA SentSlice ==
    ASSUME TypeOK, SnapFree, NEW T, NEW W, History(T, W), NEW i \in Server, NEW j \in Server, NEW m, Sending(i, j, m)
    PROVE  /\ <<m.Term, i>> \in leaders /\ m.Term \in DOMAIN T /\ T[m.Term] = log[i]
           /\ Slice(m, log[i]) /\ m.PrevLogIndex + Len(m.Entries) = Len(log[i])
<1>1. PICK next \in Int : next = nextIndex[i][j]
    BY DEF TypeOK, LeaderTypes
<1>2. log[i] \in Seq(Entry) /\ Len(log[i]) \in Nat /\ commitIndex[i] \in Nat /\ currentTerm[i] \in Nat
    BY LogFacts DEF TypeOK, LogTypes, ServiceTypes, TermTypes
<1>3. /\ m.PrevLogIndex = next - 1 /\ m.Entries = SubSeq(log[i], next, Len(log[i]))
      /\ m.PrevLogIndex > 0 => m.PrevLogTerm = log[i][m.PrevLogIndex].Term
      /\ next \in 1 .. Len(log[i]) + 1
      /\ tp[i] = Leader /\ m.Term = currentTerm[i] /\ m.LeaderCommit = commitIndex[i]
    <2>1. /\ tp[i] = Leader /\ m.Term = currentTerm[i] /\ m.LeaderCommit = commitIndex[i] /\ next > 0
          /\ m.PrevLogIndex = next - 1 + snapshotIndex[i] /\ next <= Len(log[i]) + 1
          /\ m.PrevLogTerm = IF next = 1 THEN snapshotTerm[i] ELSE log[i][next - 1].Term
          /\ m.Entries = SubSeq(log[i], next, Len(log[i]))
        BY <1>1 DEF Sending
    <2>2. snapshotIndex[i] = 0
        BY DEF SnapFree
    <2>3. next - 1 + 0 = next - 1 /\ next \in 1 .. Len(log[i]) + 1 /\ (next - 1 > 0 => next # 1)
        BY <1>1, <1>2, <2>1, SMT
    <2> QED
        BY <2>1, <2>2, <2>3
<1>4. /\ Len(m.Entries) = Len(log[i]) - next + 1
      /\ \A k \in 1 .. Len(m.Entries) : m.Entries[k] = log[i][m.PrevLogIndex + k]
      /\ m.Entries # <<>> => next # Len(log[i]) + 1
    BY <1>2, <1>3, SMTT(30)
<1>5. m.PrevLogIndex + Len(m.Entries) = Len(log[i])
    BY <1>2, <1>3, <1>4, SMTT(30)
<1>6. <<currentTerm[i], i>> \in leaders /\ currentTerm[i] \in DOMAIN T /\ T[currentTerm[i]] = log[i]
    <2>1. <<currentTerm[i], i>> \in leaders
        BY <1>3 DEF History, LedInv
    <2>2. <<currentTerm[i], i>>[1] = currentTerm[i] /\ <<currentTerm[i], i>>[2] = i
        OBVIOUS
    <2> QED
        BY <2>1, <2>2 DEF History, LedInv
<1>7. m.Entries # <<>> => log[i][Len(log[i])].Term = m.Term
    <2>1. LeadAt(W, i)
        BY DEF History, LeadInv
    <2>2. next # Len(log[i]) + 1 => Has(log[i], currentTerm[i], Len(log[i]))
        BY <1>1, <1>3, <2>1 DEF LeadAt
    <2> QED
        BY <1>3, <1>4, <2>2 DEF Has
<1>8. m.LeaderCommit <= Len(log[i])
    BY <1>3 DEF History, CommitInv, CommitAt, Chosen
<1>9. Slice(m, log[i])
    BY <1>2, <1>3, <1>4, <1>5, <1>7, <1>8, SMTT(30) DEF Slice
<1> QED
    BY <1>3, <1>5, <1>6, <1>9

(* sendAppendEntries *)
LEMMA sendAppendEntriesHistory ==
    ASSUME InOrder, TypeOK, TypeOK', SnapFree, ElectionInv, NEW T, NEW W, History(T, W),
           NEW i \in Server, NEW j \in Server, sendAppendEntries(i, j)
    PROVE  History(T, W)'
<1>1. /\ UNCHANGED <<termVars, logVars, leaderVars, voteNet, aeRep, isRep, serviceVars, installs, votes, leaders>>
      /\ i # j /\ tp[i] = Leader /\ nextIndex[i][j] > 0 /\ nextIndex[i][j] <= Len(log[i]) + 1
      /\ isReq' \subseteq isReq
    BY DEF sendAppendEntries
<1>2. PICK m : Sending(i, j, m) /\ \A n \in aeReq' : n = m \/ (n \in aeReq /\ ~(n.from = i /\ n.to = j))
    <2>1. PICK m : m = [from |-> i, to |-> j, live |-> TRUE, Term |-> currentTerm[i],
                PrevLogIndex |-> nextIndex[i][j] - 1 + snapshotIndex[i],
                PrevLogTerm |-> IF nextIndex[i][j] = 1 THEN snapshotTerm[i] ELSE log[i][nextIndex[i][j] - 1].Term,
                Entries |-> SubSeq(log[i], nextIndex[i][j], Len(log[i])), LeaderCommit |-> commitIndex[i]]
        OBVIOUS
    <2>2. aeReq' = (aeReq \ Overtaken(aeReq, i, j)) \cup {m}
        BY <2>1 DEF sendAppendEntries
    <2>3. \A n \in aeReq' : n = m \/ (n \in aeReq /\ ~(n.from = i /\ n.to = j))
        BY <2>2 DEF Overtaken
    <2>4. Sending(i, j, m)
        BY <1>1, <2>1 DEF Sending
    <2> QED
        BY <2>3, <2>4
<1>3. TermsCalm
    BY <1>1, TermsSame
<1>4. UNCHANGED <<log, leaders, nextIndex, matchIndex, startAppend, commitIndex, applied, votes, rvReq, aeRep, isRep>>
    BY <1>1 DEF logVars, leaderVars, voteNet, serviceVars
<1>5. /\ HistTypes(T, W)' /\ LedInv(T)' /\ SoundInv(T)' /\ AcceptInv(T, W)' /\ KeptInv(T, W)'
      /\ WonInv(T, W)' /\ CommitUpToDate' /\ AppliedInv(T, W)' /\ (\A k \in Server : CommitAt(T, W, k)')
      /\ AnswerInv(T, W)' /\ AskInv' /\ VotedInv(T, W)' /\ LeadInv(W)'
    BY <1>3, <1>4, QuietBase
<1>6. InstallsInv'
    <2>1. \A k \in Server : \A t : Started(k, t) => Started(k, t)'
        BY <1>3, <1>4, QuietStarted DEF TermsCalm
    <2>2. /\ \A k \in Server : \A h \in installs'[k] : Started(k, h.termTemp)
          /\ (\A n \in isReq' : Started(n.from, n.termTemp)) /\ (\A r \in isRep' : Started(r.from, r.termTemp))
        BY <1>1, <1>4 DEF History, InstallsInv
    <2> QED
        BY <2>1, <2>2, InstallsFrame
<1>7. Moves(T, W, T, W)
    BY <1>3, <1>4, QuietMoves DEF TermsCalm
<1>8. /\ <<m.Term, i>> \in leaders /\ m.Term \in DOMAIN T /\ T[m.Term] = log[i]
      /\ Slice(m, log[i]) /\ m.PrevLogIndex + Len(m.Entries) = Len(log[i])
    BY <1>2, SentSlice
<1>9. SentAt(T, W, m)'
    <2>1. \A w \in W : w[2] = m.Term => w[3] <= Len(log[i])
        BY <1>8 DEF History, AcceptInv, AcceptAt
    <2>2. tp'[i] = Leader
        BY <1>1 DEF termVars
    <2> QED
        BY <1>1, <1>2, <1>4, <1>8, <2>1, <2>2 DEF SentAt, Slice, Sending
<1>10. CommitSent(T, W, m)'
    <2>1. Chosen(T, W, log[i], commitIndex[i], currentTerm[i])
        BY DEF History, CommitInv, CommitAt
    <2>2. CommitSent(T, W, m)
        BY <1>2, <1>8, <2>1 DEF CommitSent, Sending
    <2> QED
        BY <1>4, <2>2 DEF CommitSent, Chosen, Committed, Acked
<1>11. SentInv(T, W)'
    <2>1. \A n \in aeReq : SentAt(T, W, n)'
        <3>1. \A n \in aeReq : n.from \in Server
            BY DEF TypeOK, AppendNetTypes, AppendRequest
        <3> QED
            BY <1>3, <1>7, <3>1, SentFrame DEF TermsCalm
    <2>2. OneCall'
        <3>1. \A a, b \in aeReq : SameCall(a, b) => a = b
            BY DEF History, SentInv, OneCall
        <3>2. \A a, b \in aeReq' : SameCall(a, b) => a = b
            BY <1>2, <3>1 DEF SameCall, Sending
        <3> QED
            BY <3>2 DEF OneCall, SameCall
    <2>3. \A n \in aeReq' : SentAt(T, W, n)'
        BY <1>2, <1>9, <2>1
    <2> QED
        BY <2>2, <2>3 DEF SentInv
<1>12. CommitInv(T, W)'
    <2>1. \A n \in aeReq : CommitSent(T, W, n)'
        BY <1>7, CommitSentFrame
    <2>2. \A n \in aeReq' : CommitSent(T, W, n)'
        BY <1>2, <1>10, <2>1
    <2> QED
        BY <1>5, <2>2 DEF CommitInv
<1> QED
    BY <1>5, <1>6, <1>11, <1>12 DEF History

-----------------------------------------------------------------------------
(* The replies of AppendEntries *)

(* A reply that is not outdated is for the leader of the term it carries. *)
LEMMA AnswerFacts ==
    ASSUME TypeOK, NEW T, NEW W, History(T, W), NEW r \in aeRep, ~Outdated(r.from, r.termTemp)
    PROVE  LET i == r.from
           IN  /\ i \in Server /\ r.to \in Server /\ i # r.to /\ r.PrevLogIndex \in Nat /\ r.Count \in Nat
               /\ r.Len \in Nat /\ r.TermStart \in Nat /\ r.TermConflict \in Nat
               /\ tp[i] = Leader /\ r.termTemp = currentTerm[i] /\ r.PrevLogIndex + r.Count <= Len(log[i])
               /\ r.Count > 0 => Has(log[i], currentTerm[i], r.PrevLogIndex + r.Count)
               /\ r.Success => <<r.to, currentTerm[i], r.PrevLogIndex + r.Count>> \in W
               /\ r.Miss => r.Len <= r.PrevLogIndex
               /\ r.TermStart <= r.PrevLogIndex
<1>1. PICK i : i = r.from
    OBVIOUS
<1>2. /\ i \in Server /\ r.to \in Server /\ r.termTemp \in Nat /\ r.PrevLogIndex \in Nat /\ r.Count \in Nat
      /\ r.Len \in Nat /\ r.TermStart \in Nat /\ r.TermConflict \in Nat
    BY <1>1 DEF TypeOK, AppendNetTypes, AppendAnswer
<1>3. AnswerAt(T, W, r) /\ LedInv(T)
    BY DEF History, AnswerInv
<1>4. <<r.termTemp, i>> \in leaders /\ i # r.to
    BY <1>1, <1>3 DEF AnswerAt
<1>5. <<r.termTemp, i>>[1] = r.termTemp /\ <<r.termTemp, i>>[2] = i
    OBVIOUS
<1>6. r.termTemp <= currentTerm[i] /\ (r.termTemp = currentTerm[i] => log[i] = T[r.termTemp])
    BY <1>3, <1>4, <1>5 DEF LedInv
<1>7. r.termTemp = currentTerm[i]
    BY <1>1, <1>2, <1>6, SMTT(30) DEF Outdated, TypeOK, TermTypes
<1>8. /\ tp[i] = Leader /\ r.PrevLogIndex + r.Count <= Len(log[i])
      /\ r.Count > 0 => log[i][r.PrevLogIndex + r.Count].Term = currentTerm[i]
      /\ r.Success => <<r.to, currentTerm[i], r.PrevLogIndex + r.Count>> \in W
      /\ r.Miss => r.Len <= r.PrevLogIndex
      /\ r.TermStart <= r.PrevLogIndex
    BY <1>1, <1>3, <1>6, <1>7 DEF AnswerAt
<1>9. log[i] \in Seq(Entry) /\ Len(log[i]) \in Nat
    BY <1>2, LogFacts DEF TypeOK, LogTypes
<1>10. r.Count > 0 => Has(log[i], currentTerm[i], r.PrevLogIndex + r.Count)
    BY <1>2, <1>8, <1>9, NatOrder DEF Has
<1> QED
    BY <1>1, <1>2, <1>4, <1>7, <1>8, <1>10

(* After a rejection nextIndex is not past the end of the log. *)
LEMMA RejectInRange ==
    ASSUME CountingFacts, TypeOK, SnapFree, NEW T, NEW W, History(T, W), NEW r \in aeRep, ~Outdated(r.from, r.termTemp)
    PROVE  NextAfterReject(r.from, r) <= Len(log[r.from]) + 1
<1>1. PICK i \in Server : i = r.from
    BY DEF TypeOK, AppendNetTypes, AppendAnswer
<1>2. /\ r.PrevLogIndex \in Nat /\ r.Count \in Nat /\ r.Len \in Nat /\ r.TermStart \in Nat
      /\ r.PrevLogIndex + r.Count <= Len(log[i])
      /\ r.Miss => r.Len <= r.PrevLogIndex
      /\ r.TermStart <= r.PrevLogIndex
    BY <1>1, AnswerFacts
<1>3. log[i] \in Seq(Entry) /\ Len(log[i]) \in Nat
    BY LogFacts DEF TypeOK, LogTypes
<1>4. findLast(log[i], r.TermConflict, r.PrevLogIndex) <= Len(log[i]) + 1
    <2> DEFINE low == {k \in 0 .. r.PrevLogIndex : TermAt(log[i], k) <= r.TermConflict}
               top == CHOOSE k \in low : \A j \in low : j <= k
    <2>1. findLast(log[i], r.TermConflict, r.PrevLogIndex) =
              IF low = {} THEN 0 ELSE IF TermAt(log[i], top) = r.TermConflict THEN top ELSE -1
        BY DEF findLast
    <2>2. low # {} => top \in low
        <3> SUFFICES ASSUME low # {} PROVE \E k \in low : \A j \in low : j <= k
            OBVIOUS
        <3> DEFINE B == {n \in Nat : \E k \in low : n = r.PrevLogIndex - k}
        <3>1. low \subseteq 0 .. r.PrevLogIndex
            OBVIOUS
        <3> HIDE DEF low
        <3>2. B # {}
            <4>1. PICK k \in low : TRUE
                OBVIOUS
            <4>2. r.PrevLogIndex - k \in B
                BY <1>2, <3>1, SMT
            <4> QED
                BY <4>2
        <3>3. PICK n \in B : \A k \in B : n <= k
            <4> HIDE DEF B
            <4>1. B \in SUBSET Nat
                BY DEF B
            <4> QED
                BY <3>2, <4>1 DEF CountingFacts
        <3>4. PICK k \in low : n = r.PrevLogIndex - k
            OBVIOUS
        <3>5. \A j \in low : r.PrevLogIndex - j \in B
            BY <1>2, <3>1, SMTT(30)
        <3>6. \A j \in low : n <= r.PrevLogIndex - j
            BY <3>3, <3>5
        <3>7. \A j \in low : j <= k
            <4> HIDE DEF B
            <4> QED
                BY <1>2, <3>1, <3>4, <3>6, SMT
        <3> QED
            BY <3>7
    <2>3. low \subseteq 0 .. r.PrevLogIndex
        OBVIOUS
    <2> HIDE DEF low, top
    <2>4. ASSUME low # {} PROVE top \in Nat /\ top <= Len(log[i]) + 1
        <3>1. top \in 0 .. r.PrevLogIndex
            BY <2>2, <2>3, <2>4
        <3>2. r.PrevLogIndex \in Nat /\ r.PrevLogIndex <= Len(log[i])
            BY <1>2, <1>3, SMT
        <3> QED
            BY <1>3, <3>1, <3>2, SMT
    <2>5. 0 <= Len(log[i]) + 1 /\ -1 <= Len(log[i]) + 1
        BY <1>3, SMT
    <2> QED
        BY <2>1, <2>4, <2>5
<1>5. NextAfterReject(i, r) =
          IF r.Miss THEN r.Len - 0
          ELSE IF findLast(log[i], r.TermConflict, r.PrevLogIndex - 0) # -1
               THEN findLast(log[i], r.TermConflict, r.PrevLogIndex - 0) ELSE r.TermStart - 0
    BY DEF NextAfterReject, SnapFree
<1>6. r.PrevLogIndex - 0 = r.PrevLogIndex /\ r.Len - 0 = r.Len /\ r.TermStart - 0 = r.TermStart
    BY <1>2, NatOrder
<1>7. (r.Miss => r.Len <= Len(log[i]) + 1) /\ r.TermStart <= Len(log[i]) + 1
    BY <1>2, <1>3, SMT
<1> QED
    BY <1>1, <1>4, <1>5, <1>6, <1>7

(* The updateCommit that follows a reply with nothing new to count finds   *)
(* nothing to commit.                                                      *)
LEMMA NoCommit ==
    ASSUME MedianFacts, TypeOK, SnapFree, CommitUpToDate, NEW i \in Server, startAppend[i],
           updateCommit(i, matchIndex[i])
    PROVE  UNCHANGED <<commitIndex, applied>>
<1>1. /\ commitIndex \in [Server -> Nat] /\ matchIndex[i] \in [Server -> Nat] /\ commitIndex[i] + 1 \in Nat
      /\ snapshotIndex[i] = 0
    BY SMTT(30) DEF TypeOK, ServiceTypes, LeaderTypes, SnapFree
<1>2. MedianMatch(matchIndex[i]) \in Nat
    BY <1>1 DEF MedianFacts
<1>3. MedianMatch(matchIndex[i]) <= commitIndex[i]
    BY DEF CommitUpToDate
<1>4. ~(MedianMatch(matchIndex[i]) > commitIndex[i]) /\ commitIndex[i] >= snapshotIndex[i]
    BY <1>1, <1>2, <1>3, SMTT(30)
<1>5. /\ commitIndex' = [commitIndex EXCEPT ![i] = commitIndex[i]]
      /\ Apply(i, currentTerm[i], CommandMsgs(log[i], 0, commitIndex[i] + 1, commitIndex[i], 1))
    BY <1>1, <1>4 DEF updateCommit
<1>6. applied' = applied
    <2>1. commitIndex[i] \in Nat /\ commitIndex[i] + 1 > commitIndex[i] /\ 1 \in {1, 2}
        BY <1>1, SMTT(30)
    <2> QED
        BY <1>1, <1>5, <2>1, AppliedNew
<1> QED
    BY <1>1, <1>5, <1>6

(* The bookkeeping p of the leader i, short of its own entry. *)
Counts(W, i, p) ==
    /\ p \in [Server -> Nat] /\ p[i] = matchIndex[i][i]
    /\ \A j \in Server \ {i} : p[j] > 0 => Has(log[i], currentTerm[i], p[j]) /\ <<j, currentTerm[i], p[j]>> \in W

(* The entry at the median is one that the leader made, and a majority has *)
(* acknowledged it.                                                        *)
LEMMA CountedEntry ==
    ASSUME MedianFacts, TypeOK, NEW T, NEW W, History(T, W), NEW i \in Server, tp[i] = Leader, startAppend[i],
           NEW p, Counts(W, i, p), NEW n, n = MedianMatch(p), n > 0
    PROVE  n \in Nat /\ Has(log[i], currentTerm[i], n) /\ Committed(T, W, currentTerm[i], n)
<1>1. PICK u : u = currentTerm[i]
    OBVIOUS
<1>2. /\ p \in [Server -> Nat] /\ p[i] = matchIndex[i][i]
      /\ \A j \in Server \ {i} : p[j] > 0 => Has(log[i], u, p[j]) /\ <<j, u, p[j]>> \in W
    BY <1>1 DEF Counts
<1>3. PICK j0 \in Server : n = p[j0]
    BY <1>2 DEF MedianFacts
<1>4. PICK Q \in Majorities : \A j \in Q : n <= p[j]
    BY <1>2 DEF MedianFacts
<1>5. LeadAt(W, i) /\ LedInv(T)
    BY DEF History, LeadInv
<1>6. Has(log[i], u, Len(log[i])) /\ p[i] = Len(log[i])
    BY <1>1, <1>2, <1>5 DEF LeadAt
<1>7. n \in Nat /\ Has(log[i], u, n)
    BY <1>2, <1>3, <1>6
<1>8. <<u, i>> \in leaders /\ u \in DOMAIN T /\ T[u] = log[i]
    <2>1. <<u, i>> \in leaders
        BY <1>1, <1>5 DEF LedInv
    <2>2. <<u, i>>[1] = u /\ <<u, i>>[2] = i
        OBVIOUS
    <2> QED
        BY <1>1, <1>5, <2>1, <2>2 DEF LedInv
<1>9. ASSUME NEW j \in Q PROVE Acked(T, W, j, u, n)
    <2>1. j \in Server /\ n <= p[j] /\ p[j] > 0
        BY <1>2, <1>4, <1>7, SMTT(30) DEF Majorities
    <2>2. CASE j = i
        BY <1>7, <1>8, <2>2 DEF Acked
    <2>3. CASE j # i
        <3>1. <<j, u, p[j]>> \in W
            BY <1>2, <2>1, <2>3
        <3>2. <<j, u, p[j]>>[1] = j /\ <<j, u, p[j]>>[2] = u /\ <<j, u, p[j]>>[3] = p[j]
            OBVIOUS
        <3> QED
            BY <1>7, <1>8, <2>1, <3>1, <3>2 DEF Acked
    <2> QED
        BY <2>2, <2>3
<1>10. Committed(T, W, u, n)
    BY <1>9 DEF Committed
<1> QED
    BY <1>1, <1>7, <1>10

(* The bookkeeping after a reply that reports success. *)
LEMMA MatchedCounts ==
    ASSUME TypeOK, NEW T, NEW W, History(T, W), NEW r \in aeRep, ~Outdated(r.from, r.termTemp),
           r.Success, r.Count > 0
    PROVE  Counts(W, r.from, Matched(r.from, r))
<1>1. PICK i \in Server : i = r.from
    BY DEF TypeOK, AppendNetTypes, AppendAnswer
<1>2. PICK end : end = r.PrevLogIndex + r.Count
    OBVIOUS
<1>3. /\ tp[i] = Leader /\ r.to \in Server /\ i # r.to /\ end \in Nat
      /\ Has(log[i], currentTerm[i], end) /\ <<r.to, currentTerm[i], end>> \in W
    <2>1. /\ tp[i] = Leader /\ r.to \in Server /\ i # r.to /\ r.PrevLogIndex \in Nat /\ r.Count \in Nat
          /\ Has(log[i], currentTerm[i], r.PrevLogIndex + r.Count)
          /\ <<r.to, currentTerm[i], r.PrevLogIndex + r.Count>> \in W
        BY <1>1, AnswerFacts
    <2> QED
        BY <1>2, <2>1, SMTT(30)
<1>4. PICK x : x = IF end > matchIndex[i][r.to] THEN end ELSE matchIndex[i][r.to]
    OBVIOUS
<1>5. matchIndex[i] \in [Server -> Nat] /\ x \in {end, matchIndex[i][r.to]} /\ x \in Nat
    BY <1>3, <1>4 DEF TypeOK, LeaderTypes
<1>6. Matched(i, r) = [matchIndex[i] EXCEPT ![r.to] = x]
    BY <1>2, <1>4 DEF Matched
<1>7. \A j \in Server \ {i} : matchIndex[i][j] > 0 =>
          Has(log[i], currentTerm[i], matchIndex[i][j]) /\ <<j, currentTerm[i], matchIndex[i][j]>> \in W
    BY <1>3 DEF History, LeadInv, LeadAt
<1>8. ASSUME NEW j \in Server \ {i}, Matched(i, r)[j] > 0
      PROVE  Has(log[i], currentTerm[i], Matched(i, r)[j]) /\ <<j, currentTerm[i], Matched(i, r)[j]>> \in W
    <2>1. CASE j = r.to /\ x = end
        BY <1>3, <1>5, <1>6, <2>1
    <2>2. CASE Matched(i, r)[j] = matchIndex[i][j]
        BY <1>7, <1>8, <2>2
    <2> QED
        BY <1>3, <1>5, <1>6, <2>1, <2>2
<1>9. Matched(i, r) \in [Server -> Nat] /\ Matched(i, r)[i] = matchIndex[i][i]
    BY <1>3, <1>5, <1>6
<1> QED
    BY <1>1, <1>8, <1>9 DEF Counts

(* A reply that reports success is counted. *)
CountReply(r) ==
    LET i == r.from
    IN  /\ startAppend[i] /\ ~Outdated(i, r.termTemp) /\ r.Success /\ Current(i, r) /\ r.Count > 0
        /\ matchIndex' = [matchIndex EXCEPT ![i] = Matched(i, r)]
        /\ nextIndex' = [nextIndex EXCEPT ![i][r.to] = @ + r.Count]
        /\ updateCommit(i, matchIndex'[i])
        /\ UNCHANGED <<termVars, logVars, startAppend>>

(* A reply that is counted keeps the invariant. *)
LEMMA CountReplyHistory ==
    ASSUME MedianFacts, TypeOK, TypeOK', SnapFree, ElectionInv, NEW T, NEW W, History(T, W), NEW r \in aeRep,
           CountReply(r), aeRep' \subseteq aeRep, UNCHANGED <<installs, voteNet, aeReq, isReq, isRep, votes, leaders>>
    PROVE  History(T, W)'
<1>1. PICK i \in Server : i = r.from
    BY DEF TypeOK, AppendNetTypes, AppendAnswer
<1>2. PICK p : p = Matched(i, r)
    OBVIOUS
<1>3. PICK n : n = MedianMatch(p)
    OBVIOUS
<1>4. PICK new : new = IF n > commitIndex[i] THEN n ELSE commitIndex[i]
    OBVIOUS
<1>5. /\ startAppend[i] /\ ~Outdated(i, r.termTemp) /\ r.Success /\ Current(i, r) /\ r.Count > 0
      /\ UNCHANGED <<termVars, log, startAppend>>
      /\ matchIndex' = [matchIndex EXCEPT ![i] = p] /\ updateCommit(i, matchIndex'[i])
      /\ nextIndex' = [nextIndex EXCEPT ![i] = [nextIndex[i] EXCEPT ![r.to] = nextIndex[i][r.to] + r.Count]]
    <2>1. /\ startAppend[i] /\ ~Outdated(i, r.termTemp) /\ r.Success /\ Current(i, r) /\ r.Count > 0
          /\ UNCHANGED <<termVars, logVars, startAppend>>
          /\ matchIndex' = [matchIndex EXCEPT ![i] = p] /\ updateCommit(i, matchIndex'[i])
        BY <1>1, <1>2 DEF CountReply
    <2>2. nextIndex' = [nextIndex EXCEPT ![i][r.to] = @ + r.Count]
        BY <1>1 DEF CountReply
    <2> QED
        BY <2>1, <2>2 DEF logVars
<1>6. /\ commitIndex \in [Server -> Nat] /\ matchIndex \in [Server -> [Server -> Nat]] /\ commitIndex[i] + 1 \in Nat
      /\ nextIndex \in [Server -> [Server -> Int]]
      /\ log[i] \in Seq(Entry) /\ Len(log[i]) \in Nat /\ snapshotIndex[i] = 0 /\ currentTerm[i] \in Nat
    BY LogFacts, SMTT(30) DEF TypeOK, TermTypes, LogTypes, LeaderTypes, ServiceTypes, SnapFree
<1>7. Counts(W, i, p) /\ p \in [Server -> Nat]
    BY <1>1, <1>2, <1>5, MatchedCounts DEF Counts
<1>8. tp[i] = Leader /\ r.to \in Server /\ r.PrevLogIndex + r.Count <= Len(log[i]) /\ r.PrevLogIndex \in Nat /\ r.Count \in Nat
    BY <1>1, <1>5, AnswerFacts
<1>9. n \in Nat /\ new \in Nat /\ n <= new
    <2>1. \E j \in Server : n = p[j]
        BY <1>3, <1>7 DEF MedianFacts
    <2>2. n \in Nat
        BY <1>7, <2>1
    <2> QED
        BY <1>4, <1>6, <2>2, SMTT(30)
<1>10. /\ commitIndex' = [commitIndex EXCEPT ![i] = new]
       /\ Apply(i, currentTerm[i], CommandMsgs(log[i], 0, commitIndex[i] + 1, new, 1))
    <2>1. commitIndex[i] >= snapshotIndex[i] /\ matchIndex'[i] = p
        BY <1>5, <1>6, SMTT(30)
    <2> QED
        BY <1>3, <1>4, <1>5, <1>6, <2>1 DEF updateCommit
<1>11. n > commitIndex[i] => Has(log[i], currentTerm[i], n) /\ Committed(T, W, currentTerm[i], n)
    <2>1. n > commitIndex[i] => n > 0
        BY <1>6, <1>9, SMTT(30)
    <2> QED
        BY <1>3, <1>5, <1>7, <1>8, <2>1, CountedEntry
<1>12. TermsCalm
    BY <1>5, TermsSame
<1>13. UNCHANGED <<log, leaders, rvReq, votes, currentTerm, tp, startAppend, aeReq, isReq, isRep, installs>>
    BY <1>5 DEF voteNet, termVars
<1>14. Moves(T, W, T, W)
    BY <1>12, <1>13, QuietMoves DEF TermsCalm
<1>15. LedInv(T)' /\ SoundInv(T)' /\ AcceptInv(T, W)' /\ KeptInv(T, W)'
    BY <1>12, <1>13, <1>14, QuietLogs DEF TermsCalm
<1>16. /\ HistTypes(T, W)' /\ AskInv' /\ VotedInv(T, W)' /\ WonInv(T, W)' /\ AnswerInv(T, W)' /\ SentInv(T, W)'
       /\ \A m \in aeReq' : CommitSent(T, W, m)'
    BY <1>12, <1>13, <1>14, Frames DEF TermsCalm
<1>17. <<currentTerm[i], i>> \in leaders /\ currentTerm[i] \in DOMAIN T /\ T[currentTerm[i]] = log[i]
    <2>1. LedInv(T) /\ <<currentTerm[i], i>> \in leaders
        BY <1>8 DEF History, LedInv
    <2>2. <<currentTerm[i], i>>[1] = currentTerm[i] /\ <<currentTerm[i], i>>[2] = i
        OBVIOUS
    <2> QED
        BY <2>1, <2>2 DEF LedInv
<1>18. LeadInv(W)'
    <2>1. \A j \in Server : LeadAt(W, j)
        BY DEF History, LeadInv
    <2>2. \A j \in Server : j # i => LeadAt(W, j)'
        <3> SUFFICES ASSUME NEW j \in Server, j # i PROVE LeadAt(W, j)'
            OBVIOUS
        <3>1. nextIndex'[j] = nextIndex[j] /\ matchIndex'[j] = matchIndex[j]
            BY <1>5, <1>6
        <3> QED
            BY <1>13, <2>1, <3>1, LeadFrame
    <2>3. LeadAt(W, i)'
        <3>1. \A j \in Server : nextIndex'[i][j] <= Len(log[i]) + 1
            <4>1. \A j \in Server : nextIndex[i][j] \in Int /\ nextIndex[i][j] <= Len(log[i]) + 1
                <5>1. \A j \in Server : nextIndex[i][j] <= Len(log[i]) + 1
                    BY <1>8, <2>1 DEF LeadAt
                <5> QED
                    BY <1>6, <5>1
            <4>2. nextIndex[i][r.to] = r.PrevLogIndex + 1
                BY <1>5, <1>6, <1>8, SMTT(30) DEF Current
            <4> QED
                <5>1. \A j \in Server : nextIndex'[i][j] = IF j = r.to THEN nextIndex[i][j] + r.Count ELSE nextIndex[i][j]
                    BY <1>5, <1>6, <1>8
                <5>2. nextIndex[i][r.to] + r.Count <= Len(log[i]) + 1
                    <6>1. Len(log[i]) \in Nat
                        BY <1>6
                    <6> QED
                        BY <1>8, <4>2, <6>1, SMTT(30)
                <5> QED
                    BY <4>1, <5>1, <5>2
        <3>2. matchIndex'[i] = p
            BY <1>5, <1>6
        <3>3. Has(log[i], currentTerm[i], Len(log[i])) /\ p[i] = Len(log[i])
            BY <1>5, <1>7, <1>8, <2>1 DEF LeadAt, Counts
        <3>4. \A j \in Server \ {i} : p[j] > 0 => Has(log[i], currentTerm[i], p[j]) /\ <<j, currentTerm[i], p[j]>> \in W
            BY <1>7 DEF Counts
        <3> QED
            BY <1>5, <1>13, <3>1, <3>2, <3>3, <3>4 DEF LeadAt, Has
    <2> QED
        BY <2>2, <2>3 DEF LeadInv
<1>19. InstallsInv'
    <2>1. \A k \in Server : \A t : Started(k, t) => Started(k, t)'
        BY <1>12, <1>13, QuietStarted DEF TermsCalm
    <2>2. /\ \A k \in Server : \A h \in installs'[k] : Started(k, h.termTemp)
          /\ (\A m \in isReq' : Started(m.from, m.termTemp)) /\ (\A q \in isRep' : Started(q.from, q.termTemp))
        BY <1>13 DEF History, InstallsInv
    <2> QED
        BY <2>1, <2>2, InstallsFrame
<1>20. CommitUpToDate'
    <2>1. ASSUME NEW j \in Server, startAppend'[j] PROVE MedianMatch(matchIndex'[j]) <= commitIndex'[j]
        <3>1. CASE j = i
            <4>1. matchIndex'[j] = p /\ commitIndex'[j] = new
                BY <1>5, <1>6, <1>10, <3>1
            <4> QED
                BY <1>3, <1>9, <4>1
        <3>2. CASE j # i
            <4>1. startAppend[j] /\ matchIndex'[j] = matchIndex[j] /\ commitIndex'[j] = commitIndex[j]
                BY <1>5, <1>6, <1>10, <2>1, <3>2
            <4> QED
                BY <4>1 DEF History, CommitUpToDate
        <3> QED
            BY <3>1, <3>2
    <2> QED
        BY <2>1 DEF CommitUpToDate, MedianMatch, N
<1>21. \A j \in Server : CommitAt(T, W, j)'
    <2>1. \A j \in Server : commitIndex'[j] = commitIndex[j] => CommitAt(T, W, j)'
        BY <1>13, <1>14, QuietCommit
    <2>2. CASE n > commitIndex[i]
        <3>1. commitIndex'[i] = n /\ \A j \in Server : j # i => commitIndex'[j] = commitIndex[j]
            BY <1>4, <1>6, <1>10, <2>2
        <3>2. Has(log[i], currentTerm[i], n) /\ Committed(T, W, currentTerm[i], n) /\ n \in 1 .. Len(log[i])
            BY <1>11, <2>2 DEF Has
        <3>3. Agree(log[i], log[i], n) /\ n <= Len(log[i]) /\ n <= n
            BY <1>6, <1>9, <3>2, AgreeSame, SMTT(30)
        <3>4. Chosen(T, W, log[i], n, currentTerm[i])
            <4>1. currentTerm[i] <= currentTerm[i]
                BY <1>6, SMTT(30)
            <4> QED
                BY <1>17, <3>2, <3>3, <4>1 DEF Chosen
        <3>5. Chosen(T, W, log[i], n, currentTerm[i])'
            BY <1>13, <3>4 DEF Chosen, Committed, Acked
        <3>6. CommitAt(T, W, i)'
            BY <1>13, <1>17, <3>1, <3>5 DEF CommitAt, Chosen, Committed, Acked
        <3> QED
            BY <2>1, <3>1, <3>6
    <2>3. CASE ~(n > commitIndex[i])
        <3>1. \A j \in Server : commitIndex'[j] = commitIndex[j]
            BY <1>4, <1>6, <1>10, <2>3
        <3> QED
            BY <2>1, <3>1
    <2> QED
        BY <2>2, <2>3
<1>22. AppliedInv(T, W)'
    <2>1. \A a \in applied : AppliedAt(T, W, a)'
        BY <1>14, AppliedFrame
    <2>2. ASSUME NEW a \in applied', a \notin applied PROVE AppliedAt(T, W, a)'
        <3>1. PICK x \in commitIndex[i] + 1 .. new : a = <<x, log[i][x], currentTerm[i]>>
            <4>1. 1 \in {1, 2}
                OBVIOUS
            <4>2. PICK lo \in Nat : lo = commitIndex[i] + 1
                BY <1>6
            <4>3. new \in Nat /\ Apply(i, currentTerm[i], CommandMsgs(log[i], 0, lo, new, 1))
                BY <1>9, <1>10, <4>2
            <4>4. AppliesTo(log[i], lo, new, currentTerm[i])
                BY <4>1, <4>3, AppliedNew
            <4> QED
                BY <2>2, <4>2, <4>4 DEF AppliesTo
        <3>2. new = n /\ n > commitIndex[i] /\ x \in 1 .. n
            <4>1. PICK ci \in Nat : ci = commitIndex[i]
                BY <1>6
            <4> QED
                BY <1>4, <1>9, <3>1, <4>1, SMT
        <3>3. Has(log[i], currentTerm[i], n) /\ Committed(T, W, currentTerm[i], n) /\ n \in 1 .. Len(log[i])
            BY <1>11, <3>2 DEF Has
        <3>4. a[1] = x /\ a[2] = log[i][x] /\ a[3] = currentTerm[i] /\ currentTerm[i] <= currentTerm[i]
            BY <1>6, <3>1, NatOrder
        <3>5. AppliedAt(T, W, a)
            BY <1>17, <3>2, <3>3, <3>4 DEF AppliedAt
        <3> QED
            BY <1>13, <3>5 DEF AppliedAt, Committed, Acked
    <2> QED
        BY <2>1, <2>2 DEF AppliedInv
<1>23. CommitInv(T, W)'
    BY <1>16, <1>21 DEF CommitInv
<1> QED
    BY <1>15, <1>16, <1>18, <1>19, <1>20, <1>22, <1>23 DEF History

(* AppendReply *)
LEMMA AppendReplyHistory ==
    ASSUME CountingFacts, MedianFacts, TypeOK, TypeOK', SnapFree, ElectionInv, NEW T, NEW W, History(T, W),
           NEW r \in aeRep, AppendReply(r)
    PROVE  History(T, W)'
<1>1. PICK i \in Server : i = r.from
    BY DEF TypeOK, AppendNetTypes, AppendAnswer
<1>2. aeRep' \subseteq aeRep /\ UNCHANGED <<electVars, installs, voteNet, aeReq, isReq, isRep, votes, leaders>>
    BY DEF AppendReply
<1>3. CommitUpToDate
    BY DEF History
<1>4. ASSUME TermsCalm, UNCHANGED <<log, leaderVars, commitIndex, applied>>
      PROVE  History(T, W)'
    <2>1. /\ UNCHANGED <<log, leaders, leaderVars, commitIndex, applied, votes>>
          /\ rvReq' \subseteq rvReq /\ aeReq' \subseteq aeReq /\ isReq' \subseteq isReq /\ isRep' \subseteq isRep
          /\ \A j \in Server : installs'[j] \subseteq installs[j]
        BY <1>2, <1>4 DEF voteNet
    <2> QED
        BY <1>2, <1>4, <2>1, QuietStep
<1>5. CASE UNCHANGED <<termVars, logVars, leaderVars, diskVars, serviceVars>>
    BY <1>4, <1>5, TermsSame DEF logVars, serviceVars
<1>6. CASE /\ startAppend[i] /\ r.Term > currentTerm[i] /\ StepDown(i, r.Term)
           /\ updateCommit(i, matchIndex[i]) /\ UNCHANGED leaderVars
    <2>1. UNCHANGED <<commitIndex, applied>>
        BY <1>3, <1>6, NoCommit
    <2>2. r.Term \in Nat /\ termUpdate(i, r.Term) /\ UNCHANGED log
        BY <1>6 DEF StepDown, logVars, TypeOK, AppendNetTypes, AppendAnswer
    <2> QED
        BY <1>4, <1>6, <2>1, <2>2, TermsUp
<1>7. CASE /\ startAppend[i] /\ ~Outdated(i, r.termTemp)
           /\ nextIndex' = [nextIndex EXCEPT ![i][r.to] = NextAfterReject(i, r)]
           /\ updateCommit(i, matchIndex[i])
           /\ UNCHANGED <<termVars, logVars, matchIndex, startAppend, diskVars>>
    <2>1. UNCHANGED <<commitIndex, applied>>
        BY <1>3, <1>7, NoCommit
    <2>2. TermsCalm
        BY <1>7, TermsSame
    <2>3. UNCHANGED <<log, currentTerm, tp, leaders, matchIndex, startAppend, commitIndex, applied, votes, rvReq, aeReq, isReq, isRep, installs>>
        BY <1>2, <1>7, <2>1 DEF logVars, termVars, voteNet
    <2>4. /\ HistTypes(T, W)' /\ LedInv(T)' /\ SoundInv(T)' /\ AcceptInv(T, W)' /\ KeptInv(T, W)'
          /\ WonInv(T, W)' /\ CommitUpToDate' /\ AppliedInv(T, W)' /\ SentInv(T, W)' /\ CommitInv(T, W)'
          /\ AnswerInv(T, W)' /\ AskInv' /\ VotedInv(T, W)'
        BY <1>2, <2>2, <2>3, QuietBase
    <2>5. LeadInv(W)'
        <3> SUFFICES ASSUME NEW j \in Server PROVE LeadAt(W, j)'
            BY DEF LeadInv
        <3>1. LeadAt(W, j)
            BY DEF History, LeadInv
        <3>2. CASE j # i
            <4>1. nextIndex'[j] = nextIndex[j]
                BY <1>7, <3>2 DEF TypeOK, LeaderTypes
            <4> QED
                BY <2>3, <3>1, <4>1, LeadFrame
        <3>3. CASE j = i
            <4>1. NextAfterReject(i, r) <= Len(log[i]) + 1
                BY <1>1, <1>7, RejectInRange
            <4>2. tp[i] = Leader => \A k \in Server : nextIndex'[i][k] <= Len(log[i]) + 1
                BY <1>7, <3>1, <3>3, <4>1 DEF LeadAt, TypeOK, LeaderTypes
            <4> QED
                BY <1>7, <2>3, <3>1, <3>3, <4>2 DEF LeadAt, Has
        <3> QED
            BY <3>2, <3>3
    <2>6. InstallsInv'
        <3>1. \A k \in Server : \A t : Started(k, t) => Started(k, t)'
            BY <2>2, <2>3, QuietStarted DEF TermsCalm
        <3>2. /\ \A k \in Server : \A h \in installs'[k] : Started(k, h.termTemp)
              /\ (\A m \in isReq' : Started(m.from, m.termTemp)) /\ (\A q \in isRep' : Started(q.from, q.termTemp))
            BY <2>3 DEF History, InstallsInv
        <3> QED
            BY <3>1, <3>2, InstallsFrame
    <2> QED
        BY <2>4, <2>5, <2>6 DEF History
<1>8. CASE CountReply(r)
    BY <1>2, <1>8, CountReplyHistory
<1>9. CASE startAppend[i] /\ updateCommit(i, matchIndex[i]) /\ UNCHANGED <<termVars, logVars, leaderVars, diskVars>>
    BY <1>3, <1>4, <1>9, NoCommit, TermsSame DEF logVars
<1> QED
    BY <1>1, <1>5, <1>6, <1>7, <1>8, <1>9 DEF AppendReply, CountReply, Counting

(* A leader commits entries of its own term only. *)
LEMMA CountedOwnTerm ==
    ASSUME MedianFacts, TypeOK, SnapFree, NEW T, NEW W, History(T, W), NEW r \in aeRep, AppendReply(r),
           NEW j \in Server, tp[j] = Leader, commitIndex'[j] > commitIndex[j]
    PROVE  EntryAt(j, commitIndex'[j]).Term = currentTerm[j]
<1>1. PICK i \in Server : i = r.from
    BY DEF TypeOK, AppendNetTypes, AppendAnswer
<1>2. CommitUpToDate
    BY DEF History
<1>3. commitIndex' # commitIndex
    BY SMT DEF TypeOK, ServiceTypes
<1>4. CASE startAppend[i] /\ updateCommit(i, matchIndex[i])
    BY <1>2, <1>3, <1>4, NoCommit
<1>5. CASE CountReply(r)
    <2>1. PICK p : p = Matched(i, r)
        OBVIOUS
    <2>2. PICK n : n = MedianMatch(p)
        OBVIOUS
    <2>3. /\ startAppend[i] /\ ~Outdated(i, r.termTemp) /\ r.Success /\ r.Count > 0
          /\ matchIndex' = [matchIndex EXCEPT ![i] = p] /\ updateCommit(i, matchIndex'[i])
        BY <1>1, <1>5, <2>1 DEF CountReply
    <2>4. matchIndex'[i] = p /\ commitIndex \in [Server -> Nat]
        BY <2>3 DEF TypeOK, LeaderTypes, ServiceTypes
    <2>5. commitIndex' = [commitIndex EXCEPT ![i] = IF n > commitIndex[i] THEN n ELSE commitIndex[i]]
        <3>1. updateCommit(i, p)
            BY <2>3, <2>4
        <3> QED
            BY <2>2, <3>1 DEF updateCommit
    <2>6. Counts(W, i, p)
        BY <1>1, <2>1, <2>3, MatchedCounts
    <2>7. n \in Nat
        BY <2>2, <2>6 DEF Counts, MedianFacts
    <2>8. j = i /\ commitIndex'[i] = n /\ n > 0
        BY <2>4, <2>5, <2>7, SMTT(30)
    <2>9. n \in Nat /\ Has(log[i], currentTerm[i], n)
        BY <2>2, <2>3, <2>6, <2>8, CountedEntry
    <2>10. EntryAt(i, n) = log[i][n]
        BY <2>9, PlainLog, SMTT(30)
    <2> QED
        BY <2>8, <2>9, <2>10 DEF Has
<1> QED
    BY <1>1, <1>3, <1>4, <1>5 DEF AppendReply, CountReply, Counting, serviceVars
=============================================================================
