-------------------------- MODULE MapReduceProofs --------------------------
(***************************************************************************)
(* The MapReduce job for every number of tasks, workers and crashes: a     *)
(* reduce task reads only complete files (FilesReady), and a job that is   *)
(* done has all of its output (JobComplete).                               *)
(*                                                                         *)
(* The argument: ids are never given out twice, so that no worker writes   *)
(* to the files of another, dead or alive; the files of a map task that is *)
(* done are those of the worker that reported it first, which has finished *)
(* with them; and the search for a task stays in the ring it starts in, so *)
(* that reduce tasks are handed out only when no map task is left.         *)
(***************************************************************************)
EXTENDS MapReduce, FiniteSetTheorems, WellFoundedInduction, TLAPS

(* A leaf is left to Zenon unless it names another prover. *)
USE ZenonT(60)

-----------------------------------------------------------------------------
(* The invariant *)

(* The record of a worker, and the contents of a complete output file. *)
WorkerRec ==
    [st : {"calling", "map", "filling", "reduce", "reducing", "writing", "gone"},
     Cat : {NoTask, MapCat, ReduceCat}, TaskId : MapTask \cup ReduceTask,
     Finished : BOOLEAN, WorkerId : WorkerId, piece : ReduceTask,
     FileNames : [MapTask -> WorkerId], pairs : SUBSET MapTask]
Full == [st |-> "full", of |-> MapTask]

(* Links lead from nodes of one kind to nodes of that kind. *)
Kind(x) == x[1]
KeepsKind(links) == links \in [TaskNode -> TaskNode] /\ \A x \in TaskNode : Kind(links[x]) = Kind(x)
RingKinds ==
    /\ KeepsKind(next) /\ KeepsKind(prev)
    /\ MapFinished > 0 => Kind(MapPointer) = MapCat
    /\ Kind(ReducePointer) = ReduceCat

(* No two processes have the same id, and there are enough of them. *)
Unnamed == {p \in Proc : worker[p].WorkerId = 0 /\ worker[p].st # "gone"}
Distinct == \A p, q \in Proc : p # q /\ worker[p].WorkerId # 0 => worker[p].WorkerId # worker[q].WorkerId
IdsInv ==
    /\ \A p \in Proc : worker[p].WorkerId <= workers
    /\ Distinct
    /\ workers + Cardinality(Unnamed) <= Cardinality(Proc) + crashes

Open(S, done) == {t \in S : ~done[t]}
CountInv ==
    /\ MapFinished = Cardinality(Open(MapTask, MapStatus))
    /\ ReduceFinished = Cardinality(Open(ReduceTask, ReduceStatus))

(* A worker that maps has filled the files before the one it is at, and    *)
(* they are not those that the reduce tasks will read.                     *)
Maps(w) ==
    w.st \in {"map", "filling"} =>
        /\ w.Cat = MapCat /\ w.TaskId \in MapTask /\ w.WorkerId # 0
        /\ \A r \in ReduceTask : r < w.piece => inter[w.TaskId][r][w.WorkerId] = "full"
        /\ MapStatus[w.TaskId] => ReduceTasks[w.TaskId] # w.WorkerId

(* A worker that reduces does so after the last map task. *)
Reduces(w) ==
    w.st \in {"reduce", "reducing", "writing"} =>
        /\ w.Cat = ReduceCat /\ w.TaskId \in ReduceTask /\ w.WorkerId # 0
        /\ \A t \in MapTask : MapStatus[t]
        /\ IF w.st = "reduce" THEN w.FileNames = ReduceTasks ELSE w.pairs = MapTask

(* A worker reports files that are complete. *)
Reports(w) ==
    w.st = "calling" /\ w.Finished =>
        /\ w.WorkerId # 0
        /\ w.Cat = MapCat => w.TaskId \in MapTask /\ \A r \in ReduceTask : inter[w.TaskId][r][w.WorkerId] = "full"
        /\ w.Cat = ReduceCat => w.TaskId \in ReduceTask /\ out[w.TaskId][w.WorkerId] = Full

WorkAt(p) == Maps(worker[p]) /\ Reduces(worker[p]) /\ Reports(worker[p])
WorkInv == \A p \in Proc : WorkAt(p)

(* What the tasks that are done have left. *)
DoneInv ==
    /\ \A t \in MapTask : MapStatus[t] =>
          ReduceTasks[t] \in 1 .. workers /\ \A r \in ReduceTask : inter[t][r][ReduceTasks[t]] = "full"
    /\ \A r \in ReduceTask : ReduceStatus[r] => result[r] = Full

(* The inductive invariant of the job. *)
JobInv == TypeOK /\ RingKinds /\ IdsInv /\ CountInv /\ WorkInv /\ DoneInv

-----------------------------------------------------------------------------
(* Data *)

(* The tasks and the processes are finitely many. *)
LEMMA Finite ==
    /\ IsFiniteSet(MapTask) /\ IsFiniteSet(ReduceTask) /\ IsFiniteSet(Proc)
    /\ Cardinality(MapTask) = NMap /\ Cardinality(ReduceTask) = NReduce /\ Cardinality(Proc) \in Nat
<1>1. 0 \in Int /\ NMap - 1 \in Int /\ NReduce - 1 \in Int
    BY JobAssumption, SMT
<1>2. /\ IsFiniteSet(0 .. NMap - 1) /\ Cardinality(0 .. NMap - 1) = IF 0 > NMap - 1 THEN 0 ELSE (NMap - 1) - 0 + 1
      /\ IsFiniteSet(0 .. NReduce - 1)
      /\ Cardinality(0 .. NReduce - 1) = IF 0 > NReduce - 1 THEN 0 ELSE (NReduce - 1) - 0 + 1
    BY <1>1, FS_Interval
<1>3. Cardinality(0 .. NMap - 1) = NMap /\ Cardinality(0 .. NReduce - 1) = NReduce
    BY <1>2, JobAssumption, SMT
<1>4. IsFiniteSet(Proc) /\ Cardinality(Proc) \in Nat
    BY JobAssumption, FS_CardinalityType
<1> QED
    BY <1>2, <1>3, <1>4 DEF MapTask, ReduceTask

(* How many tasks are open: none when all are done, one less when another  *)
(* one is done.                                                            *)
LEMMA OpenCount ==
    ASSUME NEW S, IsFiniteSet(S), NEW done \in [S -> BOOLEAN]
    PROVE  /\ Cardinality(Open(S, done)) \in Nat
           /\ Cardinality(Open(S, done)) <= Cardinality(S)
           /\ Cardinality(Open(S, done)) = 0 <=> \A t \in S : done[t]
           /\ \A t \in S : ~done[t] =>
                 Cardinality(Open(S, [done EXCEPT ![t] = TRUE])) = Cardinality(Open(S, done)) - 1
<1>1. IsFiniteSet(Open(S, done)) /\ Cardinality(Open(S, done)) <= Cardinality(S)
    BY FS_Subset DEF Open
<1>2. Cardinality(Open(S, done)) \in Nat /\ (Cardinality(Open(S, done)) = 0 <=> Open(S, done) = {})
    BY <1>1, FS_CardinalityType, FS_EmptySet
<1>3. ASSUME NEW t \in S, ~done[t]
      PROVE  Cardinality(Open(S, [done EXCEPT ![t] = TRUE])) = Cardinality(Open(S, done)) - 1
    <2>1. t \in Open(S, done) /\ Open(S, [done EXCEPT ![t] = TRUE]) = Open(S, done) \ {t}
        BY <1>3, SMT DEF Open
    <2> QED
        BY <1>1, <2>1, FS_RemoveElement
<1> QED
    BY <1>1, <1>2, <1>3 DEF Open

(* A nonempty set of naturals has a least element. *)
LEMMA LeastNat ==
    ASSUME NEW B \in SUBSET Nat, B # {}
    PROVE  \E m \in B : \A k \in B : ~(k < m)
<1>1. PICK m \in B : \A k \in B : ~(<<k, m>> \in OpToRel(<, Nat))
    BY NatLessThanWellFounded, WFMin
<1>2. \A k \in B : k < m => <<k, m>> \in OpToRel(<, Nat)
    BY DEF OpToRel
<1> QED
    BY <1>1, <1>2

-----------------------------------------------------------------------------
(* The search *)

(* The recursive function of Search exists. *)
LEMMA SearchUnfold ==
    ASSUME NEW start, NEW ms, NEW rs, MaxWalk \in Nat
    PROVE  \E f : /\ f = [n \in 0 .. MaxWalk |-> IF n = 0 THEN {[next |-> next, prev |-> prev, at |-> start]}
                                             ELSE {Advance(w, ms, rs) : w \in f[n - 1]}]
                  /\ Search(start, ms, rs) = f[MaxWalk]
<1> DEFINE A == {[next |-> next, prev |-> prev, at |-> start]}
           Step(X) == {Advance(w, ms, rs) : w \in X}
           Rec(f, n) == f = [k \in 0 .. n |-> IF k = 0 THEN A ELSE Step(f[k - 1])]
           F == CHOOSE f : Rec(f, MaxWalk)
<1>1. Search(start, ms, rs) = F[MaxWalk]
    BY DEF Search
<1> HIDE DEF A, Step
<1>2. \A n \in Nat : \E f : Rec(f, n)
    <2> DEFINE B == {n \in Nat : ~\E f : Rec(f, n)}
    <2>1. SUFFICES ASSUME B # {} PROVE FALSE
        OBVIOUS
    <2>2. PICK m \in B : \A k \in B : ~(k < m)
        BY <2>1, LeastNat
    <2>3. m \in Nat /\ \A k \in Nat : k < m => \E f : Rec(f, k)
        BY <2>2
    <2>4. CASE m = 0
        <3>1. Rec([k \in 0 .. 0 |-> A], 0)
            BY SMT
        <3> QED
            BY <3>1, <2>4, <2>2
    <2>5. CASE m > 0
        <3>1. m - 1 \in Nat /\ m - 1 < m
            BY <2>3, <2>5, SMT
        <3>2. PICK f : Rec(f, m - 1)
            BY <3>1, <2>3
        <3> DEFINE g == [k \in 0 .. m |-> IF k = m THEN Step(f[m - 1]) ELSE f[k]]
        <3>3. Rec(g, m)
            BY <2>3, <2>5, <3>2, SMT
        <3> QED
            BY <3>3, <2>2
    <2> QED
        BY <2>3, <2>4, <2>5, SMT
<1>3. Rec(F, MaxWalk)
    BY <1>2
<1> QED
    BY <1>1, <1>3 DEF A, Step

(* A search that began at a node of kind c. *)
Searcher(w, c) == KeepsKind(w.next) /\ KeepsKind(w.prev) /\ w.at \in TaskNode /\ Kind(w.at) = c

(* A link to a node of the same kind. *)
LEMMA LinkKeeps ==
    ASSUME NEW f, KeepsKind(f), NEW a \in TaskNode, NEW b \in TaskNode, Kind(a) = Kind(b)
    PROVE  KeepsKind([f EXCEPT ![a] = b])
<1> DEFINE g == [f EXCEPT ![a] = b]
<1>1. f \in [TaskNode -> TaskNode]
    BY DEF KeepsKind
<1>2. g \in [TaskNode -> TaskNode] /\ \A x \in TaskNode : g[x] = IF x = a THEN b ELSE f[x]
    BY <1>1, SMT
<1> QED
    BY <1>2 DEF KeepsKind

(* Going on to the next node stays in the ring. *)
LEMMA AdvanceKeeps ==
    ASSUME NEW w, NEW c, Searcher(w, c), NEW ms, NEW rs
    PROVE  Searcher(Advance(w, ms, rs), c)
<1> DEFINE r == [next |-> w.next, prev |-> w.prev]
           d == DeleteNode(r, w.at)
<1>1. w.next \in [TaskNode -> TaskNode] /\ w.prev \in [TaskNode -> TaskNode]
    BY DEF Searcher, KeepsKind
<1>2. KeepsKind(d.next) /\ KeepsKind(d.prev)
    <2>1. /\ d.next = [w.next EXCEPT ![w.prev[w.at]] = w.next[w.at]]
          /\ d.prev = [w.prev EXCEPT ![w.next[w.at]] = w.prev[w.at]]
        BY SMT DEF DeleteNode
    <2>2. w.at \in TaskNode /\ w.next[w.at] \in TaskNode /\ w.prev[w.at] \in TaskNode
        BY <1>1, SMT DEF Searcher
    <2>3. Kind(w.next[w.at]) = Kind(w.prev[w.at])
        BY DEF Searcher, KeepsKind
    <2>4. /\ KeepsKind([w.next EXCEPT ![w.prev[w.at]] = w.next[w.at]])
          /\ KeepsKind([w.prev EXCEPT ![w.next[w.at]] = w.prev[w.at]])
        BY <2>2, <2>3, LinkKeeps DEF Searcher
    <2> HIDE DEF d
    <2> QED
        BY <2>1, <2>4
<1>3. CASE Found(w, ms, rs)
    BY <1>3 DEF Advance
<1>4. CASE ~Found(w, ms, rs) /\ IsHead(w.at)
    <2>1. Advance(w, ms, rs) = [next |-> w.next, prev |-> w.prev, at |-> w.next[w.at]]
        BY <1>4, SMT DEF Advance
    <2> QED
        BY <1>1, <2>1, SMT DEF Searcher, KeepsKind
<1>5. CASE ~Found(w, ms, rs) /\ ~IsHead(w.at)
    <2>1. Advance(w, ms, rs) = [next |-> d.next, prev |-> d.prev, at |-> d.next[w.at]]
        BY <1>5, SMT DEF Advance
    <2> HIDE DEF d
    <2>2. Advance(w, ms, rs).next = d.next /\ Advance(w, ms, rs).prev = d.prev /\ Advance(w, ms, rs).at = d.next[w.at]
        BY <2>1, SMT
    <2>3. w.at \in TaskNode /\ Kind(w.at) = c
        BY DEF Searcher
    <2>4. d.next[w.at] \in TaskNode /\ Kind(d.next[w.at]) = c
        BY <1>2, <2>3 DEF KeepsKind
    <2> QED
        BY <1>2, <2>2, <2>4 DEF Searcher
<1> QED
    BY <1>3, <1>4, <1>5

(* So does the whole search. *)
LEMMA SearchKeeps ==
    ASSUME KeepsKind(next), KeepsKind(prev), NEW start \in TaskNode, NEW ms, NEW rs, MaxWalk \in Nat,
           NEW s \in Search(start, ms, rs)
    PROVE  Searcher(s, Kind(start))
<1> DEFINE c == Kind(start)
           first == [next |-> next, prev |-> prev, at |-> start]
<1>1. PICK f : /\ f = [n \in 0 .. MaxWalk |-> IF n = 0 THEN {first} ELSE {Advance(w, ms, rs) : w \in f[n - 1]}]
               /\ Search(start, ms, rs) = f[MaxWalk]
    BY SearchUnfold, SMT
<1>2. Searcher(first, c)
    BY SMT DEF Searcher
<1> HIDE DEF c, first
<1>3. \A n \in 0 .. MaxWalk : \A w \in f[n] : Searcher(w, c)
    <2> DEFINE B == {n \in 0 .. MaxWalk : ~\A w \in f[n] : Searcher(w, c)}
    <2>1. SUFFICES ASSUME B # {} PROVE FALSE
        OBVIOUS
    <2>2. B \subseteq Nat
        BY SMT
    <2>3. PICK m \in B : \A k \in B : ~(k < m)
        BY <2>1, <2>2, LeastNat
    <2>4. m \in 0 .. MaxWalk /\ ~\A w \in f[m] : Searcher(w, c)
        OBVIOUS
    <2>5. CASE m = 0
        <3>1. f[m] = {first}
            BY <1>1, <2>4, <2>5, SMT
        <3> QED
            BY <1>2, <2>4, <3>1
    <2>6. CASE m # 0
        <3>1. m - 1 \in 0 .. MaxWalk /\ m - 1 < m
            BY <2>4, <2>6, SMT
        <3>2. \A w \in f[m - 1] : Searcher(w, c)
            BY <2>3, <3>1
        <3>3. f[m] = {Advance(w, ms, rs) : w \in f[m - 1]}
            BY <1>1, <2>4, <2>6
        <3>4. ASSUME NEW v \in f[m] PROVE Searcher(v, c)
            <4>1. PICK w \in f[m - 1] : v = Advance(w, ms, rs)
                BY <3>3
            <4> QED
                BY <3>2, <4>1, AdvanceKeeps
        <3> QED
            BY <2>4, <3>4
    <2> QED
        BY <2>5, <2>6
<1>4. MaxWalk \in 0 .. MaxWalk
    BY SMT
<1> QED
    BY <1>1, <1>3, <1>4 DEF c

-----------------------------------------------------------------------------
(* The invariant begins *)

(* What JobAssumption says of the numbers. *)
LEMMA Numbers ==
    /\ NMap \in Nat /\ NMap > 0 /\ NReduce \in Nat /\ NReduce > 0 /\ MaxCrashes \in Nat
    /\ MaxWalk \in Nat /\ 0 \in MapTask /\ 0 \in ReduceTask /\ 0 \in WorkerId
    /\ \A n : n \in WorkerId <=> n \in Nat /\ n <= Cardinality(Proc) + MaxCrashes
<1>1. NMap \in Nat /\ NMap > 0 /\ NReduce \in Nat /\ NReduce > 0 /\ MaxCrashes \in Nat
    BY JobAssumption, SMT
<1>2. IsFiniteSet(TaskNode)
    <2> DEFINE M == MapTask \cup {-1}
               R == ReduceTask \cup {-1}
    <2>1. IsFiniteSet({-1}) /\ IsFiniteSet({MapCat}) /\ IsFiniteSet({ReduceCat})
        BY FS_Singleton
    <2>2. IsFiniteSet(M) /\ IsFiniteSet(R)
        BY <2>1, Finite, FS_Union
    <2>3. IsFiniteSet({MapCat} \X M) /\ IsFiniteSet({ReduceCat} \X R)
        BY <2>1, <2>2, FS_Product
    <2> QED
        BY <2>3, FS_Union DEF TaskNode
<1>3. MaxWalk \in Nat
    <2>1. Cardinality(TaskNode) \in Nat
        BY <1>2, FS_CardinalityType
    <2> QED
        BY <2>1, SMT DEF MaxWalk
<1>4. Cardinality(Proc) \in Nat
    BY Finite
<1> QED
    BY <1>1, <1>3, <1>4, SMT DEF MapTask, ReduceTask, WorkerId

(* The nodes of the tasks, and the two heads. *)
LEMMA Nodes ==
    ASSUME NEW x
    PROVE  x \in TaskNode <=>
               \/ x[1] = MapCat /\ x[2] \in MapTask \cup {-1} /\ x = <<x[1], x[2]>>
               \/ x[1] = ReduceCat /\ x[2] \in ReduceTask \cup {-1} /\ x = <<x[1], x[2]>>
BY SMT DEF TaskNode

(* A node that is not a head has a task of its kind. *)
LEMMA TaskOf ==
    ASSUME NEW x \in TaskNode, ~IsHead(x)
    PROVE  /\ Kind(x) \in {MapCat, ReduceCat}
           /\ Kind(x) = MapCat => x[2] \in MapTask
           /\ Kind(x) = ReduceCat => x[2] \in ReduceTask
BY Nodes, SMT DEF IsHead, MapHead, ReduceHead, Kind, MapCat, ReduceCat

(* The rings that MakeMaster builds. *)
LEMMA InitRings ==
    /\ MapHead \in TaskNode /\ ReduceHead \in TaskNode
    /\ \A x \in TaskNode : NextOf(x) \in TaskNode /\ Kind(NextOf(x)) = Kind(x)
    /\ \A x \in TaskNode : \E y \in TaskNode : NextOf(y) = x
<1>1. MapHead \in TaskNode /\ ReduceHead \in TaskNode
    BY SMT DEF TaskNode, MapHead, ReduceHead
<1>2. ASSUME NEW x \in TaskNode PROVE NextOf(x) \in TaskNode /\ Kind(NextOf(x)) = Kind(x)
    BY Numbers, SMT DEF TaskNode, NextOf, Kind, MapTask, ReduceTask, MapCat, ReduceCat
<1>3. ASSUME NEW x \in TaskNode PROVE \E y \in TaskNode : NextOf(y) = x
    <2> DEFINE n == IF x[1] = MapCat THEN NMap ELSE NReduce
               y == <<x[1], IF x[2] = -1 THEN n - 1 ELSE x[2] - 1>>
    <2>1. y \in TaskNode
        BY Numbers, SMT DEF TaskNode, MapTask, ReduceTask, MapCat, ReduceCat
    <2>2. NextOf(y) = x
        BY Numbers, SMT DEF TaskNode, NextOf, MapTask, ReduceTask, MapCat, ReduceCat
    <2> QED
        BY <2>1, <2>2
<1> QED
    BY <1>1, <1>2, <1>3

(* MakeMaster and the first workers satisfy the invariant. *)
LEMMA JobInit == Init => JobInv
<1> SUFFICES ASSUME Init PROVE JobInv
    OBVIOUS
<1>1. next \in [TaskNode -> TaskNode] /\ \A x \in TaskNode : next[x] = NextOf(x)
    BY InitRings DEF Init
<1>2. prev \in [TaskNode -> TaskNode] /\ \A x \in TaskNode : NextOf(prev[x]) = x
    BY InitRings DEF Init
<1>3. KeepsKind(next) /\ KeepsKind(prev)
    BY <1>1, <1>2, InitRings DEF KeepsKind
<1>4. /\ MapPointer \in TaskNode /\ Kind(MapPointer) = MapCat
      /\ ReducePointer \in TaskNode /\ Kind(ReducePointer) = ReduceCat
    <2>1. Kind(MapHead) = MapCat /\ Kind(ReduceHead) = ReduceCat
        BY SMT DEF Kind, MapHead, ReduceHead
    <2> QED
        BY <2>1, InitRings DEF Init
<1>5. Fresh \in WorkerRec
    BY Numbers, SMT DEF Fresh, WorkerRec
<1>6. /\ NoFile \in File
      /\ MapStatus \in [MapTask -> BOOLEAN] /\ ReduceStatus \in [ReduceTask -> BOOLEAN]
    BY SMT DEF NoFile, File, Written, Init
<1>7. TypeOK
    <2>1. /\ MapFinished \in 0 .. NMap /\ ReduceFinished \in 0 .. NReduce /\ workers \in WorkerId
          /\ crashes \in 0 .. MaxCrashes /\ up \in BOOLEAN /\ given \in [TaskNode -> Nat]
          /\ ReduceTasks \in [MapTask -> WorkerId]
        BY Numbers, SMT DEF Init
    <2>2. worker \in [Proc -> WorkerRec]
        BY <1>5 DEF Init
    <2>3. /\ inter \in [MapTask -> [ReduceTask -> [WorkerId -> Written]]]
          /\ out \in [ReduceTask -> [WorkerId -> File]] /\ result \in [ReduceTask -> File]
        BY <1>6 DEF Init, Written
    <2> QED
        BY <1>1, <1>2, <1>4, <1>6, <2>1, <2>2, <2>3 DEF TypeOK, WorkerRec
<1>8. \A p \in Proc : worker[p] = Fresh
    BY DEF Init
<1>9. Fresh.WorkerId = 0 /\ Fresh.st = "calling" /\ Fresh.Finished = FALSE
    BY SMT DEF Fresh
<1>10. IdsInv
    <2>1. Unnamed = Proc
        BY <1>8, <1>9, SMT DEF Unnamed
    <2> QED
        BY <1>8, <1>9, <2>1, Finite, SMT DEF Init, IdsInv, Distinct
<1>11. CountInv
    <2>1. Open(MapTask, MapStatus) = MapTask /\ Open(ReduceTask, ReduceStatus) = ReduceTask
        BY SMT DEF Init, Open
    <2> QED
        BY <2>1, Finite DEF CountInv, Init
<1>12. WorkInv
    BY <1>8, <1>9, SMT DEF WorkInv, WorkAt, Maps, Reduces, Reports
<1>13. DoneInv
    BY SMT DEF Init, DoneInv
<1> QED
    BY <1>3, <1>4, <1>7, <1>10, <1>11, <1>12, <1>13 DEF JobInv, RingKinds

-----------------------------------------------------------------------------
(* Steps of one worker outside the master *)

(* Types, in the forms the steps use. *)
LEMMA Types ==
    ASSUME TypeOK
    PROVE  /\ MapStatus \in [MapTask -> BOOLEAN] /\ ReduceStatus \in [ReduceTask -> BOOLEAN]
           /\ MapFinished \in Nat /\ ReduceFinished \in Nat /\ workers \in Nat /\ crashes \in Nat
           /\ crashes <= MaxCrashes /\ ReduceTasks \in [MapTask -> WorkerId]
           /\ worker \in [Proc -> WorkerRec]
           /\ inter \in [MapTask -> [ReduceTask -> [WorkerId -> Written]]]
           /\ out \in [ReduceTask -> [WorkerId -> File]] /\ result \in [ReduceTask -> File]
<1>1. crashes \in 0 .. MaxCrashes /\ MapFinished \in 0 .. NMap /\ ReduceFinished \in 0 .. NReduce
      /\ workers \in WorkerId
    BY DEF TypeOK
<1>2. crashes \in Nat /\ crashes <= MaxCrashes /\ MapFinished \in Nat /\ ReduceFinished \in Nat /\ workers \in Nat
    BY <1>1, Numbers, SMT
<1> QED
    BY <1>2 DEF TypeOK, WorkerRec

(* The fields of a worker. *)
LEMMA Fields ==
    ASSUME NEW w \in WorkerRec
    PROVE  /\ w.WorkerId \in WorkerId /\ w.WorkerId \in Nat /\ w.piece \in ReduceTask /\ w.piece \in Nat
           /\ w.piece < NReduce /\ w.Finished \in BOOLEAN /\ w.pairs \subseteq MapTask
           /\ w.FileNames \in [MapTask -> WorkerId] /\ w.Cat \in {NoTask, MapCat, ReduceCat}
BY Numbers, SMT DEF WorkerRec, WorkerId, ReduceTask

(* Worker p goes on; its id and that it is there stay. *)
Continues(p, w) ==
    /\ worker' = [worker EXCEPT ![p] = w] /\ w \in WorkerRec
    /\ w.WorkerId = worker[p].WorkerId /\ (w.st = "gone" <=> worker[p].st = "gone")
    /\ UNCHANGED <<masterVars, up, crashes>>

(* What such a step leaves alone. *)
LEMMA ContinueKeeps ==
    ASSUME JobInv, NEW p \in Proc, NEW w, Continues(p, w),
           inter' \in [MapTask -> [ReduceTask -> [WorkerId -> Written]]], out' \in [ReduceTask -> [WorkerId -> File]]
    PROVE  /\ TypeOK' /\ RingKinds' /\ IdsInv' /\ CountInv'
           /\ worker'[p] = w /\ \A q \in Proc \ {p} : worker'[q] = worker[q]
           /\ worker[p].WorkerId # 0 => \A q \in Proc \ {p} : worker'[q].WorkerId # w.WorkerId
<1>1. worker \in [Proc -> WorkerRec] /\ w \in WorkerRec /\ TypeOK
    BY Types DEF JobInv, Continues
<1>2. worker' \in [Proc -> WorkerRec] /\ worker'[p] = w /\ \A q \in Proc \ {p} : worker'[q] = worker[q]
    BY <1>1 DEF Continues
<1>3. TypeOK'
    BY <1>1, <1>2 DEF TypeOK, WorkerRec, Continues, masterVars, statusVars, ringVars
<1>4. RingKinds' /\ CountInv'
    BY DEF JobInv, RingKinds, CountInv, KeepsKind, Continues, masterVars, statusVars, ringVars
<1>5. \A q \in Proc : worker'[q].WorkerId = worker[q].WorkerId /\ (worker'[q].st = "gone" <=> worker[q].st = "gone")
    BY <1>2 DEF Continues
<1>6. IdsInv'
    <2>1. Unnamed' = Unnamed
        BY <1>5 DEF Unnamed
    <2>2. workers' = workers /\ crashes' = crashes
        BY DEF Continues, masterVars
    <2> QED
        BY <1>5, <2>1, <2>2 DEF JobInv, IdsInv, Distinct
<1>7. worker[p].WorkerId # 0 => \A q \in Proc \ {p} : worker'[q].WorkerId # w.WorkerId
    BY <1>2, <1>5 DEF JobInv, IdsInv, Distinct
<1> QED
    BY <1>2, <1>3, <1>4, <1>6, <1>7

(* Only files of the worker with that id change. *)
Elsewhere(id) ==
    \A t \in MapTask, r \in ReduceTask, w \in WorkerId :
        w # id => inter'[t][r][w] = inter[t][r][w] /\ out'[r][w] = out[r][w]

(* So the others do not notice. *)
LEMMA OthersKeep ==
    ASSUME JobInv, NEW p \in Proc, NEW w, Continues(p, w), Elsewhere(w.WorkerId), w.WorkerId # 0,
           NEW q \in Proc, q # p
    PROVE  WorkAt(q)'
<1>1. worker'[q] = worker[q] /\ worker[q] \in WorkerRec /\ worker[q].WorkerId \in WorkerId
    BY Types, Fields DEF JobInv, Continues
<1>2. worker[q].WorkerId # w.WorkerId
    BY DEF JobInv, IdsInv, Distinct, Continues
<1>3. UNCHANGED <<MapStatus, ReduceTasks>>
    BY DEF Continues, masterVars, statusVars
<1>4. WorkAt(q)
    BY DEF JobInv, WorkInv
<1>5. PICK v : v = worker[q]
    OBVIOUS
<1>6. /\ \A t \in MapTask, r \in ReduceTask : inter'[t][r][v.WorkerId] = inter[t][r][v.WorkerId]
      /\ \A r \in ReduceTask : out'[r][v.WorkerId] = out[r][v.WorkerId]
    BY <1>5, <1>1, <1>2, Numbers DEF Elsewhere
<1>7. Maps(v) /\ Reduces(v) /\ Reports(v)
    BY <1>5, <1>4 DEF WorkAt
<1>8. Maps(v)'
    BY <1>3, <1>6, <1>7 DEF Maps
<1>9. Reduces(v)'
    BY <1>3, <1>7 DEF Reduces
<1>10. Reports(v)'
    BY <1>6, <1>7 DEF Reports
<1> QED
    BY <1>5, <1>1, <1>8, <1>9, <1>10 DEF WorkAt

(* A function with one value replaced. *)
LEMMA Replaced ==
    ASSUME NEW S, NEW R, NEW f \in [S -> R], NEW a \in S, NEW b \in R
    PROVE  /\ [f EXCEPT ![a] = b] \in [S -> R] /\ [f EXCEPT ![a] = b][a] = b
           /\ \A x \in S : x # a => [f EXCEPT ![a] = b][x] = f[x]
BY SMT

(* A file of a map task is written. *)
WritesInter(t, r, id, v) == inter' = [inter EXCEPT ![t][r][id] = v]
LEMMA InterWritten ==
    ASSUME TypeOK, NEW t \in MapTask, NEW r \in ReduceTask, NEW id \in WorkerId, NEW v \in Written,
           WritesInter(t, r, id, v)
    PROVE  /\ inter' \in [MapTask -> [ReduceTask -> [WorkerId -> Written]]]
           /\ inter'[t][r][id] = v
           /\ \A u \in MapTask, s \in ReduceTask, w \in WorkerId :
                 u # t \/ s # r \/ w # id => inter'[u][s][w] = inter[u][s][w]
<1> DEFINE Files == [WorkerId -> Written]
           f == inter[t][r]
           g == inter[t]
           f1 == [f EXCEPT ![id] = v]
           g1 == [g EXCEPT ![r] = f1]
<1>1. inter \in [MapTask -> [ReduceTask -> Files]] /\ g \in [ReduceTask -> Files] /\ f \in Files
    BY DEF TypeOK
<1>2. inter' = [inter EXCEPT ![t] = g1]
    BY DEF WritesInter
<1>3. f1 \in Files /\ f1[id] = v /\ \A w \in WorkerId : w # id => f1[w] = f[w]
    BY <1>1, Replaced
<1> HIDE DEF f1, Files
<1>4. g1 \in [ReduceTask -> Files] /\ g1[r] = f1 /\ \A s \in ReduceTask : s # r => g1[s] = g[s]
    BY <1>1, <1>3, Replaced
<1> HIDE DEF g1
<1>5. /\ inter' \in [MapTask -> [ReduceTask -> Files]] /\ inter'[t] = g1
      /\ \A u \in MapTask : u # t => inter'[u] = inter[u]
    BY <1>1, <1>2, <1>4, Replaced
<1>6. ASSUME NEW u \in MapTask, NEW s \in ReduceTask, NEW w \in WorkerId, u # t \/ s # r \/ w # id
      PROVE  inter'[u][s][w] = inter[u][s][w]
    <2>1. CASE u # t
        BY <1>5, <2>1
    <2>2. CASE u = t /\ s # r
        BY <1>4, <1>5, <2>2
    <2>3. CASE u = t /\ s = r /\ w # id
        BY <1>3, <1>4, <1>5, <2>3
    <2> QED
        BY <1>6, <2>1, <2>2, <2>3
<1>7. inter'[t][r][id] = v
    BY <1>3, <1>4, <1>5
<1> QED
    BY <1>5, <1>6, <1>7 DEF Files

(* What a worker that writes a file of its map task leaves alone. *)
LEMMA MapFrame ==
    ASSUME JobInv, NEW p \in Proc, NEW w, Continues(p, w), worker[p].st \in {"map", "filling"},
           NEW v \in Written, WritesInter(worker[p].TaskId, worker[p].piece, worker[p].WorkerId, v), out' = out
    PROVE  /\ TypeOK' /\ RingKinds' /\ IdsInv' /\ CountInv' /\ DoneInv' /\ worker'[p] = w
           /\ \A q \in Proc : q # p => WorkAt(q)'
           /\ MapStatus' = MapStatus /\ ReduceTasks' = ReduceTasks
           /\ \A r \in ReduceTask : r < worker[p].piece =>
                 inter'[worker[p].TaskId][r][worker[p].WorkerId] = "full"
           /\ inter'[worker[p].TaskId][worker[p].piece][worker[p].WorkerId] = v
<1> DEFINE a == worker[p]
<1>1. TypeOK /\ a \in WorkerRec /\ WorkAt(p) /\ DoneInv
    BY Types DEF JobInv, WorkInv
<1>2. PICK t, piece, id : t = a.TaskId /\ piece = a.piece /\ id = a.WorkerId
    OBVIOUS
<1>3. /\ t \in MapTask /\ id # 0 /\ (MapStatus[t] => ReduceTasks[t] # id)
      /\ \A r \in ReduceTask : r < piece => inter[t][r][id] = "full"
    BY <1>1, <1>2 DEF WorkAt, Maps
<1>4. piece \in ReduceTask /\ id \in WorkerId /\ piece \in Nat
    BY <1>1, <1>2, Fields
<1>5. WritesInter(t, piece, id, v)
    BY <1>2
<1>6. /\ inter' \in [MapTask -> [ReduceTask -> [WorkerId -> Written]]] /\ inter'[t][piece][id] = v
      /\ \A u \in MapTask, s \in ReduceTask, x \in WorkerId :
            u # t \/ s # piece \/ x # id => inter'[u][s][x] = inter[u][s][x]
    <2>1. TypeOK /\ t \in MapTask /\ piece \in ReduceTask /\ id \in WorkerId /\ v \in Written
        BY <1>1, <1>3, <1>4
    <2> QED
        BY <1>5, <2>1, InterWritten, SMT
<1>7. out' \in [ReduceTask -> [WorkerId -> File]]
    BY <1>1, Types
<1>8. /\ TypeOK' /\ RingKinds' /\ IdsInv' /\ CountInv' /\ worker'[p] = w
    BY <1>6, <1>7, ContinueKeeps
<1>9. w.WorkerId = id /\ UNCHANGED <<MapStatus, ReduceTasks, ReduceStatus, result, workers>>
    BY <1>2 DEF Continues, masterVars, statusVars
<1>10. \A q \in Proc : q # p => WorkAt(q)'
    <2>1. Elsewhere(w.WorkerId) /\ w.WorkerId # 0
        BY <1>3, <1>6, <1>9 DEF Elsewhere
    <2> QED
        BY <2>1, OthersKeep
<1>11. \A r \in ReduceTask : r < piece => inter'[t][r][id] = "full"
    BY <1>3, <1>4, <1>6, SMT
<1>12. DoneInv'
    <2>1. \A u \in MapTask : ReduceTasks[u] \in WorkerId
        BY <1>1, Types
    <2>2. ASSUME NEW u \in MapTask, MapStatus[u], NEW r \in ReduceTask
          PROVE  inter'[u][r][ReduceTasks[u]] = "full"
        <3>1. u # t \/ ReduceTasks[u] # id
            BY <1>3, <2>2
        <3>2. inter[u][r][ReduceTasks[u]] = "full"
            BY <1>1, <2>2 DEF DoneInv
        <3> QED
            BY <1>6, <2>1, <2>2, <3>1, <3>2
    <2> QED
        BY <1>1, <1>9, <2>2 DEF DoneInv
<1> QED
    BY <1>2, <1>6, <1>8, <1>9, <1>10, <1>11, <1>12

LEMMA CreateInterInv ==
    ASSUME JobInv, NEW p \in Proc, CreateInter(p)
    PROVE  JobInv'
<1> DEFINE a == worker[p]
<1>1. PICK w : w = [a EXCEPT !.st = "filling"]
    OBVIOUS
<1>2. a \in WorkerRec /\ a.st = "map" /\ Maps(a)
    BY Types DEF JobInv, WorkInv, WorkAt, CreateInter
<1>3. /\ w \in WorkerRec /\ w.st = "filling" /\ w.WorkerId = a.WorkerId /\ w.TaskId = a.TaskId
      /\ w.piece = a.piece /\ w.Cat = a.Cat
    BY <1>1, <1>2, SMT DEF WorkerRec
<1>4. Continues(p, w)
    BY <1>1, <1>2, <1>3 DEF CreateInter, Continues
<1>5. "part" \in Written /\ WritesInter(a.TaskId, a.piece, a.WorkerId, "part") /\ out' = out
    BY DEF CreateInter, InterId, WritesInter, Written
<1>6. /\ TypeOK' /\ RingKinds' /\ IdsInv' /\ CountInv' /\ DoneInv' /\ worker'[p] = w
      /\ \A q \in Proc : q # p => WorkAt(q)'
      /\ MapStatus' = MapStatus /\ ReduceTasks' = ReduceTasks
      /\ \A r \in ReduceTask : r < a.piece => inter'[a.TaskId][r][a.WorkerId] = "full"
    BY <1>2, <1>4, <1>5, MapFrame
<1>7. Maps(w)'
    BY <1>2, <1>3, <1>6 DEF Maps
<1>8. Reduces(w)' /\ Reports(w)'
    BY <1>3, SMT DEF Reduces, Reports
<1>9. WorkAt(p)'
    BY <1>6, <1>7, <1>8 DEF WorkAt, Maps, Reduces, Reports
<1> QED
    BY <1>6, <1>9 DEF JobInv, WorkInv

(* A worker that has filled a file. *)
LEMMA Filled ==
    ASSUME NEW a \in WorkerRec, NEW last \in BOOLEAN, NEW w, w = AfterFill(a, last), ~last => a.piece + 1 \in ReduceTask
    PROVE  /\ w \in WorkerRec /\ w.st = (IF last THEN "calling" ELSE "map") /\ w.WorkerId = a.WorkerId
           /\ w.TaskId = a.TaskId /\ w.Cat = a.Cat /\ w.Finished = last /\ w.piece = IF last THEN 0 ELSE a.piece + 1
<1>1. PICK st, piece : st = (IF last THEN "calling" ELSE "map") /\ piece = IF last THEN 0 ELSE a.piece + 1
    OBVIOUS
<1>2. PICK v : v = [a EXCEPT !.st = st]
    OBVIOUS
<1>3. /\ v \in WorkerRec /\ v.st = st /\ v.WorkerId = a.WorkerId /\ v.TaskId = a.TaskId /\ v.Cat = a.Cat
      /\ v.piece = a.piece
    BY <1>1, <1>2, SMT DEF WorkerRec
<1>4. PICK u : u = [v EXCEPT !.Finished = last]
    OBVIOUS
<1>5. /\ u \in WorkerRec /\ u.st = st /\ u.WorkerId = a.WorkerId /\ u.TaskId = a.TaskId /\ u.Cat = a.Cat
      /\ u.Finished = last /\ u.piece = a.piece
    BY <1>3, <1>4, SMT DEF WorkerRec
<1>6. w = [u EXCEPT !.piece = piece]
    BY <1>1, <1>2, <1>3, <1>4, SMT DEF AfterFill
<1>7. piece \in ReduceTask
    BY <1>1, Numbers
<1>8. /\ w \in WorkerRec /\ w.st = st /\ w.WorkerId = a.WorkerId /\ w.TaskId = a.TaskId /\ w.Cat = a.Cat
      /\ w.Finished = last /\ w.piece = piece
    BY <1>5, <1>6, <1>7, SMT DEF WorkerRec
<1> QED
    BY <1>1, <1>8

LEMMA FillInterInv ==
    ASSUME JobInv, NEW p \in Proc, FillInter(p)
    PROVE  JobInv'
<1> DEFINE a == worker[p]
           last == a.piece = NReduce - 1
<1>1. PICK w : w = AfterFill(a, last)
    OBVIOUS
<1>2. a \in WorkerRec /\ a.st = "filling" /\ Maps(a)
    BY Types DEF JobInv, WorkInv, WorkAt, FillInter
<1>3. /\ w \in WorkerRec /\ w.st = (IF last THEN "calling" ELSE "map") /\ w.WorkerId = a.WorkerId
      /\ w.TaskId = a.TaskId /\ w.Cat = a.Cat /\ w.Finished = last /\ w.piece = IF last THEN 0 ELSE a.piece + 1
    <2>1. ~last => a.piece + 1 \in ReduceTask
        BY <1>2, Fields, Numbers, SMT DEF ReduceTask
    <2>2. last \in BOOLEAN
        OBVIOUS
    <2> HIDE DEF last
    <2> QED
        BY <1>1, <1>2, <2>1, <2>2, Filled, SMT
<1>4. Continues(p, w)
    <2>1. worker' = [worker EXCEPT ![p] = w]
        BY <1>1 DEF FillInter
    <2>2. w.st # "gone"
        BY <1>3, SMT
    <2> QED
        BY <1>2, <1>3, <2>1, <2>2 DEF FillInter, Continues
<1>5. "full" \in Written /\ WritesInter(a.TaskId, a.piece, a.WorkerId, "full") /\ out' = out
    BY DEF FillInter, InterId, WritesInter, Written
<1>6. /\ TypeOK' /\ RingKinds' /\ IdsInv' /\ CountInv' /\ DoneInv' /\ worker'[p] = w
      /\ \A q \in Proc : q # p => WorkAt(q)'
      /\ MapStatus' = MapStatus /\ ReduceTasks' = ReduceTasks
      /\ \A r \in ReduceTask : r < a.piece => inter'[a.TaskId][r][a.WorkerId] = "full"
      /\ inter'[a.TaskId][a.piece][a.WorkerId] = "full"
    BY <1>2, <1>4, <1>5, MapFrame
<1>7. a.piece \in Nat /\ a.piece < NReduce /\ \A r \in ReduceTask : r \in Nat /\ r < NReduce
    BY <1>2, Fields, Numbers, SMT DEF ReduceTask
<1>8. \A r \in ReduceTask : r < w.piece \/ last => inter'[a.TaskId][r][a.WorkerId] = "full"
    BY <1>3, <1>6, <1>7, Numbers, SMT
<1>9. /\ a.Cat = MapCat /\ a.TaskId \in MapTask /\ a.WorkerId # 0
      /\ (MapStatus[a.TaskId] => ReduceTasks[a.TaskId] # a.WorkerId)
    BY <1>2 DEF Maps
<1>10. Maps(w)'
    BY <1>3, <1>6, <1>8, <1>9 DEF Maps
<1>11. Reports(w)'
    <2>1. MapCat # ReduceCat
        BY SMT DEF MapCat, ReduceCat
    <2> QED
        BY <1>3, <1>8, <1>9, <2>1 DEF Reports
<1>12. Reduces(w)'
    BY <1>3, SMT DEF Reduces
<1>13. WorkAt(p)'
    BY <1>6, <1>10, <1>11, <1>12 DEF WorkAt, Maps, Reduces, Reports
<1> QED
    BY <1>6, <1>13 DEF JobInv, WorkInv

(* A worker that reads leaves everything else alone. *)
LEMMA readInterFilesInv ==
    ASSUME JobInv, NEW p \in Proc, readInterFiles(p)
    PROVE  JobInv'
<1> DEFINE a == worker[p]
<1>1. PICK all : all = {t \in MapTask : InterFile(p, t) = "full"}
    OBVIOUS
<1>2. PICK w : w = [a EXCEPT !.st = "reducing", !.pairs = all]
    OBVIOUS
<1>3. TypeOK /\ a \in WorkerRec /\ a.st = "reduce" /\ Reduces(a) /\ DoneInv
    BY Types DEF JobInv, WorkInv, WorkAt, readInterFiles
<1>4. /\ a.Cat = ReduceCat /\ a.TaskId \in ReduceTask /\ a.WorkerId # 0 /\ a.FileNames = ReduceTasks
      /\ \A t \in MapTask : MapStatus[t]
    BY <1>3 DEF Reduces
<1>5. all = MapTask
    BY <1>1, <1>3, <1>4 DEF InterFile, DoneInv
<1>6. /\ w \in WorkerRec /\ w.st = "reducing" /\ w.WorkerId = a.WorkerId /\ w.TaskId = a.TaskId
      /\ w.Cat = a.Cat /\ w.pairs = MapTask
    <2>1. PICK v : v = [a EXCEPT !.st = "reducing"]
        OBVIOUS
    <2>2. v \in WorkerRec /\ v.st = "reducing" /\ v.WorkerId = a.WorkerId /\ v.TaskId = a.TaskId /\ v.Cat = a.Cat
        BY <1>3, <2>1, SMT DEF WorkerRec
    <2>3. w = [v EXCEPT !.pairs = MapTask]
        BY <1>2, <1>5, <2>1, SMT
    <2> QED
        BY <2>2, <2>3, SMT DEF WorkerRec
<1>7. Continues(p, w)
    <2>1. worker' = [worker EXCEPT ![p] = w]
        BY <1>1, <1>2 DEF readInterFiles
    <2> QED
        BY <1>3, <1>6, <2>1 DEF readInterFiles, Continues
<1>8. UNCHANGED <<MapStatus, ReduceTasks, ReduceStatus, result, workers, inter, out>>
    BY DEF readInterFiles, masterVars, statusVars, fileVars
<1>9. TypeOK' /\ RingKinds' /\ IdsInv' /\ CountInv' /\ worker'[p] = w
    BY <1>3, <1>7, <1>8, ContinueKeeps, Types
<1>10. Elsewhere(w.WorkerId) /\ w.WorkerId # 0
    BY <1>4, <1>6, <1>8 DEF Elsewhere
<1>11. Reduces(w)'
    BY <1>4, <1>6, <1>8 DEF Reduces
<1>12. Maps(w)' /\ Reports(w)'
    BY <1>6, SMT DEF Maps, Reports
<1>13. WorkAt(p)'
    BY <1>9, <1>11, <1>12 DEF WorkAt, Maps, Reduces, Reports
<1>14. DoneInv'
    BY <1>3, <1>8 DEF DoneInv
<1> QED
    BY <1>7, <1>9, <1>10, <1>13, <1>14, OthersKeep DEF JobInv, WorkInv

(* An output file is written. *)
WritesOut(r, id, v) == out' = [out EXCEPT ![r][id] = v]
LEMMA OutWritten ==
    ASSUME TypeOK, NEW r \in ReduceTask, NEW id \in WorkerId, NEW v \in File, WritesOut(r, id, v)
    PROVE  /\ out' \in [ReduceTask -> [WorkerId -> File]] /\ out'[r][id] = v
           /\ \A s \in ReduceTask, w \in WorkerId : s # r \/ w # id => out'[s][w] = out[s][w]
<1> DEFINE Files == [WorkerId -> File]
           f == out[r]
           f1 == [f EXCEPT ![id] = v]
<1>1. out \in [ReduceTask -> Files] /\ f \in Files
    BY DEF TypeOK
<1>2. out' = [out EXCEPT ![r] = f1]
    BY DEF WritesOut
<1>3. f1 \in Files /\ f1[id] = v /\ \A w \in WorkerId : w # id => f1[w] = f[w]
    BY <1>1, Replaced
<1> HIDE DEF f1, Files
<1>4. out' \in [ReduceTask -> Files] /\ out'[r] = f1 /\ \A s \in ReduceTask : s # r => out'[s] = out[s]
    BY <1>1, <1>2, <1>3, Replaced
<1>5. ASSUME NEW s \in ReduceTask, NEW w \in WorkerId, s # r \/ w # id
      PROVE  out'[s][w] = out[s][w]
    <2>1. CASE s # r
        BY <1>4, <2>1
    <2>2. CASE s = r /\ w # id
        BY <1>3, <1>4, <2>2
    <2> QED
        BY <1>5, <2>1, <2>2
<1> QED
    BY <1>3, <1>4, <1>5 DEF Files

(* What a worker that writes its output file leaves alone. *)
LEMMA ReduceFrame ==
    ASSUME JobInv, NEW p \in Proc, NEW w, Continues(p, w), worker[p].st \in {"reducing", "writing"},
           NEW v \in File, WritesOut(worker[p].TaskId, worker[p].WorkerId, v), inter' = inter
    PROVE  /\ TypeOK' /\ RingKinds' /\ IdsInv' /\ CountInv' /\ DoneInv' /\ worker'[p] = w
           /\ \A q \in Proc : q # p => WorkAt(q)'
           /\ MapStatus' = MapStatus /\ ReduceTasks' = ReduceTasks
           /\ out'[worker[p].TaskId][worker[p].WorkerId] = v
<1> DEFINE a == worker[p]
<1>1. TypeOK /\ a \in WorkerRec /\ WorkAt(p) /\ DoneInv
    BY Types DEF JobInv, WorkInv
<1>2. PICK r, id : r = a.TaskId /\ id = a.WorkerId
    OBVIOUS
<1>3. r \in ReduceTask /\ id # 0 /\ id \in WorkerId
    BY <1>1, <1>2, Fields DEF WorkAt, Reduces
<1>4. WritesOut(r, id, v)
    BY <1>2
<1>5. /\ out' \in [ReduceTask -> [WorkerId -> File]] /\ out'[r][id] = v
      /\ \A s \in ReduceTask, x \in WorkerId : s # r \/ x # id => out'[s][x] = out[s][x]
    BY <1>1, <1>3, <1>4, OutWritten, SMT
<1>6. inter' \in [MapTask -> [ReduceTask -> [WorkerId -> Written]]]
    BY <1>1, Types
<1>7. /\ TypeOK' /\ RingKinds' /\ IdsInv' /\ CountInv' /\ worker'[p] = w
    BY <1>5, <1>6, ContinueKeeps
<1>8. w.WorkerId = id /\ UNCHANGED <<MapStatus, ReduceTasks, ReduceStatus, result, workers>>
    BY <1>2 DEF Continues, masterVars, statusVars
<1>9. Elsewhere(w.WorkerId) /\ w.WorkerId # 0
    BY <1>3, <1>5, <1>8 DEF Elsewhere
<1>10. DoneInv'
    BY <1>1, <1>8 DEF DoneInv
<1> QED
    BY <1>2, <1>5, <1>7, <1>8, <1>9, <1>10, OthersKeep

LEMMA CreateOutInv ==
    ASSUME JobInv, NEW p \in Proc, CreateOut(p)
    PROVE  JobInv'
<1> DEFINE a == worker[p]
           v == [st |-> "part", of |-> {}]
<1>1. PICK w : w = [a EXCEPT !.st = "writing"]
    OBVIOUS
<1>2. a \in WorkerRec /\ a.st = "reducing" /\ Reduces(a)
    BY Types DEF JobInv, WorkInv, WorkAt, CreateOut
<1>3. /\ w \in WorkerRec /\ w.st = "writing" /\ w.WorkerId = a.WorkerId /\ w.TaskId = a.TaskId
      /\ w.Cat = a.Cat /\ w.pairs = a.pairs
    BY <1>1, <1>2, SMT DEF WorkerRec
<1>4. Continues(p, w)
    BY <1>1, <1>2, <1>3 DEF CreateOut, Continues
<1>5. v \in File
    BY SMT DEF File, Written
<1>6. WritesOut(a.TaskId, a.WorkerId, v) /\ inter' = inter
    BY DEF CreateOut, WritesOut
<1> HIDE DEF v
<1>7. /\ TypeOK' /\ RingKinds' /\ IdsInv' /\ CountInv' /\ DoneInv' /\ worker'[p] = w
      /\ \A q \in Proc : q # p => WorkAt(q)'
      /\ MapStatus' = MapStatus /\ ReduceTasks' = ReduceTasks
    BY <1>2, <1>4, <1>5, <1>6, ReduceFrame
<1>8. Reduces(w)'
    BY <1>2, <1>3, <1>7 DEF Reduces
<1>9. Maps(w)' /\ Reports(w)'
    BY <1>3, SMT DEF Maps, Reports
<1>10. WorkAt(p)'
    BY <1>7, <1>8, <1>9 DEF WorkAt, Maps, Reduces, Reports
<1> QED
    BY <1>7, <1>10 DEF JobInv, WorkInv

(* A worker that has written its output. *)
AfterOut(a) == [a EXCEPT !.st = "calling", !.Finished = TRUE, !.pairs = {}, !.FileNames = Fresh.FileNames]
LEMMA OutDone ==
    ASSUME NEW a \in WorkerRec, NEW w, w = AfterOut(a)
    PROVE  w \in WorkerRec /\ w.st = "calling" /\ w.WorkerId = a.WorkerId /\ w.TaskId = a.TaskId /\ w.Cat = a.Cat
<1>1. PICK x : x = [a EXCEPT !.st = "calling"]
    OBVIOUS
<1>2. PICK names, fin : names = Fresh.FileNames /\ fin = TRUE
    OBVIOUS
<1>3. names \in [MapTask -> WorkerId] /\ fin \in BOOLEAN
    BY <1>2, Numbers, SMT DEF Fresh
<1>4. PICK v : v = [x EXCEPT !.Finished = fin]
    OBVIOUS
<1>5. x \in WorkerRec /\ x.st = "calling" /\ x.WorkerId = a.WorkerId /\ x.TaskId = a.TaskId /\ x.Cat = a.Cat
    BY <1>1, SMT DEF WorkerRec
<1>6. v \in WorkerRec /\ v.st = "calling" /\ v.WorkerId = a.WorkerId /\ v.TaskId = a.TaskId /\ v.Cat = a.Cat
    BY <1>4, <1>5, <1>3, SMT DEF WorkerRec
<1>7. PICK u : u = [v EXCEPT !.pairs = {}]
    OBVIOUS
<1>8. u \in WorkerRec /\ u.st = "calling" /\ u.WorkerId = a.WorkerId /\ u.TaskId = a.TaskId /\ u.Cat = a.Cat
    BY <1>6, <1>7, SMT DEF WorkerRec
<1>9. w = [u EXCEPT !.FileNames = names]
    BY <1>1, <1>4, <1>7, <1>2, SMT DEF AfterOut
<1> QED
    BY <1>8, <1>9, <1>3, SMT DEF WorkerRec

LEMMA WriteOutInv ==
    ASSUME JobInv, NEW p \in Proc, WriteOut(p)
    PROVE  JobInv'
<1> DEFINE a == worker[p]
           v == [st |-> "full", of |-> a.pairs]
<1>1. PICK w : w = AfterOut(a)
    OBVIOUS
<1>2. a \in WorkerRec /\ a.st = "writing" /\ Reduces(a)
    BY Types DEF JobInv, WorkInv, WorkAt, WriteOut
<1>3. a.Cat = ReduceCat /\ a.TaskId \in ReduceTask /\ a.WorkerId # 0 /\ a.pairs = MapTask
    BY <1>2, SMT DEF Reduces
<1>4. w \in WorkerRec /\ w.st = "calling" /\ w.WorkerId = a.WorkerId /\ w.TaskId = a.TaskId /\ w.Cat = a.Cat
    BY <1>1, <1>2, OutDone
<1>5. Continues(p, w)
    BY <1>1, <1>2, <1>4 DEF WriteOut, Continues, AfterOut
<1>6. Full \in File /\ v = Full
    BY <1>3, SMT DEF Full, File, Written
<1>7. WritesOut(a.TaskId, a.WorkerId, v) /\ inter' = inter
    BY DEF WriteOut, WritesOut
<1> HIDE DEF v
<1>8. /\ TypeOK' /\ RingKinds' /\ IdsInv' /\ CountInv' /\ DoneInv' /\ worker'[p] = w
      /\ \A q \in Proc : q # p => WorkAt(q)'
      /\ out'[a.TaskId][a.WorkerId] = Full
    BY <1>2, <1>5, <1>6, <1>7, ReduceFrame
<1>9. Reports(w)'
    <2>1. MapCat # ReduceCat
        BY SMT DEF MapCat, ReduceCat
    <2> QED
        BY <1>3, <1>4, <1>8, <2>1 DEF Reports
<1>10. Maps(w)' /\ Reduces(w)'
    BY <1>4, SMT DEF Maps, Reduces
<1>11. WorkAt(p)'
    BY <1>8, <1>9, <1>10 DEF WorkAt, Maps, Reduces, Reports
<1> QED
    BY <1>8, <1>11 DEF JobInv, WorkInv

-----------------------------------------------------------------------------
(* Processes that end *)

(* The fields of a process that has just started, or has gone. *)
Gone == [Fresh EXCEPT !.st = "gone"]
LEMMA EndFields ==
    /\ Fresh \in WorkerRec /\ Fresh.WorkerId = 0 /\ Fresh.st = "calling" /\ Fresh.Finished = FALSE
    /\ Gone \in WorkerRec /\ Gone.WorkerId = 0 /\ Gone.st = "gone" /\ Gone.Finished = FALSE
<1>1. Fresh \in WorkerRec /\ Fresh.WorkerId = 0 /\ Fresh.st = "calling" /\ Fresh.Finished = FALSE
    BY Numbers, SMT DEF Fresh, WorkerRec
<1>2. PICK f : f = Fresh
    OBVIOUS
<1>3. PICK g : g = [f EXCEPT !.st = "gone"]
    OBVIOUS
<1>4. g \in WorkerRec /\ g.WorkerId = 0 /\ g.st = "gone" /\ g.Finished = FALSE
    BY <1>1, <1>2, <1>3, SMT DEF WorkerRec
<1> QED
    BY <1>1, <1>2, <1>3, <1>4 DEF Gone

(* How many processes have no id. *)
LEMMA UnnamedCount ==
    /\ IsFiniteSet(Unnamed) /\ Cardinality(Unnamed) \in Nat
    /\ \A S : S \subseteq Unnamed => IsFiniteSet(S) /\ Cardinality(S) \in Nat /\ Cardinality(S) <= Cardinality(Unnamed)
    /\ \A p \in Proc : p \in Unnamed =>
          IsFiniteSet(Unnamed \ {p}) /\ Cardinality(Unnamed \ {p}) \in Nat
          /\ Cardinality(Unnamed \ {p}) = Cardinality(Unnamed) - 1
    /\ \A p \in Proc :
          Cardinality(Unnamed \cup {p}) \in Nat /\ Cardinality(Unnamed \cup {p}) <= Cardinality(Unnamed) + 1
<1>1. IsFiniteSet(Unnamed)
    BY Finite, FS_Subset DEF Unnamed
<1>2. Cardinality(Unnamed) \in Nat
    BY <1>1, FS_CardinalityType
<1>3. \A S : S \subseteq Unnamed => IsFiniteSet(S) /\ Cardinality(S) \in Nat /\ Cardinality(S) <= Cardinality(Unnamed)
    BY <1>1, FS_Subset, FS_CardinalityType
<1>4. \A p \in Proc : p \in Unnamed =>
          IsFiniteSet(Unnamed \ {p}) /\ Cardinality(Unnamed \ {p}) \in Nat
          /\ Cardinality(Unnamed \ {p}) = Cardinality(Unnamed) - 1
    BY <1>1, FS_RemoveElement, FS_CardinalityType
<1>5. ASSUME NEW p \in Proc
      PROVE  Cardinality(Unnamed \cup {p}) \in Nat /\ Cardinality(Unnamed \cup {p}) <= Cardinality(Unnamed) + 1
    <2>1. /\ IsFiniteSet(Unnamed \cup {p})
          /\ Cardinality(Unnamed \cup {p}) = IF p \in Unnamed THEN Cardinality(Unnamed) ELSE Cardinality(Unnamed) + 1
        BY <1>1, FS_AddElement
    <2>2. Cardinality(Unnamed \cup {p}) \in Nat
        BY <2>1, FS_CardinalityType
    <2> QED
        BY <1>2, <2>1, <2>2, SMT
<1> QED
    BY <1>1, <1>2, <1>3, <1>4, <1>5

(* A process is replaced by a new one or by none. *)
LEMMA EndKeeps ==
    ASSUME JobInv, NEW p \in Proc, NEW w \in {Fresh, Gone}, worker' = [worker EXCEPT ![p] = w],
           UNCHANGED <<masterVars, up, fileVars>>, crashes' \in 0 .. MaxCrashes,
           workers + Cardinality(Unnamed') <= Cardinality(Proc) + crashes'
    PROVE  JobInv'
<1>1. /\ worker \in [Proc -> WorkerRec] /\ TypeOK /\ w \in WorkerRec /\ w.WorkerId = 0 /\ w.Finished = FALSE
      /\ (w.st = "calling" \/ w.st = "gone")
    BY EndFields, Types DEF JobInv
<1>2. worker' \in [Proc -> WorkerRec] /\ worker'[p] = w /\ \A q \in Proc : q # p => worker'[q] = worker[q]
    BY <1>1
<1>3. TypeOK'
    BY <1>1, <1>2 DEF TypeOK, WorkerRec, masterVars, statusVars, ringVars, fileVars
<1>4. RingKinds' /\ CountInv' /\ DoneInv'
    BY DEF JobInv, RingKinds, CountInv, DoneInv, KeepsKind, masterVars, statusVars, ringVars, fileVars
<1>5. UNCHANGED <<MapStatus, ReduceTasks, inter, out, workers>>
    BY DEF masterVars, statusVars, fileVars
<1>6. IdsInv'
    <2>1. 0 <= workers
        BY <1>1, Types, SMT
    <2>2. \A q \in Proc : worker'[q].WorkerId <= workers'
        BY <1>1, <1>2, <1>5, <2>1 DEF JobInv, IdsInv
    <2>3. Distinct'
        BY <1>1, <1>2 DEF JobInv, IdsInv, Distinct
    <2> QED
        BY <1>5, <2>2, <2>3 DEF IdsInv
<1>7. ASSUME NEW q \in Proc PROVE WorkAt(q)'
    <2>1. CASE q = p
        <3>1. Maps(w)' /\ Reduces(w)' /\ Reports(w)'
            BY <1>1, SMT DEF Maps, Reduces, Reports
        <3> QED
            BY <1>2, <2>1, <3>1 DEF WorkAt, Maps, Reduces, Reports
    <2>2. CASE q # p
        BY <1>2, <1>5, <2>2 DEF JobInv, WorkInv, WorkAt, Maps, Reduces, Reports
    <2> QED
        BY <2>1, <2>2
<1> QED
    BY <1>3, <1>4, <1>6, <1>7 DEF JobInv, WorkInv

LEMMA CallFailsInv ==
    ASSUME JobInv, NEW p \in Proc, CallFails(p)
    PROVE  JobInv'
<1>1. /\ worker' = [worker EXCEPT ![p] = Gone] /\ UNCHANGED <<masterVars, up, fileVars>> /\ crashes' = crashes
    BY DEF CallFails, Gone
<1>2. worker \in [Proc -> WorkerRec] /\ TypeOK /\ crashes \in Nat /\ crashes <= MaxCrashes /\ workers \in Nat
    BY Types DEF JobInv
<1>3. Unnamed' \subseteq Unnamed
    BY <1>1, <1>2, EndFields DEF Unnamed
<1>4. PICK S : S = Unnamed'
    OBVIOUS
<1>5. Cardinality(S) \in Nat /\ Cardinality(S) <= Cardinality(Unnamed) /\ Cardinality(Unnamed) \in Nat
    BY <1>3, <1>4, UnnamedCount
<1>6. workers + Cardinality(Unnamed) <= Cardinality(Proc) + crashes
    BY DEF JobInv, IdsInv
<1>7. workers + Cardinality(S) <= Cardinality(Proc) + crashes' /\ crashes' \in 0 .. MaxCrashes
    BY <1>1, <1>2, <1>5, <1>6, Finite, Numbers, SMT
<1> QED
    BY <1>1, <1>4, <1>7, EndKeeps

LEMMA CrashInv ==
    ASSUME JobInv, NEW p \in Proc, Crash(p)
    PROVE  JobInv'
<1>1. /\ worker' = [worker EXCEPT ![p] = Fresh] /\ UNCHANGED <<masterVars, up, fileVars>>
      /\ crashes' = crashes + 1 /\ crashes < MaxCrashes
    BY DEF Crash
<1>2. worker \in [Proc -> WorkerRec] /\ TypeOK /\ crashes \in Nat /\ workers \in Nat
    BY Types DEF JobInv
<1>3. Unnamed' = Unnamed \cup {p}
    <2>1. Fresh.WorkerId = 0 /\ Fresh.st # "gone"
        BY EndFields, SMT
    <2> QED
        BY <1>1, <1>2, <2>1 DEF Unnamed
<1>4. PICK S : S = Unnamed'
    OBVIOUS
<1>5. Cardinality(S) \in Nat /\ Cardinality(S) <= Cardinality(Unnamed) + 1 /\ Cardinality(Unnamed) \in Nat
    BY <1>3, <1>4, UnnamedCount
<1>6. workers + Cardinality(Unnamed) <= Cardinality(Proc) + crashes
    BY DEF JobInv, IdsInv
<1>7. workers + Cardinality(S) <= Cardinality(Proc) + crashes' /\ crashes' \in 0 .. MaxCrashes
    BY <1>1, <1>2, <1>5, <1>6, Finite, Numbers, SMT
<1> QED
    BY <1>1, <1>4, <1>7, EndKeeps

LEMMA MasterExitsInv ==
    ASSUME JobInv, MasterExits
    PROVE  JobInv'
<1>1. up' \in BOOLEAN /\ UNCHANGED <<masterVars, worker, fileVars, crashes>>
    BY DEF MasterExits
<1>2. TypeOK'
    BY <1>1 DEF JobInv, TypeOK, masterVars, statusVars, ringVars, fileVars
<1>3. RingKinds' /\ CountInv' /\ DoneInv'
    BY <1>1 DEF JobInv, RingKinds, CountInv, DoneInv, KeepsKind, masterVars, statusVars, ringVars, fileVars
<1>4. IdsInv'
    BY <1>1 DEF JobInv, IdsInv, Distinct, Unnamed, masterVars
<1>5. WorkInv'
    BY <1>1 DEF JobInv, WorkInv, WorkAt, Maps, Reduces, Reports, masterVars, statusVars, fileVars
<1> QED
    BY <1>2, <1>3, <1>4, <1>5 DEF JobInv

-----------------------------------------------------------------------------
(* RequestHandler: the report *)

(* What the handler does with the report of a map task. *)
TakesMap(a) ==
    /\ MapStatus' = IF ReportsMap(a) THEN [MapStatus EXCEPT ![a.TaskId] = TRUE] ELSE MapStatus
    /\ MapFinished' = IF ReportsMap(a) THEN MapFinished - 1 ELSE MapFinished
    /\ ReduceTasks' = IF ReportsMap(a) THEN [ReduceTasks EXCEPT ![a.TaskId] = a.WorkerId] ELSE ReduceTasks

(* Only the first report of a task counts. *)
LEMMA MapTaken ==
    ASSUME JobInv, NEW a \in WorkerRec, Reports(a), a.st = "calling", TakesMap(a)
    PROVE  /\ MapStatus' \in [MapTask -> BOOLEAN] /\ ReduceTasks' \in [MapTask -> WorkerId]
           /\ MapFinished' \in 0 .. NMap /\ MapFinished' <= MapFinished
           /\ MapFinished' = Cardinality(Open(MapTask, MapStatus'))
           /\ \A t \in MapTask : MapStatus[t] => MapStatus'[t] /\ ReduceTasks'[t] = ReduceTasks[t]
           /\ \A t \in MapTask : MapStatus'[t] /\ ~MapStatus[t] =>
                 a.Finished /\ a.Cat = MapCat /\ t = a.TaskId /\ ReduceTasks'[t] = a.WorkerId
           /\ (\A t \in MapTask : MapStatus[t]) => ReduceTasks' = ReduceTasks
<1>1. /\ MapStatus \in [MapTask -> BOOLEAN] /\ ReduceTasks \in [MapTask -> WorkerId] /\ a.WorkerId \in WorkerId
      /\ MapFinished = Cardinality(Open(MapTask, MapStatus)) /\ MapFinished \in 0 .. NMap
    BY Types, Fields DEF JobInv, CountInv, TypeOK
<1>2. CASE ~ReportsMap(a)
    <2>1. MapStatus' = MapStatus /\ MapFinished' = MapFinished /\ ReduceTasks' = ReduceTasks
        BY <1>2 DEF TakesMap
    <2>2. MapFinished <= MapFinished
        BY <1>1, Numbers, SMT
    <2> QED
        BY <1>1, <2>1, <2>2
<1>3. CASE ReportsMap(a)
    <2>1. PICK t : t = a.TaskId
        OBVIOUS
    <2>2. /\ MapStatus' = [MapStatus EXCEPT ![t] = TRUE] /\ MapFinished' = MapFinished - 1
          /\ ReduceTasks' = [ReduceTasks EXCEPT ![t] = a.WorkerId]
        BY <1>3, <2>1 DEF TakesMap
    <2>3. t \in MapTask /\ ~MapStatus[t] /\ a.Finished /\ a.Cat = MapCat
        BY <1>3, <2>1 DEF Reports, ReportsMap
    <2>4. MapFinished' = Cardinality(Open(MapTask, MapStatus'))
        BY <1>1, <2>2, <2>3, OpenCount, Finite
    <2>5. MapFinished > 0
        <3>1. Cardinality(Open(MapTask, MapStatus)) # 0
            BY <1>1, <2>3, OpenCount, Finite
        <3> QED
            BY <1>1, <3>1, Numbers, SMT
    <2>6. MapFinished' \in 0 .. NMap /\ MapFinished' <= MapFinished
        BY <1>1, <2>2, <2>5, Numbers, SMT
    <2>7. /\ MapStatus' \in [MapTask -> BOOLEAN] /\ ReduceTasks' \in [MapTask -> WorkerId]
          /\ ReduceTasks'[t] = a.WorkerId
          /\ \A u \in MapTask : u # t => MapStatus'[u] = MapStatus[u] /\ ReduceTasks'[u] = ReduceTasks[u]
        BY <1>1, <2>2, <2>3
    <2> QED
        BY <2>1, <2>3, <2>4, <2>6, <2>7
<1> QED
    BY <1>2, <1>3

(* What it does with the report of a reduce task. *)
TakesReduce(a) ==
    /\ ReduceStatus' = IF ReportsReduce(a) THEN [ReduceStatus EXCEPT ![a.TaskId] = TRUE] ELSE ReduceStatus
    /\ ReduceFinished' = IF ReportsReduce(a) THEN ReduceFinished - 1 ELSE ReduceFinished
    /\ result' = IF ReportsReduce(a) THEN [result EXCEPT ![a.TaskId] = out[a.TaskId][a.WorkerId]] ELSE result
    /\ out' = IF ReportsReduce(a) THEN [out EXCEPT ![a.TaskId][a.WorkerId] = NoFile] ELSE out

(* The output that is renamed is complete. *)
LEMMA ReduceTaken ==
    ASSUME JobInv, NEW a \in WorkerRec, Reports(a), a.st = "calling", TakesReduce(a)
    PROVE  /\ ReduceStatus' \in [ReduceTask -> BOOLEAN] /\ result' \in [ReduceTask -> File]
           /\ out' \in [ReduceTask -> [WorkerId -> File]]
           /\ ReduceFinished' \in 0 .. NReduce
           /\ ReduceFinished' = Cardinality(Open(ReduceTask, ReduceStatus'))
           /\ \A r \in ReduceTask : ReduceStatus'[r] => result'[r] = Full
           /\ out' # out => a.WorkerId # 0
           /\ \A r \in ReduceTask, id \in WorkerId : id # a.WorkerId => out'[r][id] = out[r][id]
<1>1. /\ ReduceStatus \in [ReduceTask -> BOOLEAN] /\ result \in [ReduceTask -> File] /\ a.WorkerId \in WorkerId
      /\ out \in [ReduceTask -> [WorkerId -> File]]
      /\ ReduceFinished = Cardinality(Open(ReduceTask, ReduceStatus)) /\ ReduceFinished \in 0 .. NReduce
      /\ \A r \in ReduceTask : ReduceStatus[r] => result[r] = Full
    BY Types, Fields DEF JobInv, CountInv, TypeOK, DoneInv
<1>2. CASE ~ReportsReduce(a)
    <2>1. ReduceStatus' = ReduceStatus /\ ReduceFinished' = ReduceFinished /\ result' = result /\ out' = out
        BY <1>2 DEF TakesReduce
    <2> QED
        BY <1>1, <2>1
<1>3. CASE ReportsReduce(a)
    <2>1. PICK r, id : r = a.TaskId /\ id = a.WorkerId
        OBVIOUS
    <2>2. /\ ReduceStatus' = [ReduceStatus EXCEPT ![r] = TRUE] /\ ReduceFinished' = ReduceFinished - 1
          /\ result' = [result EXCEPT ![r] = out[r][id]] /\ WritesOut(r, id, NoFile)
        BY <1>3, <2>1 DEF TakesReduce, WritesOut
    <2>3. r \in ReduceTask /\ ~ReduceStatus[r] /\ id # 0 /\ id \in WorkerId /\ out[r][id] = Full
        BY <1>1, <1>3, <2>1 DEF Reports, ReportsReduce
    <2>4. ReduceFinished' = Cardinality(Open(ReduceTask, ReduceStatus'))
        BY <1>1, <2>2, <2>3, OpenCount, Finite
    <2>5. ReduceFinished > 0
        <3>1. Cardinality(Open(ReduceTask, ReduceStatus)) # 0
            BY <1>1, <2>3, OpenCount, Finite
        <3> QED
            BY <1>1, <3>1, Numbers, SMT
    <2>6. ReduceFinished' \in 0 .. NReduce
        BY <1>1, <2>2, <2>5, Numbers, SMT
    <2>7. NoFile \in File /\ Full \in File /\ TypeOK
        BY SMT DEF NoFile, Full, File, Written, JobInv
    <2>8. /\ ReduceStatus' \in [ReduceTask -> BOOLEAN] /\ result' \in [ReduceTask -> File] /\ result'[r] = Full
          /\ \A u \in ReduceTask : u # r => ReduceStatus'[u] = ReduceStatus[u] /\ result'[u] = result[u]
        BY <1>1, <2>2, <2>3, <2>7
    <2>9. /\ out' \in [ReduceTask -> [WorkerId -> File]]
          /\ \A u \in ReduceTask, x \in WorkerId : u # r \/ x # id => out'[u][x] = out[u][x]
        BY <2>2, <2>3, <2>7, OutWritten
    <2> QED
        BY <1>1, <2>1, <2>3, <2>4, <2>6, <2>8, <2>9
<1> QED
    BY <1>2, <1>3

(* The files and tasks of the other workers stay what they were. *)
LEMMA OthersUntold ==
    ASSUME JobInv, NEW p \in Proc, worker[p].st = "calling", TakesMap(worker[p]), TakesReduce(worker[p]),
           inter' = inter,
           NEW q \in Proc, q # p, worker'[q] = worker[q]
    PROVE  WorkAt(q)'
<1>1. PICK a : a = worker[p]
    OBVIOUS
<1>2. PICK v : v = worker[q]
    OBVIOUS
<1>3. /\ a \in WorkerRec /\ Reports(a) /\ a.st = "calling" /\ TakesMap(a) /\ TakesReduce(a)
      /\ v \in WorkerRec /\ Maps(v) /\ Reduces(v) /\ Reports(v)
    BY <1>1, <1>2, Types DEF JobInv, WorkInv, WorkAt
<1>4. (a.WorkerId # 0 => v.WorkerId # a.WorkerId) /\ v.WorkerId \in WorkerId
    BY <1>1, <1>2, <1>3, Fields DEF JobInv, IdsInv, Distinct
<1>5. /\ \A t \in MapTask : MapStatus[t] => MapStatus'[t] /\ ReduceTasks'[t] = ReduceTasks[t]
      /\ \A t \in MapTask : MapStatus'[t] /\ ~MapStatus[t] => ReduceTasks'[t] = a.WorkerId /\ a.Finished
      /\ (\A t \in MapTask : MapStatus[t]) => ReduceTasks' = ReduceTasks
    BY <1>3, MapTaken
<1>6. /\ out' # out => a.WorkerId # 0
      /\ \A r \in ReduceTask, id \in WorkerId : id # a.WorkerId => out'[r][id] = out[r][id]
    BY <1>3, ReduceTaken
<1>7. Maps(v)'
    <2> SUFFICES ASSUME v.st \in {"map", "filling"}
                 PROVE  /\ v.Cat = MapCat /\ v.TaskId \in MapTask /\ v.WorkerId # 0
                        /\ \A r \in ReduceTask : r < v.piece => inter'[v.TaskId][r][v.WorkerId] = "full"
                        /\ MapStatus'[v.TaskId] => ReduceTasks'[v.TaskId] # v.WorkerId
        BY DEF Maps
    <2>1. /\ v.Cat = MapCat /\ v.TaskId \in MapTask /\ v.WorkerId # 0
          /\ \A r \in ReduceTask : r < v.piece => inter[v.TaskId][r][v.WorkerId] = "full"
          /\ MapStatus[v.TaskId] => ReduceTasks[v.TaskId] # v.WorkerId
        BY <1>3 DEF Maps
    <2>2. a.Finished => a.WorkerId # 0
        BY <1>3 DEF Reports
    <2> QED
        BY <1>4, <1>5, <2>1, <2>2
<1>8. Reduces(v)'
    BY <1>3, <1>5 DEF Reduces
<1>9. Reports(v)'
    BY <1>3, <1>4, <1>6 DEF Reports
<1> QED
    BY <1>2, <1>7, <1>8, <1>9 DEF WorkAt

(* What the tasks that are done have left, when another one is. *)
LEMMA DoneTaken ==
    ASSUME JobInv, NEW p \in Proc, worker[p].st = "calling", TakesMap(worker[p]), TakesReduce(worker[p]),
           inter' = inter,
           workers' \in Nat, workers <= workers'
    PROVE  DoneInv'
<1>1. PICK a : a = worker[p]
    OBVIOUS
<1>2. /\ a \in WorkerRec /\ Reports(a) /\ a.st = "calling" /\ TakesMap(a) /\ TakesReduce(a)
      /\ a.WorkerId <= workers /\ DoneInv /\ workers \in Nat
    BY <1>1, Types DEF JobInv, WorkInv, WorkAt, IdsInv
<1>3. /\ \A t \in MapTask : MapStatus[t] => ReduceTasks'[t] = ReduceTasks[t]
      /\ \A t \in MapTask : MapStatus'[t] /\ ~MapStatus[t] =>
            a.Finished /\ a.Cat = MapCat /\ t = a.TaskId /\ ReduceTasks'[t] = a.WorkerId
    BY <1>2, MapTaken
<1>4. ASSUME NEW t \in MapTask, MapStatus'[t]
      PROVE  ReduceTasks'[t] \in 1 .. workers' /\ \A r \in ReduceTask : inter'[t][r][ReduceTasks'[t]] = "full"
    <2>1. CASE MapStatus[t]
        <3>1. ReduceTasks[t] \in 1 .. workers /\ \A r \in ReduceTask : inter[t][r][ReduceTasks[t]] = "full"
            BY <1>2, <2>1 DEF DoneInv
        <3>2. \A n \in 1 .. workers : n \in 1 .. workers'
            BY <1>2, SMT
        <3> QED
            BY <1>3, <2>1, <3>1, <3>2
    <2>2. CASE ~MapStatus[t]
        <3>1. a.Finished /\ a.Cat = MapCat /\ t = a.TaskId /\ ReduceTasks'[t] = a.WorkerId
            BY <1>3, <1>4, <2>2
        <3>2. a.WorkerId # 0 /\ \A r \in ReduceTask : inter[t][r][a.WorkerId] = "full"
            BY <1>2, <3>1 DEF Reports
        <3>3. a.WorkerId \in 1 .. workers'
            BY <1>2, <3>2, Fields, SMT
        <3> QED
            BY <3>1, <3>2, <3>3
    <2> QED
        BY <2>1, <2>2
<1>5. \A r \in ReduceTask : ReduceStatus'[r] => result'[r] = Full
    BY <1>2, ReduceTaken
<1> QED
    BY <1>4, <1>5 DEF DoneInv

-----------------------------------------------------------------------------
(* RequestHandler: the id and the next task *)

(* A worker that has no id gets the next one, of which there is one left. *)
NamedAs(a) == IF a.WorkerId = 0 THEN workers + 1 ELSE a.WorkerId
TakesId(a) == workers' = IF a.WorkerId = 0 THEN workers + 1 ELSE workers
LEMMA IdNumber ==
    ASSUME JobInv, NEW p \in Proc, worker[p].st = "calling"
    PROVE  /\ NamedAs(worker[p]) \in WorkerId /\ NamedAs(worker[p]) # 0
           /\ worker[p].WorkerId = 0 => p \in Unnamed /\ workers + 1 \in WorkerId
<1>1. PICK n : n = worker[p].WorkerId
    OBVIOUS
<1>2. /\ worker[p] \in WorkerRec /\ n \in Nat /\ n \in WorkerId /\ workers \in Nat
      /\ crashes \in Nat /\ crashes <= MaxCrashes /\ workers + Cardinality(Unnamed) <= Cardinality(Proc) + crashes
    BY <1>1, Types, Fields DEF JobInv, IdsInv
<1>3. n = 0 => p \in Unnamed
    <2>1. worker[p].st # "gone"
        BY SMT
    <2> QED
        BY <1>1, <2>1 DEF Unnamed
<1>4. n = 0 => Cardinality(Unnamed) > 0
    <2>1. n = 0 =>
              /\ Cardinality(Unnamed) \in Nat /\ Cardinality(Unnamed \ {p}) \in Nat
              /\ Cardinality(Unnamed \ {p}) = Cardinality(Unnamed) - 1
        BY <1>3, UnnamedCount
    <2> QED
        BY <2>1, SMT
<1>5. n = 0 => workers + 1 \in Nat /\ workers + 1 <= Cardinality(Proc) + MaxCrashes /\ workers + 1 # 0
    BY <1>2, <1>4, Finite, UnnamedCount, Numbers, SMT
<1>6. n = 0 => workers + 1 \in WorkerId /\ workers + 1 # 0
    BY <1>5, Numbers
<1> QED
    BY <1>1, <1>2, <1>3, <1>6 DEF NamedAs

(* The ids stay distinct. *)
LEMMA IdTaken ==
    ASSUME JobInv, NEW p \in Proc, worker[p].st = "calling", TakesId(worker[p]), crashes' = crashes,
           NEW w \in WorkerRec, worker' = [worker EXCEPT ![p] = w],
           w.WorkerId = NamedAs(worker[p]) \/ (w.WorkerId = 0 /\ w.st = "gone")
    PROVE  workers' \in WorkerId /\ workers' \in Nat /\ workers <= workers' /\ IdsInv'
<1>1. PICK id, n : id = NamedAs(worker[p]) /\ n = worker[p].WorkerId
    OBVIOUS
<1>2. /\ worker \in [Proc -> WorkerRec] /\ n \in Nat /\ n \in WorkerId /\ n <= workers /\ workers \in Nat
      /\ crashes \in Nat /\ crashes <= MaxCrashes /\ Distinct /\ workers \in WorkerId
      /\ workers + Cardinality(Unnamed) <= Cardinality(Proc) + crashes
      /\ \A q \in Proc : worker[q].WorkerId <= workers /\ worker[q].WorkerId \in Nat
    BY <1>1, Types, Fields DEF JobInv, IdsInv, TypeOK
<1>3. Cardinality(Proc) \in Nat /\ Cardinality(Unnamed) \in Nat /\ MaxCrashes \in Nat
    BY Finite, UnnamedCount, Numbers
<1>4. worker'[p] = w /\ \A q \in Proc : q # p => worker'[q] = worker[q]
    BY <1>2
<1>5. CASE n = 0
    <2>1. id = workers + 1 /\ workers' = workers + 1
        BY <1>1, <1>5 DEF NamedAs, TakesId
    <2>2. p \in Unnamed /\ workers + 1 \in WorkerId /\ id # 0
        BY <1>1, <1>5, IdNumber
    <2>3. /\ IsFiniteSet(Unnamed \ {p}) /\ Cardinality(Unnamed \ {p}) = Cardinality(Unnamed) - 1
        BY <2>2, UnnamedCount
    <2>4. Cardinality(Unnamed \ {p}) \in Nat
        BY <2>3, FS_CardinalityType
    <2>5. workers' \in WorkerId /\ workers' \in Nat /\ workers <= workers'
        BY <1>2, <2>1, <2>2, SMT
    <2>6. w.WorkerId # 0 \/ w.st = "gone"
        BY <1>1, <2>2
    <2>7. PICK S : S = Unnamed'
        OBVIOUS
    <2>8. S \subseteq Unnamed \ {p}
        BY <1>4, <2>6, <2>7 DEF Unnamed
    <2>9. Cardinality(S) <= Cardinality(Unnamed \ {p}) /\ Cardinality(S) \in Nat
        BY <2>3, <2>8, FS_Subset, FS_CardinalityType
    <2>10. workers' + Cardinality(S) <= Cardinality(Proc) + crashes'
        BY <1>2, <1>3, <2>1, <2>3, <2>4, <2>9, SMT
    <2>11. w.WorkerId = workers + 1 \/ w.WorkerId = 0
        BY <1>1, <2>1
    <2>12. \A q \in Proc : worker'[q].WorkerId <= workers'
        <3>1. w.WorkerId <= workers + 1
            BY <1>2, <2>11, SMT
        <3>2. \A q \in Proc : worker[q].WorkerId <= workers + 1
            BY <1>2, SMT
        <3> QED
            BY <1>4, <2>1, <3>1, <3>2
    <2>13. Distinct'
        <3>1. \A q \in Proc : worker[q].WorkerId # workers + 1
            BY <1>2, SMT
        <3> QED
            BY <1>2, <1>4, <2>11, <3>1 DEF Distinct
    <2> QED
        BY <1>1, <2>1, <2>5, <2>7, <2>10, <2>12, <2>13 DEF IdsInv
<1>6. CASE n # 0
    <2>1. id = n /\ workers' = workers
        BY <1>1, <1>6 DEF NamedAs, TakesId
    <2>2. w.WorkerId = n \/ (w.WorkerId = 0 /\ w.st = "gone")
        BY <1>1, <2>1
    <2>3. PICK S : S = Unnamed'
        OBVIOUS
    <2>4. S \subseteq Unnamed
        BY <1>4, <1>6, <2>2, <2>3 DEF Unnamed
    <2>5. Cardinality(S) \in Nat /\ Cardinality(S) <= Cardinality(Unnamed)
        BY <2>4, UnnamedCount
    <2>6. workers' + Cardinality(S) <= Cardinality(Proc) + crashes' /\ workers <= workers' /\ 0 <= workers
        BY <1>2, <1>3, <2>1, <2>5, SMT
    <2>7. \A q \in Proc : worker'[q].WorkerId <= workers'
        BY <1>2, <1>4, <2>1, <2>2, <2>6
    <2>8. Distinct'
        <3>1. \A q \in Proc : worker'[q].WorkerId = worker[q].WorkerId \/ worker'[q].WorkerId = 0
            BY <1>1, <1>4, <2>2
        <3>2. ASSUME NEW x \in Proc, NEW y \in Proc, x # y, worker'[x].WorkerId # 0
              PROVE  worker'[x].WorkerId # worker'[y].WorkerId
            <4>1. worker'[x].WorkerId = worker[x].WorkerId /\ worker[x].WorkerId # worker[y].WorkerId
                BY <1>2, <3>1, <3>2 DEF Distinct
            <4> QED
                BY <3>1, <3>2, <4>1
        <3> QED
            BY <3>2 DEF Distinct
    <2> QED
        BY <1>1, <1>2, <1>6, <2>1, <2>3, <2>6, <2>7, <2>8 DEF IdsInv
<1> QED
    BY <1>5, <1>6

(* The worker with its next task. *)
LEMMA AssignedFields ==
    ASSUME NEW id \in WorkerId, NEW x \in TaskNode, ~IsHead(x), NEW names \in [MapTask -> WorkerId],
           NEW w, w = Assigned(id, x, names)
    PROVE  /\ w \in WorkerRec /\ w.WorkerId = id /\ w.Cat = Kind(x) /\ w.TaskId = x[2] /\ w.piece = 0
           /\ w.st = IF Kind(x) = MapCat THEN "map" ELSE "reduce"
           /\ Kind(x) # MapCat => w.FileNames = names
<1>1. PICK st, fn : /\ st = (IF x[1] = MapCat THEN "map" ELSE "reduce")
                    /\ fn = (IF x[1] = MapCat THEN Fresh.FileNames ELSE names)
    OBVIOUS
<1>2. w = [st |-> st, Cat |-> x[1], TaskId |-> x[2], Finished |-> FALSE, WorkerId |-> id, piece |-> 0,
           FileNames |-> fn, pairs |-> {}]
    BY <1>1 DEF Assigned
<1>3. fn \in [MapTask -> WorkerId] /\ st \in {"map", "reduce"}
    BY <1>1, Numbers, SMT DEF Fresh
<1>4. x[1] \in {MapCat, ReduceCat} /\ x[2] \in MapTask \cup ReduceTask
    BY TaskOf DEF Kind
<1>5. /\ w \in WorkerRec /\ w.WorkerId = id /\ w.Cat = x[1] /\ w.TaskId = x[2] /\ w.piece = 0
      /\ w.st = st /\ w.FileNames = fn
    BY <1>2, <1>3, <1>4, Numbers, SMT DEF WorkerRec
<1> QED
    BY <1>1, <1>5 DEF Kind

LEMMA RequestHandlerInv ==
    ASSUME JobInv, NEW p \in Proc, RequestHandler(p)
    PROVE  JobInv'
<1> DEFINE a == worker[p]
<1>1. /\ a.st = "calling" /\ TakesMap(a) /\ TakesReduce(a) /\ TakesId(a)
      /\ UNCHANGED <<ReducePointer, up, inter, crashes>>
    BY DEF RequestHandler, TakesMap, TakesReduce, TakesId
<1>2. TypeOK /\ a \in WorkerRec /\ WorkAt(p) /\ Reports(a) /\ RingKinds /\ worker \in [Proc -> WorkerRec]
    BY Types DEF JobInv, WorkInv, WorkAt
<1>3. /\ MapStatus' \in [MapTask -> BOOLEAN] /\ ReduceTasks' \in [MapTask -> WorkerId]
      /\ MapFinished' \in 0 .. NMap /\ MapFinished' <= MapFinished
      /\ MapFinished' = Cardinality(Open(MapTask, MapStatus'))
    BY <1>1, <1>2, MapTaken
<1>4. /\ ReduceStatus' \in [ReduceTask -> BOOLEAN] /\ result' \in [ReduceTask -> File]
      /\ out' \in [ReduceTask -> [WorkerId -> File]] /\ ReduceFinished' \in 0 .. NReduce
      /\ ReduceFinished' = Cardinality(Open(ReduceTask, ReduceStatus'))
    BY <1>1, <1>2, ReduceTaken
<1>5. CountInv'
    BY <1>3, <1>4 DEF CountInv
<1>6. ASSUME NEW w \in WorkerRec, worker' = [worker EXCEPT ![p] = w],
             w.WorkerId = NamedAs(a) \/ (w.WorkerId = 0 /\ w.st = "gone"),
             Maps(w)', Reduces(w)', Reports(w)', RingKinds',
             next' \in [TaskNode -> TaskNode], prev' \in [TaskNode -> TaskNode], MapPointer' \in TaskNode,
             given' \in [TaskNode -> Nat]
      PROVE  JobInv'
    <2>1. workers' \in WorkerId /\ workers' \in Nat /\ workers <= workers' /\ IdsInv'
        BY <1>1, <1>6, IdTaken
    <2>2. worker' \in [Proc -> WorkerRec] /\ worker'[p] = w /\ \A q \in Proc : q # p => worker'[q] = worker[q]
        BY <1>2, <1>6
    <2>3. TypeOK'
        BY <1>1, <1>2, <1>3, <1>4, <1>6, <2>1, <2>2 DEF TypeOK, WorkerRec
    <2>4. DoneInv'
        BY <1>1, <2>1, DoneTaken
    <2>5. \A q \in Proc : q # p => WorkAt(q)'
        BY <1>1, <2>2, OthersUntold
    <2>6. WorkAt(p)'
        BY <1>6, <2>2 DEF WorkAt, Maps, Reduces, Reports
    <2> QED
        BY <1>5, <1>6, <2>1, <2>3, <2>4, <2>5, <2>6 DEF JobInv, WorkInv
<1>7. CASE /\ worker' = [worker EXCEPT ![p] = Gone] /\ UNCHANGED <<next, prev, MapPointer, given>>
    <2>1. Maps(Gone)' /\ Reduces(Gone)' /\ Reports(Gone)'
        BY EndFields, SMT DEF Maps, Reduces, Reports
    <2>2. RingKinds'
        <3>1. MapFinished' > 0 => MapFinished > 0
            BY <1>2, <1>3, Types, Numbers, SMT
        <3> QED
            BY <1>1, <1>2, <1>7, <3>1 DEF RingKinds, KeepsKind
    <2>3. /\ next' \in [TaskNode -> TaskNode] /\ prev' \in [TaskNode -> TaskNode] /\ MapPointer' \in TaskNode
          /\ given' \in [TaskNode -> Nat]
        BY <1>2, <1>7 DEF TypeOK
    <2> QED
        BY <1>6, <1>7, <2>1, <2>2, <2>3, EndFields
<1>8. CASE \E s \in Search(IF MapPhase(MapFinished') THEN MapPointer ELSE ReducePointer, MapStatus', ReduceStatus') :
               /\ Found(s, MapStatus', ReduceStatus') /\ next' = s.next /\ prev' = s.prev
               /\ MapPointer' = NextPointer(s)
               /\ given' = [given EXCEPT ![s.at] = @ + 1]
               /\ worker' = [worker EXCEPT ![p] = Assigned(NamedAs(a), s.at, ReduceTasks')]
    <2>1. PICK start : start = IF MapPhase(MapFinished') THEN MapPointer ELSE ReducePointer
        OBVIOUS
    <2>2. PICK s \in Search(start, MapStatus', ReduceStatus') :
              /\ Found(s, MapStatus', ReduceStatus') /\ next' = s.next /\ prev' = s.prev /\ MapPointer' = NextPointer(s)
              /\ given' = [given EXCEPT ![s.at] = @ + 1]
              /\ worker' = [worker EXCEPT ![p] = Assigned(NamedAs(a), s.at, ReduceTasks')]
        BY <1>8, <2>1
    <2>3. start \in TaskNode /\ KeepsKind(next) /\ KeepsKind(prev)
        BY <1>2, <2>1 DEF TypeOK, RingKinds
    <2>4. Searcher(s, Kind(start))
        BY <2>2, <2>3, SearchKeeps, Numbers
    <2>5. PICK x : x = s.at
        OBVIOUS
    <2>6. x \in TaskNode /\ ~IsHead(x) /\ Kind(x) = Kind(start) /\ KeepsKind(next') /\ KeepsKind(prev')
        BY <2>2, <2>4, <2>5 DEF Searcher, Found
    <2>7. MapPointer' \in TaskNode /\ Kind(MapPointer') = Kind(start)
        BY <2>2, <2>5, <2>6 DEF NextPointer, KeepsKind
    <2>8. given' \in [TaskNode -> Nat]
        BY <1>2, <2>2, <2>5, <2>6, SMT DEF TypeOK
    <2>9. /\ MapFinished' > 0 => Kind(start) = MapCat
          /\ ~(MapFinished' > 0) => Kind(start) = ReduceCat /\ \A t \in MapTask : MapStatus'[t]
        <3>1. MapFinished' > 0 => MapFinished > 0
            BY <1>2, <1>3, Types, Numbers, SMT
        <3>2. ~(MapFinished' > 0) => MapFinished' = 0
            BY <1>3, Numbers, SMT
        <3>3. MapFinished' = 0 => \A t \in MapTask : MapStatus'[t]
            <4>1. PICK ms : ms = MapStatus'
                OBVIOUS
            <4>2. Cardinality(Open(MapTask, ms)) = 0 <=> \A t \in MapTask : ms[t]
                BY <1>3, <4>1, OpenCount, Finite
            <4> QED
                BY <1>3, <4>1, <4>2 DEF Open
        <3> QED
            BY <1>2, <2>1, <3>1, <3>2, <3>3 DEF MapPhase, RingKinds
    <2>10. RingKinds'
        BY <1>1, <1>2, <2>6, <2>7, <2>9 DEF RingKinds, KeepsKind
    <2>11. PICK w, names : w = Assigned(NamedAs(a), x, names) /\ names = ReduceTasks'
        OBVIOUS
    <2>12. worker' = [worker EXCEPT ![p] = w]
        BY <2>2, <2>5, <2>11
    <2>13. NamedAs(a) \in WorkerId /\ NamedAs(a) # 0
        BY <1>1, IdNumber
    <2>14. /\ w \in WorkerRec /\ w.WorkerId = NamedAs(a) /\ w.Cat = Kind(x) /\ w.TaskId = x[2] /\ w.piece = 0
           /\ w.st = (IF Kind(x) = MapCat THEN "map" ELSE "reduce") /\ (Kind(x) # MapCat => w.FileNames = names)
        <3>1. PICK id : id = NamedAs(a)
            OBVIOUS
        <3>2. id \in WorkerId /\ names \in [MapTask -> WorkerId] /\ w = Assigned(id, x, names)
            BY <1>3, <2>11, <2>13, <3>1
        <3>3. /\ w \in WorkerRec /\ w.WorkerId = id /\ w.Cat = Kind(x) /\ w.TaskId = x[2] /\ w.piece = 0
              /\ w.st = (IF Kind(x) = MapCat THEN "map" ELSE "reduce") /\ (Kind(x) # MapCat => w.FileNames = names)
            BY <2>6, <3>2, AssignedFields, SMT
        <3> QED
            BY <3>1, <3>3
    <2>15. ~Completed(MapStatus', ReduceStatus', x)
        BY <2>2, <2>5 DEF Found
    <2>16. Maps(w)'
        <3>1. w.st \in {"map", "filling"} => Kind(x) = MapCat
            BY <2>14, SMT
        <3>2. Kind(x) = MapCat => x[2] \in MapTask /\ ~MapStatus'[x[2]]
            BY <2>6, <2>15, TaskOf DEF Completed, Kind
        <3>3. \A r \in ReduceTask : ~(r < 0)
            BY SMT DEF ReduceTask
        <3> QED
            BY <2>13, <2>14, <3>1, <3>2, <3>3 DEF Maps
    <2>17. Reduces(w)'
        <3>1. w.st \in {"reduce", "reducing", "writing"} => Kind(x) # MapCat /\ w.st = "reduce"
            BY <2>14, SMT
        <3>2. Kind(x) # MapCat => x[2] \in ReduceTask /\ Kind(x) = ReduceCat
            BY <2>6, TaskOf
        <3>3. Kind(x) # MapCat => \A t \in MapTask : MapStatus'[t]
            BY <2>6, <2>9
        <3> QED
            BY <2>11, <2>13, <2>14, <3>1, <3>2, <3>3 DEF Reduces
    <2>18. Reports(w)'
        BY <2>14, SMT DEF Reports
    <2> QED
        BY <1>6, <2>6, <2>7, <2>8, <2>10, <2>12, <2>14, <2>16, <2>17, <2>18 DEF KeepsKind
<1> QED
    BY <1>7, <1>8 DEF RequestHandler, NamedAs, Gone

-----------------------------------------------------------------------------
(* The results *)

(* Every step of the job keeps the invariant. *)
LEMMA JobStep ==
    ASSUME JobInv, [Next]_vars
    PROVE  JobInv'
<1>1. ASSUME NEW p \in Proc, WorkerStep(p) PROVE JobInv'
    BY <1>1, RequestHandlerInv, CallFailsInv, CreateInterInv, FillInterInv, readInterFilesInv, CreateOutInv,
       WriteOutInv DEF WorkerStep
<1>2. ASSUME NEW p \in Proc, Crash(p) PROVE JobInv'
    BY <1>2, CrashInv
<1>3. CASE MasterExits
    BY <1>3, MasterExitsInv
<1>4. CASE UNCHANGED vars
    <2>1. TypeOK'
        BY <1>4 DEF JobInv, TypeOK, vars, masterVars, statusVars, ringVars, fileVars
    <2>2. RingKinds' /\ CountInv' /\ DoneInv'
        BY <1>4 DEF JobInv, RingKinds, CountInv, DoneInv, KeepsKind, vars, masterVars, statusVars, ringVars, fileVars
    <2>3. IdsInv'
        BY <1>4 DEF JobInv, IdsInv, Distinct, Unnamed, vars, masterVars
    <2>4. WorkInv'
        BY <1>4 DEF JobInv, WorkInv, WorkAt, Maps, Reduces, Reports, vars, masterVars, statusVars, fileVars
    <2> QED
        BY <2>1, <2>2, <2>3, <2>4 DEF JobInv
<1> QED
    BY <1>1, <1>2, <1>3, <1>4 DEF Next

(* The invariant holds in every reachable state of a job. *)
THEOREM JobInvariant == Spec => []JobInv
BY JobInit, JobStep, PTL DEF Spec

(* Type correctness of the master, its workers and their files: no id     *)
(* passes the number of processes there have been, and no search leaves   *)
(* the nodes of the two rings.                                            *)
THEOREM TypeCorrect == Spec => []TypeOK
<1>1. JobInv => TypeOK
    BY DEF JobInv
<1> QED
    BY <1>1, JobInvariant, PTL

(* A reduce task is handed out only when the files of every map task are   *)
(* complete, and no worker - late, repeated or restarted - writes to them  *)
(* any more: readInterFiles finds all of them.                             *)
THEOREM ReducersReadCompleteFiles == Spec => []FilesReady
<1>1. JobInv => FilesReady
    <2> SUFFICES ASSUME JobInv, NEW p \in Proc, worker[p].st = "reduce", NEW t \in MapTask
                 PROVE  inter[t][worker[p].TaskId][worker[p].FileNames[t]] = "full"
        BY DEF FilesReady, InterFile
    <2>1. worker[p].TaskId \in ReduceTask /\ MapStatus[t] /\ worker[p].FileNames = ReduceTasks
        BY DEF JobInv, WorkInv, WorkAt, Reduces
    <2> QED
        BY <2>1 DEF JobInv, DoneInv
<1> QED
    BY <1>1, JobInvariant, PTL

(* When Done() lets the master exit, every mr-out file is there and was    *)
(* made from the output of every map task, whichever workers crashed,      *)
(* repeated a task or reported it late.                                    *)
THEOREM JobDoneIsComplete == Spec => []JobComplete
<1>1. JobInv => JobComplete
    <2> SUFFICES ASSUME JobInv, ReduceFinished = 0, NEW r \in ReduceTask
                 PROVE  result[r] = Full
        BY DEF JobComplete, Full
    <2>1. ReduceStatus \in [ReduceTask -> BOOLEAN] /\ Cardinality(Open(ReduceTask, ReduceStatus)) = 0
        BY Types DEF JobInv, CountInv
    <2>2. ReduceStatus[r]
        BY <2>1, OpenCount, Finite
    <2> QED
        BY <2>2 DEF JobInv, DoneInv
<1> QED
    BY <1>1, JobInvariant, PTL
=============================================================================
