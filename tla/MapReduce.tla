----------------------------- MODULE MapReduce -----------------------------
(***************************************************************************)
(* The MapReduce job of src/mr: a master that hands out map and reduce     *)
(* tasks from two rings of task nodes, and worker processes that ask for a *)
(* task, leave its result in files and report it with the next request.    *)
(* Workers may crash at any point; a new process takes their place.        *)
(*                                                                         *)
(* A file is known by how much of it has been written; an output file by   *)
(* the map tasks whose pairs it was made from.                             *)
(***************************************************************************)
EXTENDS Integers, FiniteSets

CONSTANTS
    Proc,           \* worker processes that run at the same time
    NMap,           \* len(files)
    NReduce,        \* nReduce
    MaxCrashes      \* bound: crashes of workers

ASSUME JobAssumption == NMap \in Nat \ {0} /\ NReduce \in Nat \ {0} /\ MaxCrashes \in Nat /\ IsFiniteSet(Proc)

(* Cat *)
NoTask == 0
MapCat == 1
ReduceCat == 2

MapTask    == 0 .. NMap - 1
ReduceTask == 0 .. NReduce - 1
WorkerId   == 0 .. Cardinality(Proc) + MaxCrashes

(* TaskNode: a head has taskId -1. *)
MapHead    == <<MapCat, -1>>
ReduceHead == <<ReduceCat, -1>>
TaskNode   == ({MapCat} \X (MapTask \cup {-1})) \cup ({ReduceCat} \X (ReduceTask \cup {-1}))

Written == {"none", "part", "full"}

VARIABLES
    MapStatus, ReduceStatus,        \* the tasks that are done
    MapFinished, ReduceFinished,    \* how many are not
    ReduceTasks,                    \* the worker that did each map task
    next, prev,                     \* the links of the task nodes
    MapPointer, ReducePointer,      \* where the next search starts
    workers,                        \* the number of ids given out
    up,                             \* the master process is running
    worker,                         \* the worker processes
    inter,                          \* lab_interFiles/mr-<map>-<reduce>-<id>
    out,                            \* out-<reduce>-<id>
    result,                         \* mr-out-<reduce>
    given,                          \* history: how often a task was handed out
    crashes                         \* counter for the bound

statusVars == <<MapStatus, ReduceStatus, MapFinished, ReduceFinished, ReduceTasks>>
ringVars   == <<next, prev, MapPointer, ReducePointer>>
masterVars == <<statusVars, ringVars, workers, given, result>>
fileVars   == <<inter, out>>
vars == <<masterVars, up, worker, fileVars, crashes>>

(* A worker process before its first request: the initial value of args. *)
Fresh == [st |-> "calling", Cat |-> NoTask, TaskId |-> 0, Finished |-> FALSE, WorkerId |-> 0,
          piece |-> 0, FileNames |-> [t \in MapTask |-> 0], pairs |-> {}]
NoFile == [st |-> "none", of |-> {}]

-----------------------------------------------------------------------------
(* The rings *)

(* Mutant: the link back is left as it was. *)
DeleteNode_OneWay(r, x) == [next |-> [r.next EXCEPT ![r.prev[x]] = r.next[x]], prev |-> r.prev]

(* Mutant: the node after is unlinked as well. *)
DeleteNode_Two(r, x) ==
    [next |-> [r.next EXCEPT ![r.prev[x]] = r.next[r.next[x]]],
     prev |-> [r.prev EXCEPT ![r.next[x]] = r.prev[x]]]

DeleteNode(r, x) ==
    [next |-> [r.next EXCEPT ![r.prev[x]] = r.next[x]],
     prev |-> [r.prev EXCEPT ![r.next[x]] = r.prev[x]]]

IsHead(x) == x \in {MapHead, ReduceHead}
Completed(ms, rs, x) == IF x[1] = MapCat THEN ms[x[2]] ELSE rs[x[2]]

(* The search of assignTask: it passes heads, deletes the nodes of         *)
(* finished tasks, and stops at the first task that is not finished.       *)
Found(w, ms, rs) == ~IsHead(w.at) /\ ~Completed(ms, rs, w.at)
Advance(w, ms, rs) ==
    IF Found(w, ms, rs) THEN w
    ELSE LET r == [next |-> w.next, prev |-> w.prev]
             d == IF IsHead(w.at) THEN r ELSE DeleteNode(r, w.at)
         IN  [next |-> d.next, prev |-> d.prev, at |-> d.next[w.at]]

(* Where it is after MaxWalk nodes (as a set with one element): it passes  *)
(* no node more than twice unless it never ends.                           *)
MaxWalk == 2 * Cardinality(TaskNode)
Search(start, ms, rs) ==
    LET Walk[n \in 0 .. MaxWalk] ==
            IF n = 0 THEN {[next |-> next, prev |-> prev, at |-> start]}
            ELSE {Advance(w, ms, rs) : w \in Walk[n - 1]}
    IN  Walk[MaxWalk]

-----------------------------------------------------------------------------
(* The master *)

(* The report of a map task is the first. *)
ReportsMap(a) == a.Finished /\ a.Cat = MapCat /\ ~MapStatus[a.TaskId]

(* Mutant: a late output replaces the one that was taken. *)
ReportsReduce_Again(a) == a.Finished /\ a.Cat = ReduceCat

ReportsReduce(a) == a.Finished /\ a.Cat = ReduceCat /\ ~ReduceStatus[a.TaskId]

(* Mutant: the count is compared off by one. *)
MapPhase_Last(mf) == mf >= 0

(* Map tasks are handed out until all of them are finished. *)
MapPhase(mf) == mf > 0

NextPointer(s) == s.next[s.at]

(* The worker with its new task. *)
Assigned(id, x, names) ==
    [st |-> IF x[1] = MapCat THEN "map" ELSE "reduce", Cat |-> x[1], TaskId |-> x[2], Finished |-> FALSE,
     WorkerId |-> id, piece |-> 0, FileNames |-> IF x[1] = MapCat THEN Fresh.FileNames ELSE names, pairs |-> {}]

(* RequestHandler: one critical section of m.mu.  The report of the last   *)
(* task is taken, then the next task is assigned.  A reduce task also moves *)
(* MapPointer, and leaves ReducePointer where it is.                       *)
RequestHandler(p) ==
    LET a == worker[p]
        ms == IF ReportsMap(a) THEN [MapStatus EXCEPT ![a.TaskId] = TRUE] ELSE MapStatus
        rs == IF ReportsReduce(a) THEN [ReduceStatus EXCEPT ![a.TaskId] = TRUE] ELSE ReduceStatus
        mf == IF ReportsMap(a) THEN MapFinished - 1 ELSE MapFinished
        rf == IF ReportsReduce(a) THEN ReduceFinished - 1 ELSE ReduceFinished
        id == IF a.WorkerId = 0 THEN workers + 1 ELSE a.WorkerId
    IN  /\ up /\ a.st = "calling"
        /\ MapStatus' = ms /\ ReduceStatus' = rs /\ MapFinished' = mf /\ ReduceFinished' = rf
        /\ ReduceTasks' = IF ReportsMap(a) THEN [ReduceTasks EXCEPT ![a.TaskId] = a.WorkerId] ELSE ReduceTasks
        /\ result' = IF ReportsReduce(a) THEN [result EXCEPT ![a.TaskId] = out[a.TaskId][a.WorkerId]] ELSE result
        /\ out' = IF ReportsReduce(a) THEN [out EXCEPT ![a.TaskId][a.WorkerId] = NoFile] ELSE out
        /\ workers' = IF a.WorkerId = 0 THEN workers + 1 ELSE workers
        /\ \/ \E s \in Search(IF MapPhase(mf) THEN MapPointer ELSE ReducePointer, ms, rs) :
                 /\ MapPhase(mf) \/ rf > 0
                 /\ Found(s, ms, rs)
                 /\ next' = s.next /\ prev' = s.prev
                 /\ MapPointer' = NextPointer(s)
                 /\ given' = [given EXCEPT ![s.at] = @ + 1]
                 /\ worker' = [worker EXCEPT ![p] = Assigned(id, s.at, ReduceTasks')]
           \/ /\ ~MapPhase(mf) /\ rf = 0
              /\ worker' = [worker EXCEPT ![p] = [Fresh EXCEPT !.st = "gone"]]
              /\ UNCHANGED <<next, prev, MapPointer, given>>
        /\ UNCHANGED <<ReducePointer, up, inter, crashes>>

(* The master's main sees Done() and exits. *)
MasterExits ==
    /\ up /\ MapFinished = 0 /\ ReduceFinished = 0
    /\ up' = FALSE
    /\ UNCHANGED <<masterVars, worker, fileVars, crashes>>

-----------------------------------------------------------------------------
(* The workers *)

(* Mutant: the name does not contain the worker's id. *)
InterId_Shared(p) == 1

(* The last part of the names of the files mapTask creates. *)
InterId(p) == worker[p].WorkerId

(* mapTask creates the file of one reduce task after the other, which      *)
(* empties a file of that name, and fills it.                              *)
CreateInter(p) ==
    /\ worker[p].st = "map"
    /\ inter' = [inter EXCEPT ![worker[p].TaskId][worker[p].piece][InterId(p)] = "part"]
    /\ worker' = [worker EXCEPT ![p].st = "filling"]
    /\ UNCHANGED <<masterVars, up, out, crashes>>

(* The worker goes on to the next file; after the last it reports. *)
AfterFill(a, last) ==
    [a EXCEPT !.st = IF last THEN "calling" ELSE "map", !.Finished = last, !.piece = IF last THEN 0 ELSE @ + 1]

FillInter(p) ==
    LET a == worker[p]
    IN  /\ a.st = "filling"
        /\ inter' = [inter EXCEPT ![a.TaskId][a.piece][InterId(p)] = "full"]
        /\ worker' = [worker EXCEPT ![p] = AfterFill(a, a.piece = NReduce - 1)]
        /\ UNCHANGED <<masterVars, up, out, crashes>>

(* readInterFiles reads what the files of all map tasks contain; a file    *)
(* that cannot be opened ends the process (see FilesReady).                *)
InterFile(p, t) == inter[t][worker[p].TaskId][worker[p].FileNames[t]]
readInterFiles(p) ==
    /\ worker[p].st = "reduce"
    /\ \A t \in MapTask : InterFile(p, t) # "none"
    /\ worker' = [worker EXCEPT ![p] = [worker[p] EXCEPT !.st = "reducing",
                                                         !.pairs = {t \in MapTask : InterFile(p, t) = "full"}]]
    /\ UNCHANGED <<masterVars, up, fileVars, crashes>>

CreateOut(p) ==
    /\ worker[p].st = "reducing"
    /\ out' = [out EXCEPT ![worker[p].TaskId][worker[p].WorkerId] = [st |-> "part", of |-> {}]]
    /\ worker' = [worker EXCEPT ![p].st = "writing"]
    /\ UNCHANGED <<masterVars, up, inter, crashes>>

WriteOut(p) ==
    /\ worker[p].st = "writing"
    /\ out' = [out EXCEPT ![worker[p].TaskId][worker[p].WorkerId] = [st |-> "full", of |-> worker[p].pairs]]
    /\ worker' = [worker EXCEPT ![p] = [worker[p] EXCEPT !.st = "calling", !.Finished = TRUE, !.pairs = {},
                                                         !.FileNames = Fresh.FileNames]]
    /\ UNCHANGED <<masterVars, up, inter, crashes>>

(* The master has gone: the worker cannot dial it and exits. *)
CallFails(p) ==
    /\ ~up /\ worker[p].st = "calling"
    /\ worker' = [worker EXCEPT ![p] = [Fresh EXCEPT !.st = "gone"]]
    /\ UNCHANGED <<masterVars, up, fileVars, crashes>>

(* A worker dies and another process is started. *)
Crash(p) ==
    /\ crashes < MaxCrashes /\ worker[p].st # "gone"
    /\ crashes' = crashes + 1
    /\ worker' = [worker EXCEPT ![p] = Fresh]
    /\ UNCHANGED <<masterVars, up, fileVars>>

-----------------------------------------------------------------------------
(* MakeMaster: AddNode has put each task before the head of its ring. *)
NextOf(x) ==
    LET n == IF x[1] = MapCat THEN NMap ELSE NReduce
    IN  <<x[1], IF x[2] = n - 1 THEN -1 ELSE x[2] + 1>>

Init ==
    /\ MapStatus = [t \in MapTask |-> FALSE] /\ ReduceStatus = [r \in ReduceTask |-> FALSE]
    /\ MapFinished = NMap /\ ReduceFinished = NReduce
    /\ ReduceTasks = [t \in MapTask |-> 0]
    /\ next = [x \in TaskNode |-> NextOf(x)]
    /\ prev = [x \in TaskNode |-> CHOOSE y \in TaskNode : NextOf(y) = x]
    /\ MapPointer = NextOf(MapHead) /\ ReducePointer = NextOf(ReduceHead)
    /\ workers = 0 /\ up = TRUE
    /\ worker = [p \in Proc |-> Fresh]
    /\ inter = [t \in MapTask |-> [r \in ReduceTask |-> [w \in WorkerId |-> "none"]]]
    /\ out = [r \in ReduceTask |-> [w \in WorkerId |-> NoFile]]
    /\ result = [r \in ReduceTask |-> NoFile]
    /\ given = [x \in TaskNode |-> 0]
    /\ crashes = 0

WorkerStep(p) ==
    \/ RequestHandler(p) \/ CallFails(p)
    \/ CreateInter(p) \/ FillInter(p)
    \/ readInterFiles(p) \/ CreateOut(p) \/ WriteOut(p)

Next ==
    \/ \E p \in Proc : WorkerStep(p)
    \/ \E p \in Proc : Crash(p)
    \/ MasterExits

Spec == Init /\ [][Next]_vars

(* Every process that can go on does. *)
FairSpec == Spec /\ WF_vars(MasterExits) /\ \A p \in Proc : WF_vars(WorkerStep(p))

-----------------------------------------------------------------------------
(* Properties *)

(* Every variable holds a value of its type. *)
File == [st : Written, of : SUBSET MapTask]
TypeOK ==
    /\ MapStatus \in [MapTask -> BOOLEAN] /\ ReduceStatus \in [ReduceTask -> BOOLEAN]
    /\ MapFinished \in 0 .. NMap /\ ReduceFinished \in 0 .. NReduce
    /\ ReduceTasks \in [MapTask -> WorkerId]
    /\ next \in [TaskNode -> TaskNode] /\ prev \in [TaskNode -> TaskNode]
    /\ MapPointer \in TaskNode /\ ReducePointer \in TaskNode
    /\ workers \in WorkerId /\ up \in BOOLEAN
    /\ worker \in [Proc -> [st : {"calling", "map", "filling", "reduce", "reducing", "writing", "gone"},
                            Cat : {NoTask, MapCat, ReduceCat}, TaskId : MapTask \cup ReduceTask,
                            Finished : BOOLEAN, WorkerId : WorkerId, piece : ReduceTask,
                            FileNames : [MapTask -> WorkerId], pairs : SUBSET MapTask]]
    /\ inter \in [MapTask -> [ReduceTask -> [WorkerId -> Written]]]
    /\ out \in [ReduceTask -> [WorkerId -> File]] /\ result \in [ReduceTask -> File]
    /\ given \in [TaskNode -> Nat] /\ crashes \in 0 .. MaxCrashes

(* When Done() tells the master's main to exit, every mr-out file exists   *)
(* and was made from the output of every map task - whichever workers      *)
(* crashed, repeated a task or reported it late.                           *)
JobComplete ==
    MapFinished = 0 /\ ReduceFinished = 0 => \A r \in ReduceTask : result[r] = [st |-> "full", of |-> MapTask]

(* A reduce task reads only files that are complete and that no worker is  *)
(* writing any more: readInterFiles always opens them.                     *)
FilesReady ==
    \A p \in Proc : worker[p].st = "reduce" => \A t \in MapTask : InterFile(p, t) = "full"

(* As long as the master has tasks to hand out, the search of assignTask,  *)
(* which runs with m.mu held, ends.                                        *)
SearchEnds ==
    MapFinished > 0 \/ ReduceFinished > 0 =>
        \A s \in Search(IF MapFinished > 0 THEN MapPointer ELSE ReducePointer, MapStatus, ReduceStatus) :
            Found(s, MapStatus, ReduceStatus)

(* The nodes one reaches from a head. *)
Ring(head) ==
    LET Reach[n \in 0 .. Cardinality(TaskNode)] ==
            IF n = 0 THEN {head} ELSE Reach[n - 1] \cup {next[x] : x \in Reach[n - 1]}
    IN  Reach[Cardinality(TaskNode)]

(* The rings stay linked both ways and hold every task that is not         *)
(* finished, although the reduce search starts at a node that has been     *)
(* deleted and deletes it again.                                           *)
RingsSound ==
    /\ \A x \in Ring(MapHead) \cup Ring(ReduceHead) : prev[next[x]] = x
    /\ \A t \in MapTask : ~MapStatus[t] => <<MapCat, t>> \in Ring(MapHead)
    /\ \A r \in ReduceTask : ~ReduceStatus[r] => <<ReduceCat, r>> \in Ring(ReduceHead)

(* Map tasks are handed out in turn: none a second time more than another  *)
(* that is not finished either.                                            *)
MapInTurn ==
    \A t, u \in MapTask : ~MapStatus[t] /\ ~MapStatus[u] => given[<<MapCat, t>>] <= given[<<MapCat, u>>] + 1

(* So are reduce tasks: when the search comes by the head, all of them have *)
(* been handed out (the comment at src/mr/master.go:137).                  *)
ReduceInTurn ==
    \A t, u \in ReduceTask :
        ~ReduceStatus[t] /\ ~ReduceStatus[u] => given[<<ReduceCat, t>>] <= given[<<ReduceCat, u>>] + 1

(* The job ends, if processes keep running and new ones replace the ones   *)
(* that crash.                                                             *)
JobEnds == <>(~up)
============================================================================
