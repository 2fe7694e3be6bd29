------------------------------ MODULE Cluster ------------------------------
(***************************************************************************)
(* The cluster that src/raft/config.go runs on the network of Labrpc: it   *)
(* crashes and restarts servers and takes them off the network, while the  *)
(* servers call each other.  An instance cannot really be stopped: after   *)
(* its crash its handlers and goroutines run on, on the Persister and the  *)
(* client ends that they have.  A handler here is one that writes what it  *)
(* was told to its Persister before it answers, as Raft's do.              *)
(***************************************************************************)
EXTENDS Labrpc

VARIABLES
    cfg,            \* where the test's goroutine is, and on which server
    lives,          \* the number of instances made of each server
    running,        \* cfg.rafts[i] # nil
    connected,      \* cfg.connected
    endnames,       \* cfg.endnames[i]: the ends of this instance, 0 if nil
    heap,           \* the Persister objects made for a server: the calls each one has recorded
    saved,          \* cfg.saved[i], 0 if nil
    persister       \* the Persister of an instance

cfgVars == <<cfg, lives, running, connected, endnames, heap, saved, persister>>
vars == <<netVars, cfgVars>>

(* cfg.saved[i] becomes a new Persister with the given contents. *)
MakePersister(i, contents) ==
    /\ heap' = [heap EXCEPT ![i] = Append(@, contents)]
    /\ saved' = [saved EXCEPT ![i] = Len(heap[i]) + 1]

(* Mutant: the object is kept. *)
Copy_Alias(i) == UNCHANGED <<heap, saved>>

Copy(i) == MakePersister(i, heap[i][saved[i]])

(* The ends, among those cfg knows, from i to J and from J to i. *)
Ends(i, J) ==
    {<<p[1], endnames[p[1]], p[2]>> : p \in {q \in ({i} \X J) \cup (J \X {i}) : endnames[q[1]] # 0}}

-----------------------------------------------------------------------------
(* The servers *)

(* An instance, crashed or not, calls another server. *)
InstanceCalls(c, i, l, j, hangs) ==
    /\ i # j /\ l <= lives[i]
    /\ StartCall(c, <<i, l, j>>, hangs)
    /\ UNCHANGED cfgVars

(* The handler writes to the Persister of its instance. *)
Execute(c) ==
    LET i == To(c)
        ps == persister[<<i, call[c].server>>]
    IN  /\ call[c].handler = "running"
        /\ call' = [call EXCEPT ![c].handler = "executed"]
        /\ heap' = [heap EXCEPT ![i][ps] = @ \cup {c}]
        /\ UNCHANGED <<reliable, enabled, servers, net, cfg, lives, running, connected, endnames, saved, persister>>

-----------------------------------------------------------------------------
(* The test's goroutine *)

Idle == [step |-> "idle"]
At(step) == cfg.step = step
Go(step) == cfg' = [cfg EXCEPT !.step = step]

(* The server is cut off in both directions. *)
CutOff(i) == connected' = [connected EXCEPT ![i] = FALSE] /\ Enable(Ends(i, Server), FALSE)

disconnect(i) ==
    /\ cfg = Idle /\ connected[i]
    /\ CutOff(i)
    /\ UNCHANGED <<reliable, servers, net, call, cfg, lives, running, endnames, heap, saved, persister>>

(* Mutant: the peers need not be connected. *)
Reachable_All(i) == Server

(* The servers that i gets connected with. *)
Reachable(i) == {j \in Server : connected[j]} \cup {i}

connect(i) ==
    /\ cfg = Idle /\ running[i] /\ ~connected[i]
    /\ connected' = [connected EXCEPT ![i] = TRUE]
    /\ Enable(Ends(i, Reachable(i)), TRUE)
    /\ UNCHANGED <<reliable, servers, net, call, cfg, lives, running, endnames, heap, saved, persister>>

(* crash1, alone or as the first thing start1 does. *)
crash1(i, restart) ==
    /\ cfg = Idle
    /\ IF restart THEN lives[i] < MaxLives ELSE running[i]
    /\ CutOff(i)
    /\ cfg' = [step |-> "delete", i |-> i, restart |-> restart]
    /\ UNCHANGED <<reliable, servers, net, call, lives, running, endnames, heap, saved, persister>>

CrashDelete ==
    /\ At("delete")
    /\ DeleteServer(cfg.i)
    /\ Go("save")
    /\ UNCHANGED <<reliable, enabled, net, call, lives, running, connected, endnames, heap, saved, persister>>

(* A fresh Persister with the raft state, in case the old instance still   *)
(* writes to its own; the copy made before the Kill is seen by nobody.     *)
(* Kill only sets a flag.                                                  *)
CrashSave ==
    /\ At("save")
    /\ IF saved[cfg.i] = 0 THEN UNCHANGED <<heap, saved>> ELSE Copy(cfg.i)
    /\ running' = [running EXCEPT ![cfg.i] = FALSE]
    /\ IF cfg.restart THEN Go("ends") ELSE cfg' = Idle
    /\ UNCHANGED <<netVars, lives, connected, endnames, persister>>

(* start1 goes on: new ends, connected to their servers but not enabled,   *)
(* and a Persister of its own, ...                                         *)
StartEnds ==
    /\ At("ends")
    /\ endnames' = [endnames EXCEPT ![cfg.i] = lives[cfg.i] + 1]
    /\ IF saved[cfg.i] = 0 THEN MakePersister(cfg.i, {}) ELSE Copy(cfg.i)
    /\ Go("make")
    /\ UNCHANGED <<netVars, lives, running, connected, persister>>

(* ... the instance, which may call others from now on, ... *)
StartMake ==
    LET new == lives[cfg.i] + 1
    IN  /\ At("make")
        /\ lives' = [lives EXCEPT ![cfg.i] = new]
        /\ running' = [running EXCEPT ![cfg.i] = TRUE]
        /\ persister' = [persister EXCEPT ![<<cfg.i, new>>] = saved[cfg.i]]
        /\ Go("add")
        /\ UNCHANGED <<netVars, connected, endnames, heap, saved>>

(* ... and its registration. *)
StartAdd ==
    /\ At("add")
    /\ AddServer(cfg.i, lives[cfg.i])
    /\ cfg' = Idle
    /\ UNCHANGED <<reliable, enabled, net, call, lives, running, connected, endnames, heap, saved, persister>>

(* cleanup: the instances are killed and the network is destroyed. *)
cleanup ==
    /\ cfg = Idle
    /\ Cleanup
    /\ UNCHANGED cfgVars

-----------------------------------------------------------------------------
(* make_config begins: nothing has been started. *)
Init ==
    /\ MakeNetwork
    /\ cfg = Idle
    /\ lives = [i \in Server |-> 0] /\ running = [i \in Server |-> FALSE]
    /\ connected = [i \in Server |-> FALSE] /\ endnames = [i \in Server |-> 0]
    /\ heap = [i \in Server |-> <<>>] /\ saved = [i \in Server |-> 0]
    /\ persister = [x \in Server \X Life |-> 0]

CallNext(c) == Execute(c) \/ (CallStep(c) /\ UNCHANGED cfgVars)

(* What the test's goroutine does once it has called start1 or crash1. *)
CfgNext == CrashDelete \/ CrashSave \/ StartEnds \/ StartMake \/ StartAdd

Next ==
    \/ \E c \in Call, i, j \in Server, l \in Life, hangs \in BOOLEAN : InstanceCalls(c, i, l, j, hangs)
    \/ \E c \in Call : CallNext(c)
    \/ \E i \in Server : connect(i) \/ disconnect(i)
    \/ \E i \in Server, restart \in BOOLEAN : crash1(i, restart)
    \/ CfgNext
    \/ \E yes \in BOOLEAN : Reliable(yes) /\ UNCHANGED cfgVars
    \/ cleanup
    \/ LoopExits /\ UNCHANGED cfgVars

Spec == Init /\ [][Next]_vars

(* Goroutines that can go on do; a handler does its work. *)
FairSpec == Spec /\ (\A c \in Call : WF_vars(CallNext(c))) /\ WF_vars(LoopExits /\ UNCHANGED cfgVars)

-----------------------------------------------------------------------------
(* Properties *)

Instance == {x \in Server \X Life : x[2] <= lives[x[1]]}

(* Every variable holds a value of its type. *)
TypeOK ==
    /\ reliable \in BOOLEAN /\ enabled \subseteq End /\ servers \in [Server -> 0 .. MaxLives]
    /\ net \in {"up", "closing", "gone"}
    /\ \A c \in Call :
          /\ call[c].st \in {"none", "calling", "accepted", "delivering", "waiting", "handled", "answered", "done"}
          /\ call[c].st # "none" => call[c].end \in End
          /\ call[c].handler \in {"none", "running", "executed", "returned"}
    /\ lives \in [Server -> 0 .. MaxLives] /\ endnames \in [Server -> 0 .. MaxLives]
    /\ running \in [Server -> BOOLEAN] /\ connected \in [Server -> BOOLEAN]
    /\ \A i \in Server :
          /\ heap[i] \in Seq(SUBSET Call) /\ saved[i] \in 0 .. Len(heap[i])
          /\ \A l \in 1 .. lives[i] : persister[<<i, l>>] \in 1 .. Len(heap[i])

(* What a caller was told has happened survives every crash: when Call has *)
(* returned true, the handler's writes are in the Persister from which the *)
(* server will be restarted (labrpc.go: "this is needed to avoid situation *)
(* in which a client gets a positive reply to an Append, but the server    *)
(* persisted the update into the old Persister").                          *)
AckedKept == \A c \in Call : call[c].st = "done" /\ call[c].ok => c \in heap[To(c)][saved[To(c)]]

(* No two instances write to one Persister, and none that has crashed      *)
(* writes to the one that the next instance will get (config.go: "so old   *)
(* instance doesn't overwrite new instance's persisted state").            *)
OneWriter ==
    /\ \A x, y \in Instance : x[1] = y[1] /\ persister[x] = persister[y] => x = y
    /\ \A x \in Instance : saved[x[1]] = persister[x] => x[2] = lives[x[1]]

(* An instance that has crashed can start no RPC: none of its requests     *)
(* gets past readEndnameInfo any more, whoever is connected afterwards     *)
(* (config.go: "so that old crashed instance's ClientEnds can't send").    *)
CrashedSilent ==
    [][\A c \in Call :
          call[c].st = "accepted" /\ call'[c].st = "delivering" =>
              LET i == call[c].end[1] IN running[i] /\ call[c].end[2] = lives[i]]_vars

(* Call returns, unless the handler does not, and even then once the       *)
(* server is gone for good (labrpc.go: "Call() is guaranteed to return     *)
(* (perhaps after a delay) *except* if the handler function on the server  *)
(* side does not return").                                                 *)
CallReturns ==
    \A c \in Call :
        [](~call[c].hangs) \/ <>[](call[c].st = "waiting" => isServerDead(c))
            => (call[c].st = "calling" ~> call[c].st = "done")
============================================================================
