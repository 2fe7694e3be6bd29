------------------------------- MODULE Labrpc -------------------------------
(***************************************************************************)
(* The simulated network of src/labrpc/labrpc.go: client ends that can be  *)
(* disabled, servers that can be replaced, and for each Call a goroutine   *)
(* processReq that looks the server up, runs the handler in a thread of    *)
(* its own and watches the registry while it waits.                        *)
(*                                                                         *)
(* Delays are left out: every step may be arbitrarily late, which is what  *)
(* the short delays, longDelays and longReordering do.                     *)
(***************************************************************************)
EXTENDS Integers, Sequences

CONSTANTS
    Server,         \* server names
    Call,           \* bound: the calls that are made
    MaxLives        \* bound: the instances of a server

ASSUME NetworkAssumption == MaxLives \in Nat \ {0}

Life == 1 .. MaxLives

(* ClientEnd <<i, l, j>> is the one that instance l of i has for server j, *)
(* to which it is connected for its lifetime.                              *)
End == Server \X Life \X Server

VARIABLES
    reliable,       \* rn.reliable
    enabled,        \* rn.enabled: the ends that are enabled
    servers,        \* rn.servers: the instance registered under a name, 0 if none
    net,            \* the goroutine that accepts calls: "up", "closing" (done is closed) or "gone"
    call            \* the calls: the caller, its processReq and its handler thread

netVars == <<reliable, enabled, servers, net, call>>

(* A call: where it is, its end, whether its handler is one that never     *)
(* returns; the instance and the reliability that readEndnameInfo found;   *)
(* the handler thread; what Call returns.                                  *)
NoCall == [st |-> "none", end |-> <<>>, hangs |-> FALSE, server |-> 0, reliable |-> TRUE,
           handler |-> "none", ok |-> FALSE]

Move(c, st) == call' = [call EXCEPT ![c].st = st]
Answer(c, ok) == call' = [call EXCEPT ![c].st = "answered", ![c].ok = ok]
To(c) == call[c].end[3]

(* Mutant: only the end is looked at. *)
isServerDead_EndOnly(c) == call[c].end \notin enabled

isServerDead(c) == call[c].end \notin enabled \/ servers[To(c)] # call[c].server

-----------------------------------------------------------------------------
(* ClientEnd.Call *)

StartCall(c, e, hangs) ==
    /\ call[c] = NoCall
    /\ call' = [call EXCEPT ![c] = [NoCall EXCEPT !.st = "calling", !.end = e, !.hangs = hangs]]
    /\ UNCHANGED <<reliable, enabled, servers, net>>

(* The network's goroutine takes the request, or done is closed; with both *)
(* ready either may be chosen.                                             *)
Accept(c) ==
    /\ call[c].st = "calling" /\ net # "gone"
    /\ Move(c, "accepted")
    /\ UNCHANGED <<reliable, enabled, servers, net>>

NetworkDestroyed(c) ==
    /\ call[c].st = "calling" /\ net # "up"
    /\ Move(c, "done")
    /\ UNCHANGED <<reliable, enabled, servers, net>>

(* The reply arrives on replyCh, where the caller waits. *)
Return(c) ==
    /\ call[c].st = "answered"
    /\ Move(c, "done")
    /\ UNCHANGED <<reliable, enabled, servers, net>>

-----------------------------------------------------------------------------
(* processReq *)

readEndnameInfo(c) ==
    LET server == servers[To(c)]
    IN  /\ call[c].st = "accepted"
        /\ IF call[c].end \in enabled /\ server # 0
           THEN call' = [call EXCEPT ![c].st = "delivering", ![c].server = server, ![c].reliable = reliable]
           ELSE Answer(c, FALSE)
        /\ UNCHANGED <<reliable, enabled, servers, net>>

DropRequest(c) ==
    /\ call[c].st = "delivering" /\ ~call[c].reliable
    /\ Answer(c, FALSE)
    /\ UNCHANGED <<reliable, enabled, servers, net>>

(* The handler thread starts, on the server looked up before the delay. *)
Dispatch(c) ==
    /\ call[c].st = "delivering"
    /\ call' = [call EXCEPT ![c].st = "waiting", ![c].handler = "running"]
    /\ UNCHANGED <<reliable, enabled, servers, net>>

(* It returns after it has done its work; nobody may be waiting any more. *)
HandlerReturns(c) ==
    /\ call[c].handler = "executed" /\ ~call[c].hangs
    /\ call' = [call EXCEPT ![c].handler = "returned"]
    /\ UNCHANGED <<reliable, enabled, servers, net>>

HandlerDone(c) ==
    /\ call[c].st = "waiting" /\ call[c].handler = "returned"
    /\ Move(c, "handled")
    /\ UNCHANGED <<reliable, enabled, servers, net>>

(* Mutant: the wait for the handler is not interrupted. *)
PollServer_Never(c) == FALSE /\ UNCHANGED netVars

(* Every 100 ms it looks whether the server is still there. *)
PollServer(c) ==
    /\ call[c].st = "waiting" /\ isServerDead(c)
    /\ Answer(c, FALSE)
    /\ UNCHANGED <<reliable, enabled, servers, net>>

(* The last look at the registry, after the handler has returned. *)
Reply(c) ==
    /\ call[c].st = "handled"
    /\ \/ isServerDead(c) /\ Answer(c, FALSE)
       \/ ~isServerDead(c) /\ ~call[c].reliable /\ Answer(c, FALSE)
       \/ ~isServerDead(c) /\ Answer(c, TRUE)
    /\ UNCHANGED <<reliable, enabled, servers, net>>

-----------------------------------------------------------------------------
(* The network's owner *)

Reliable(yes) ==
    /\ reliable # yes
    /\ reliable' = yes
    /\ UNCHANGED <<enabled, servers, net, call>>

Enable(ends, yes) == enabled' = IF yes THEN enabled \cup ends ELSE enabled \ ends

AddServer(i, l) == servers' = [servers EXCEPT ![i] = l]
DeleteServer(i) == servers' = [servers EXCEPT ![i] = 0]

Cleanup ==
    /\ net = "up"
    /\ net' = "closing"
    /\ UNCHANGED <<reliable, enabled, servers, call>>

LoopExits ==
    /\ net = "closing"
    /\ net' = "gone"
    /\ UNCHANGED <<reliable, enabled, servers, call>>

MakeNetwork ==
    /\ reliable = TRUE /\ enabled = {} /\ servers = [i \in Server |-> 0] /\ net = "up"
    /\ call = [c \in Call |-> NoCall]

(* What the goroutines of a call do, the handler's work excepted. *)
CallStep(c) ==
    \/ Accept(c) \/ NetworkDestroyed(c) \/ Return(c)
    \/ readEndnameInfo(c) \/ DropRequest(c) \/ Dispatch(c)
    \/ HandlerReturns(c) \/ HandlerDone(c) \/ PollServer(c) \/ Reply(c)
=============================================================================
