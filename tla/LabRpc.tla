------------------------------- MODULE LabRpc -------------------------------
(***************************************************************************)
(* The RPC simulator of labrpc/labrpc.go, the persisters of                *)
(* raft/persister.go, and the test harness of raft/config.go that crashes, *)
(* restarts and partitions servers.  The harness of raft-lock does the     *)
(* same in the same order, and has clerks, whose client ends it leaves     *)
(* alone when it shuts a server down.                                      *)
(*                                                                         *)
(* A crash does not stop an instance of a server: its goroutines go on,    *)
(* and the harness can only keep them from being heard.  Each instance     *)
(* has its memory and the persister it was made with.  What a handler      *)
(* does is abstracted to what all those of raft.go have in common: it      *)
(* changes the memory, saves all of it, and returns.                       *)
(*                                                                         *)
(* Each call is handled by a goroutine of processReq and one that runs the *)
(* handler; critical sections of rn.mu are single steps.  The network is   *)
(* unreliable: every request and reply may be late or dropped.             *)
(*                                                                         *)
(* A Slip_ operator is the definition after it with a likely mistake; it   *)
(* only serves to confirm that a property would notice it.                 *)
(***************************************************************************)
EXTENDS Integers, Sequences

CONSTANTS
    Node,      \* servers, which also call each other
    Clerk,     \* callers that are no servers
    MaxCalls,  \* bound: calls made
    MaxOps     \* bound: crash1, start1, connect and disconnect done by the test

ASSUME CallersAssumption == Node \cap Clerk = {}
ASSUME RpcBoundAssumption == MaxCalls \in Nat /\ MaxOps \in Nat

VARIABLES
    calls,      \* the calls made so far, in order
    enabled,    \* rn.enabled, as a set of end names
    servers,    \* rn.servers: the instance registered, or 0
    done,       \* rn.done is closed
    listening,  \* the goroutine of MakeNetwork runs
    memory,     \* memory[i][k]: calls executed by instance k of server i
    persister,  \* persister[i]: contents of the persisters made for i, in order
    uses,       \* uses[i][k]: the persister of instance k of server i
    endnames,   \* generation of the names in cfg.endnames[i]
    connected,  \* cfg.connected
    script,     \* what is left of the harness function being executed
    target,     \* and the server it is executed for
    todo,       \* ends that connect or disconnect has still to switch
    ops

netVars     == <<enabled, servers, done, listening>>
storeVars   == <<memory, persister>>
harnessVars == <<endnames, connected, script, target, todo, ops, uses>>
vars == <<calls, netVars, storeVars, harnessVars>>

\* The name of a client end: its owner, when it was generated, and its server.
EndName == [from : Node \cup Clerk, gen : Nat, to : Node]

Last(s) == s[Len(s)]
Instance(i) == Len(memory[i])          \* the latest instance of server i
CallId == 1 .. MaxCalls

\* Where the goroutine of a call is.
CallPc == {"calling",   \* Call tries to hand the request to the network
           "accepted",  \* processReq read the server and may delay the request
           "waiting",   \* processReq waits for the handler
           "replied",   \* processReq has the reply of the handler
           "sending",   \* a positive reply is on its way
           "true", "false"}   \* Call has returned
HandlerPc == {"none", "running", "returned", "ended"}

CallRecord == [by : Nat, end : EndName, pc : CallPc, server : Nat, handler : HandlerPc,
               drain : BOOLEAN]

-----------------------------------------------------------------------------
(* Client ends *)

Step(c, pcs, next) ==
    /\ c \in DOMAIN calls
    /\ calls[c].pc \in pcs
    /\ calls' = [calls EXCEPT ![c] = next]

\* Instance k of a server, the latest or one that was crashed, or a clerk, calls
\* server j on the end it was made with.
Call(from, k, gen, j) ==
    /\ Len(calls) < MaxCalls
    /\ from # j
    /\ calls' = Append(calls, [by |-> k, end |-> [from |-> from, gen |-> gen, to |-> j],
                               pc |-> "calling", server |-> 0, handler |-> "none",
                               drain |-> FALSE])
    /\ UNCHANGED <<netVars, storeVars, harnessVars>>

\* The select of Call: the network was cleaned up.
Slip_CallAfterCleanup(c) == FALSE
CallAfterCleanup(c) ==
    /\ done
    /\ Step(c, {"calling"}, [calls[c] EXCEPT !.pc = "false"])
    /\ UNCHANGED <<netVars, storeVars, harnessVars>>

-----------------------------------------------------------------------------
(* The network *)

Slip_isServerDead(c) ==
    \/ calls[c].end \notin enabled
    \/ servers[calls[c].end.to] = 0
isServerDead(c) ==
    \/ calls[c].end \notin enabled
    \/ servers[calls[c].end.to] # calls[c].server

\* The goroutine of MakeNetwork takes the request; processReq looks up the
\* server, and without one lets the call fail.  The slip asks only for the end.
Slip_Accept(c) ==
    LET e == calls[c].end
    IN  /\ listening
        /\ Step(c, {"calling"},
                IF e \in enabled
                THEN [calls[c] EXCEPT !.pc = "accepted", !.server = servers[e.to]]
                ELSE [calls[c] EXCEPT !.pc = "false"])
        /\ UNCHANGED <<netVars, storeVars, harnessVars>>
Accept(c) ==
    LET e == calls[c].end
    IN  /\ listening
        /\ Step(c, {"calling"},
                IF e \in enabled /\ servers[e.to] # 0
                THEN [calls[c] EXCEPT !.pc = "accepted", !.server = servers[e.to]]
                ELSE [calls[c] EXCEPT !.pc = "false"])
        /\ UNCHANGED <<netVars, storeVars, harnessVars>>

\* The request is dropped, or the reply, after the last check of the server.
Drop(c) ==
    /\ c \in DOMAIN calls
    /\ calls[c].pc = "replied" => ~isServerDead(c)
    /\ Step(c, {"accepted", "replied"}, [calls[c] EXCEPT !.pc = "false"])
    /\ UNCHANGED <<netVars, storeVars, harnessVars>>

\* A goroutine is started for the handler, on the server that was looked up.
Dispatch(c) ==
    /\ Step(c, {"accepted"}, [calls[c] EXCEPT !.pc = "waiting", !.handler = "running"])
    /\ UNCHANGED <<netVars, storeVars, harnessVars>>

\* The handler changes and saves the state of its instance, and returns.
Handle(c) ==
    LET i == calls[c].end.to
        k == calls[c].server
    IN  /\ c \in DOMAIN calls
        /\ calls[c].handler = "running"
        /\ calls' = [calls EXCEPT ![c].handler = "returned"]
        /\ memory' = [memory EXCEPT ![i][k] = @ \cup {c}]
        /\ persister' = [persister EXCEPT ![i][uses[i][k]] = memory'[i][k]]
        /\ UNCHANGED <<netVars, harnessVars>>

\* processReq receives the reply of the handler.
TakeReply(c) ==
    /\ c \in DOMAIN calls
    /\ calls[c].handler = "returned"
    /\ Step(c, {"waiting"}, [calls[c] EXCEPT !.pc = "replied", !.handler = "ended"])
    /\ UNCHANGED <<netVars, storeVars, harnessVars>>

\* The check after 100 ms: no reply is awaited from a server that is gone, and a
\* goroutine receives what the handler may still return.
Slip_Poll(c) ==
    /\ c \in DOMAIN calls
    /\ isServerDead(c)
    /\ Step(c, {"waiting"}, [calls[c] EXCEPT !.pc = "false"])
    /\ UNCHANGED <<netVars, storeVars, harnessVars>>
Poll(c) ==
    /\ c \in DOMAIN calls
    /\ isServerDead(c)
    /\ Step(c, {"waiting"}, [calls[c] EXCEPT !.pc = "false", !.drain = TRUE])
    /\ UNCHANGED <<netVars, storeVars, harnessVars>>

Drain(c) ==
    /\ c \in DOMAIN calls
    /\ calls[c].drain /\ calls[c].handler = "returned"
    /\ calls' = [calls EXCEPT ![c].drain = FALSE, ![c].handler = "ended"]
    /\ UNCHANGED <<netVars, storeVars, harnessVars>>

\* The check after the handler returned decides what the caller is told.
FinalCheck(c) ==
    /\ Step(c, {"replied"},
            [calls[c] EXCEPT !.pc = IF isServerDead(c) THEN "false" ELSE "sending"])
    /\ UNCHANGED <<netVars, storeVars, harnessVars>>

\* The reply, delayed by up to two seconds if longReordering, is received.
Deliver(c) ==
    /\ Step(c, {"sending"}, [calls[c] EXCEPT !.pc = "true"])
    /\ UNCHANGED <<netVars, storeVars, harnessVars>>

\* close(rn.done) by cleanup, when the test is over.
Cleanup ==
    /\ script = <<>>
    /\ ~done
    /\ done' = TRUE
    /\ UNCHANGED <<calls, enabled, servers, listening, storeVars, harnessVars>>

NetworkStops ==
    /\ done /\ listening
    /\ listening' = FALSE
    /\ UNCHANGED <<calls, enabled, servers, done, storeVars, harnessVars>>

-----------------------------------------------------------------------------
(* The harness *)

EndOf(i, j) == [from |-> i, gen |-> endnames[i], to |-> j]

\* connect enables the ends of i to and from connected servers.
Slip_EndsToConnect(i) == {EndOf(i, j) : j \in Node \ {i}} \cup {EndOf(j, i) : j \in Node \ {i}}
EndsToConnect(i) ==
    LET peers == connected \ {i}
    IN  {EndOf(i, j) : j \in peers} \cup {EndOf(j, i) : j \in peers}

\* disconnect disables all of them.
EndsToDisconnect(i) ==
    {EndOf(i, j) : j \in Node \ {i}} \cup {EndOf(j, i) : j \in Node \ {i}}

connect    == <<"connect", "Enable">>
disconnect == <<"disconnect", "Disable">>

\* DeleteServer comes before the persister is superseded.
crash1 == disconnect \o <<"DeleteServer", "Copy">>
start1 == crash1 \o <<"Make", "AddServer">>

Run(i, s) ==
    /\ script = <<>>
    /\ ~done
    /\ ops < MaxOps
    /\ ops' = ops + 1
    /\ script' = s
    /\ target' = i
    /\ UNCHANGED <<calls, netVars, storeVars, endnames, connected, todo, uses>>

At(step) ==
    /\ script # <<>> /\ Head(script) = step
    /\ script' = Tail(script)

Connect ==
    /\ At("connect")
    /\ connected' = connected \cup {target}
    /\ todo' = EndsToConnect(target)
    /\ UNCHANGED <<calls, netVars, storeVars, endnames, target, ops, uses>>

Disconnect ==
    /\ At("disconnect")
    /\ connected' = connected \ {target}
    /\ todo' = EndsToDisconnect(target)
    /\ UNCHANGED <<calls, netVars, storeVars, endnames, target, ops, uses>>

\* Ends are switched one at a time, each with rn.mu locked.
Enable(e) ==
    /\ script # <<>>
    /\ todo' = todo \ {e}
    /\ enabled' = IF Head(script) = "Enable" THEN enabled \cup {e} ELSE enabled \ {e}
    /\ script' = IF todo' = {} THEN Tail(script) ELSE script
    /\ UNCHANGED <<calls, servers, done, listening, storeVars, endnames, connected, target,
                   ops, uses>>

\* No other server is connected: connect has no end to switch.
NothingToEnable ==
    /\ todo = {}
    /\ At("Enable")
    /\ UNCHANGED <<calls, netVars, storeVars, endnames, connected, target, todo, ops, uses>>

DeleteServer ==
    /\ At("DeleteServer")
    /\ servers' = [servers EXCEPT ![target] = 0]
    /\ UNCHANGED <<calls, enabled, done, listening, storeVars, endnames, connected, target,
                   todo, ops, uses>>

\* A fresh persister with the content of cfg.saved[i], which it becomes.
Copy(i) == persister' = [persister EXCEPT ![i] = Append(@, Last(@))]

\* crash1, its second half.  It copies once more after Kill, when nobody else
\* has the first copy.
CopyPersister ==
    /\ At("Copy")
    /\ Copy(target)
    /\ UNCHANGED <<calls, netVars, memory, endnames, connected, target, todo, ops, uses>>

\* start1: new names for the ends of the new instance, none of them enabled, a
\* copy of the persister, and Make, which reads it.
Slip_FreshNames(gen) == gen
FreshNames(gen) == gen + 1

Make ==
    /\ At("Make")
    /\ endnames' = [endnames EXCEPT ![target] = FreshNames(@)]
    /\ Copy(target)
    /\ uses' = [uses EXCEPT ![target] = Append(@, Len(persister'[target]))]
    /\ memory' = [memory EXCEPT ![target] = Append(@, Last(persister'[target]))]
    /\ UNCHANGED <<calls, netVars, connected, target, todo, ops>>

AddServer ==
    /\ At("AddServer")
    /\ servers' = [servers EXCEPT ![target] = Instance(target)]
    /\ UNCHANGED <<calls, enabled, done, listening, storeVars, endnames, connected, target,
                   todo, ops, uses>>

-----------------------------------------------------------------------------
\* make_config has started and connected all servers; clerks are connected.
Init ==
    /\ calls = <<>>
    /\ endnames = [i \in Node |-> 1]
    /\ enabled = {[from |-> p, gen |-> 1, to |-> j] : p \in Node \cup Clerk, j \in Node}
                   \ {[from |-> i, gen |-> 1, to |-> i] : i \in Node}
    /\ servers = [i \in Node |-> 1]
    /\ done = FALSE
    /\ listening = TRUE
    /\ memory = [i \in Node |-> <<{}>>]
    /\ persister = [i \in Node |-> <<{}>>]
    /\ uses = [i \in Node |-> <<1>>]
    /\ connected = Node
    /\ script = <<>>
    /\ target \in Node
    /\ todo = {}
    /\ ops = 0

\* What the network does for a call, without the handler.
NetworkStep(c) ==
    \/ CallAfterCleanup(c) \/ Accept(c) \/ Drop(c) \/ Dispatch(c) \/ TakeReply(c)
    \/ Poll(c) \/ FinalCheck(c) \/ Deliver(c)

HarnessStep ==
    \/ Connect \/ Disconnect \/ (\E e \in todo : Enable(e)) \/ NothingToEnable
    \/ DeleteServer \/ CopyPersister \/ Make \/ AddServer

\* An end was made for one instance: number k has the names of generation k,
\* unless names are used again.
NamesOf(i, k) == IF k < endnames[i] THEN k ELSE endnames[i]

Next ==
    \/ \E i, j \in Node : \E k \in 1 .. Instance(i) : Call(i, k, NamesOf(i, k), j)
    \/ \E p \in Clerk, j \in Node : Call(p, 1, 1, j)
    \/ \E c \in CallId : NetworkStep(c) \/ Handle(c) \/ Drain(c)
    \/ \E i \in Node : Run(i, connect) \/ Run(i, disconnect) \/ Run(i, crash1) \/ Run(i, start1)
    \/ HarnessStep
    \/ Cleanup
    \/ NetworkStops

\* The goroutines of the network run; a handler need not return.
Fairness == \A c \in CallId : WF_vars(NetworkStep(c)) /\ WF_vars(Drain(c))

Spec == Init /\ [][Next]_vars /\ Fairness

-----------------------------------------------------------------------------
(* Properties *)

\* Every variable holds values of its kind.
Types ==
    /\ calls \in Seq(CallRecord)
    /\ enabled \subseteq EndName
    /\ servers \in [Node -> Nat]
    /\ done \in BOOLEAN /\ listening \in BOOLEAN
    /\ memory \in [Node -> Seq(SUBSET CallId)]
    /\ persister \in [Node -> Seq(SUBSET CallId)]
    /\ uses \in [Node -> Seq(Nat)]
    /\ endnames \in [Node -> Nat]
    /\ connected \subseteq Node
    /\ target \in Node
    /\ todo \subseteq EndName

\* A call that was accepted is for an instance of its server that was made.
ServerFound ==
    \A c \in DOMAIN calls :
        calls[c].pc = "accepted" \/ calls[c].handler # "none" =>
            calls[c].server \in 1 .. Instance(calls[c].end.to)

\* The types of the variables; no handler is called on the nil that rn.servers has for
\* a server that was deleted and not started again.  The ends of clerks stay enabled
\* then, so that only the test of server against nil is in the way (labrpc.go:223).
TypeOK == Types /\ ServerFound

\* processReq and crash1: a server whose handler's positive reply is on its way or
\* was received has the effect of the call in the persister that its next
\* instance is made from, although instances that were crashed go on handling
\* requests and saving their state.
PositiveReplyDurable ==
    \A c \in DOMAIN calls :
        calls[c].pc \in {"sending", "true"} => c \in Last(persister[calls[c].end.to])

\* start1: the network accepts no call of an instance that was superseded.
OldInstanceIsolated ==
    [][\A c \in DOMAIN calls :
          (calls[c].pc = "calling" /\ calls'[c].pc = "accepted" /\ calls[c].end.from \in Node)
              => calls[c].by = Instance(calls[c].end.from)]_vars

\* connect and disconnect: between harness functions two servers can call each
\* other if and only if both are connected.
PartitionRespected ==
    script = <<>> =>
        \A i, j \in Node : i # j => (EndOf(i, j) \in enabled <=> {i, j} \subseteq connected)

Made(c) == c \in DOMAIN calls
Returned(c) == Made(c) /\ calls[c].pc \in {"true", "false"}
HandlerIs(c, pc) == Made(c) /\ calls[c].handler = pc
HandlerHangs(c) == HandlerIs(c, "running") /\ ~isServerDead(c)

\* sendRequestVote's comment: Call returns unless the handler does not; it does
\* so even then if the server is crashed or cut off, and when the network is
\* cleaned up.
CallReturns ==
    \A c \in CallId :
        \/ Made(c) ~> Returned(c)
        \/ <>[]HandlerHangs(c)

\* processReq: the goroutine of a handler that returns ends, also when its reply
\* comes after the call was given up.
DispatchEnds ==
    \A c \in CallId : HandlerIs(c, "returned") ~> HandlerIs(c, "ended")

=============================================================================
