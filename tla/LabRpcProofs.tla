---------------------------- MODULE LabRpcProofs ----------------------------
(***************************************************************************)
(* Safety of the RPC simulator of labrpc/labrpc.go and of the harness of   *)
(* raft/config.go, for any servers, clerks and numbers of calls, crashes   *)
(* and restarts.                                                           *)
(*                                                                         *)
(* The argument: an instance of a server and its persister belong to each  *)
(* other, a registered instance has the latest of both, and the names of   *)
(* client ends that are enabled are those of the latest instances.         *)
(***************************************************************************)
EXTENDS LabRpc, TLAPS

-----------------------------------------------------------------------------
(* The inductive invariant *)

\* What can be left of connect, disconnect, crash1 and start1.
Scripts ==
    {<<>>, <<"connect", "Enable">>, <<"Enable">>, <<"disconnect", "Disable">>, <<"Disable">>,
     <<"disconnect", "Disable", "DeleteServer", "Copy">>, <<"Disable", "DeleteServer", "Copy">>,
     <<"DeleteServer", "Copy">>, <<"Copy">>,
     <<"disconnect", "Disable", "DeleteServer", "Copy", "Make", "AddServer">>,
     <<"Disable", "DeleteServer", "Copy", "Make", "AddServer">>,
     <<"DeleteServer", "Copy", "Make", "AddServer">>, <<"Copy", "Make", "AddServer">>,
     <<"Make", "AddServer">>, <<"AddServer">>}

\* What the harness does next.
Phase == IF script = <<>> THEN "none" ELSE Head(script)

\* The harness has disconnected a server before it crashes it, and has it
\* unregistered before it touches its persister.
HarnessRight ==
    /\ script \in Scripts
    /\ todo # {} => Phase \in {"Enable", "Disable"}
    /\ Phase = "Enable" => target \in connected
    /\ Phase \in {"Disable", "DeleteServer", "Copy", "Make", "AddServer"} => target \notin connected
    /\ Phase \in {"Copy", "Make", "AddServer"} => servers[target] = 0
    /\ Phase = "AddServer" => uses[target][Instance(target)] = Len(persister[target])

\* An end that is enabled, or is being switched, has a name of the latest instance.
NamesRight ==
    \A e \in enabled \cup todo :
        e.from \in Node => e.gen = endnames[e.from] /\ e.from # e.to

\* Two servers can call each other iff both are connected, but for the ends that
\* connect or disconnect has still to switch.
EndRight(i, j) ==
    /\ EndOf(i, j) \notin todo => (EndOf(i, j) \in enabled <=> {i, j} \subseteq connected)
    /\ EndOf(i, j) \in todo => ({i, j} \subseteq connected <=> Phase = "Enable")

EndsRight == \A i, j \in Node : i # j => EndRight(i, j)

\* Every instance has saved its memory in the persister it was made with, which no
\* other has; a server that is registered is the latest instance, and has the latest
\* persister.
StoreRight(i) ==
    /\ Len(persister[i]) >= 1 /\ Len(memory[i]) >= 1
    /\ Len(uses[i]) = Len(memory[i]) /\ endnames[i] = Len(memory[i])
    /\ \A k \in 1 .. Len(memory[i]) :
        uses[i][k] \in 1 .. Len(persister[i]) /\ persister[i][uses[i][k]] = memory[i][k]
    /\ \A k, m \in 1 .. Len(memory[i]) : uses[i][k] = uses[i][m] => k = m
    /\ servers[i] # 0 => servers[i] = Len(memory[i]) /\ uses[i][Len(memory[i])] = Len(persister[i])

\* A call was made on an end of its instance; its handler ran at the instance that
\* was looked up, and has its effect there; a positive reply is durable.
CallRight(c, r) ==
    /\ r.end.from \in Node => r.end.gen = r.by
    /\ r.pc = "accepted" \/ r.handler # "none" => r.server \in 1 .. Len(memory[r.end.to])
    /\ r.pc \in {"calling", "accepted"} => r.handler = "none"
    /\ r.pc \in {"replied", "sending", "true"} => r.handler = "ended"
    /\ r.handler \in {"returned", "ended"} => c \in memory[r.end.to][r.server]
    /\ r.pc \in {"sending", "true"} => c \in Last(persister[r.end.to])

Inv ==
    /\ Types
    /\ HarnessRight
    /\ NamesRight
    /\ EndsRight
    /\ \A i \in Node : StoreRight(i)
    /\ \A c \in DOMAIN calls : CallRight(c, calls[c])

-----------------------------------------------------------------------------
(* Facts about sequences *)

\* Appending to a sequence.
LEMMA AppendFacts ==
    ASSUME NEW S, NEW q \in Seq(S), NEW x \in S
    PROVE  /\ Append(q, x) \in Seq(S)
           /\ Len(Append(q, x)) = Len(q) + 1
           /\ DOMAIN Append(q, x) = 1 .. Len(q) + 1
           /\ DOMAIN q = 1 .. Len(q)
           /\ \A k \in 1 .. Len(q) : Append(q, x)[k] = q[k]
           /\ Append(q, x)[Len(q) + 1] = x
           /\ Last(Append(q, x)) = x
BY DEF Last

\* Replacing an element.
LEMMA ReplaceFacts ==
    ASSUME NEW S, NEW q \in Seq(S), NEW k \in 1 .. Len(q), NEW x \in S
    PROVE  /\ [q EXCEPT ![k] = x] \in Seq(S)
           /\ Len([q EXCEPT ![k] = x]) = Len(q)
           /\ DOMAIN [q EXCEPT ![k] = x] = DOMAIN q
           /\ [q EXCEPT ![k] = x][k] = x
           /\ \A m \in 1 .. Len(q) : m # k => [q EXCEPT ![k] = x][m] = q[m]
OBVIOUS

-----------------------------------------------------------------------------
(* Facts about the harness's functions *)

PhaseOf(s) == IF s = <<>> THEN "none" ELSE Head(s)

\* In which order the harness does things.
LEMMA ScriptOrder ==
    ASSUME NEW s \in Scripts, s # <<>>
    PROVE  /\ Tail(s) \in Scripts
           /\ Head(s) = "connect" => PhaseOf(Tail(s)) = "Enable"
           /\ Head(s) = "disconnect" => PhaseOf(Tail(s)) = "Disable"
           /\ Head(s) = "Enable" => PhaseOf(Tail(s)) = "none"
           /\ Head(s) = "Disable" => PhaseOf(Tail(s)) \in {"none", "DeleteServer"}
           /\ Head(s) = "DeleteServer" => PhaseOf(Tail(s)) = "Copy"
           /\ Head(s) = "Copy" => PhaseOf(Tail(s)) \in {"none", "Make"}
           /\ Head(s) = "Make" => PhaseOf(Tail(s)) = "AddServer"
           /\ Head(s) = "AddServer" => PhaseOf(Tail(s)) = "none"
           /\ Head(s) # "none"
<1>1. CASE s = <<"connect", "Enable">>
  <2>1. Head(s) = "connect" /\ Tail(s) = <<"Enable">>
    BY <1>1
  <2>2. <<"Enable">> \in Scripts /\ <<"Enable">> # <<>> /\ Head(<<"Enable">>) = "Enable"
    BY DEF Scripts
  <2>. QED  BY <2>1, <2>2 DEF PhaseOf
<1>2. CASE s = <<"Enable">>
  <2>1. Head(s) = "Enable" /\ Tail(s) = <<>>
    BY <1>2
  <2>2. <<>> \in Scripts
    BY DEF Scripts
  <2>. QED  BY <2>1, <2>2 DEF PhaseOf
<1>3. CASE s = <<"disconnect", "Disable">>
  <2>1. Head(s) = "disconnect" /\ Tail(s) = <<"Disable">>
    BY <1>3
  <2>2. <<"Disable">> \in Scripts /\ <<"Disable">> # <<>> /\ Head(<<"Disable">>) = "Disable"
    BY DEF Scripts
  <2>. QED  BY <2>1, <2>2 DEF PhaseOf
<1>4. CASE s = <<"Disable">>
  <2>1. Head(s) = "Disable" /\ Tail(s) = <<>>
    BY <1>4
  <2>2. <<>> \in Scripts
    BY DEF Scripts
  <2>. QED  BY <2>1, <2>2 DEF PhaseOf
<1>5. CASE s = <<"disconnect", "Disable", "DeleteServer", "Copy">>
  <2>1. Head(s) = "disconnect" /\ Tail(s) = <<"Disable", "DeleteServer", "Copy">>
    BY <1>5
  <2>2. <<"Disable", "DeleteServer", "Copy">> \in Scripts /\ <<"Disable", "DeleteServer", "Copy">> # <<>> /\ Head(<<"Disable", "DeleteServer", "Copy">>) = "Disable"
    BY DEF Scripts
  <2>. QED  BY <2>1, <2>2 DEF PhaseOf
<1>6. CASE s = <<"Disable", "DeleteServer", "Copy">>
  <2>1. Head(s) = "Disable" /\ Tail(s) = <<"DeleteServer", "Copy">>
    BY <1>6
  <2>2. <<"DeleteServer", "Copy">> \in Scripts /\ <<"DeleteServer", "Copy">> # <<>> /\ Head(<<"DeleteServer", "Copy">>) = "DeleteServer"
    BY DEF Scripts
  <2>. QED  BY <2>1, <2>2 DEF PhaseOf
<1>7. CASE s = <<"DeleteServer", "Copy">>
  <2>1. Head(s) = "DeleteServer" /\ Tail(s) = <<"Copy">>
    BY <1>7
  <2>2. <<"Copy">> \in Scripts /\ <<"Copy">> # <<>> /\ Head(<<"Copy">>) = "Copy"
    BY DEF Scripts
  <2>. QED  BY <2>1, <2>2 DEF PhaseOf
<1>8. CASE s = <<"Copy">>
  <2>1. Head(s) = "Copy" /\ Tail(s) = <<>>
    BY <1>8
  <2>2. <<>> \in Scripts
    BY DEF Scripts
  <2>. QED  BY <2>1, <2>2 DEF PhaseOf
<1>9. CASE s = <<"disconnect", "Disable", "DeleteServer", "Copy", "Make", "AddServer">>
  <2>1. Head(s) = "disconnect" /\ Tail(s) = <<"Disable", "DeleteServer", "Copy", "Make", "AddServer">>
    BY <1>9
  <2>2. <<"Disable", "DeleteServer", "Copy", "Make", "AddServer">> \in Scripts /\ <<"Disable", "DeleteServer", "Copy", "Make", "AddServer">> # <<>> /\ Head(<<"Disable", "DeleteServer", "Copy", "Make", "AddServer">>) = "Disable"
    BY DEF Scripts
  <2>. QED  BY <2>1, <2>2 DEF PhaseOf
<1>10. CASE s = <<"Disable", "DeleteServer", "Copy", "Make", "AddServer">>
  <2>1. Head(s) = "Disable" /\ Tail(s) = <<"DeleteServer", "Copy", "Make", "AddServer">>
    BY <1>10
  <2>2. <<"DeleteServer", "Copy", "Make", "AddServer">> \in Scripts /\ <<"DeleteServer", "Copy", "Make", "AddServer">> # <<>> /\ Head(<<"DeleteServer", "Copy", "Make", "AddServer">>) = "DeleteServer"
    BY DEF Scripts
  <2>. QED  BY <2>1, <2>2 DEF PhaseOf
<1>11. CASE s = <<"DeleteServer", "Copy", "Make", "AddServer">>
  <2>1. Head(s) = "DeleteServer" /\ Tail(s) = <<"Copy", "Make", "AddServer">>
    BY <1>11
  <2>2. <<"Copy", "Make", "AddServer">> \in Scripts /\ <<"Copy", "Make", "AddServer">> # <<>> /\ Head(<<"Copy", "Make", "AddServer">>) = "Copy"
    BY DEF Scripts
  <2>. QED  BY <2>1, <2>2 DEF PhaseOf
<1>12. CASE s = <<"Copy", "Make", "AddServer">>
  <2>1. Head(s) = "Copy" /\ Tail(s) = <<"Make", "AddServer">>
    BY <1>12
  <2>2. <<"Make", "AddServer">> \in Scripts /\ <<"Make", "AddServer">> # <<>> /\ Head(<<"Make", "AddServer">>) = "Make"
    BY DEF Scripts
  <2>. QED  BY <2>1, <2>2 DEF PhaseOf
<1>13. CASE s = <<"Make", "AddServer">>
  <2>1. Head(s) = "Make" /\ Tail(s) = <<"AddServer">>
    BY <1>13
  <2>2. <<"AddServer">> \in Scripts /\ <<"AddServer">> # <<>> /\ Head(<<"AddServer">>) = "AddServer"
    BY DEF Scripts
  <2>. QED  BY <2>1, <2>2 DEF PhaseOf
<1>14. CASE s = <<"AddServer">>
  <2>1. Head(s) = "AddServer" /\ Tail(s) = <<>>
    BY <1>14
  <2>2. <<>> \in Scripts
    BY DEF Scripts
  <2>. QED  BY <2>1, <2>2 DEF PhaseOf
<1>. QED  BY <1>1, <1>2, <1>3, <1>4, <1>5, <1>6, <1>7, <1>8, <1>9, <1>10, <1>11, <1>12, <1>13, <1>14 DEF Scripts

\* A function of the harness begins with connect or disconnect.
LEMMA ScriptStart ==
    ASSUME NEW s \in {connect, disconnect, crash1, start1}
    PROVE  s \in Scripts /\ s # <<>> /\ PhaseOf(s) \in {"connect", "disconnect"}
BY DEF Scripts, PhaseOf, connect, disconnect, crash1, start1

-----------------------------------------------------------------------------
(* Steps of calls *)

\* The fields of a call.
LEMMA CallFields ==
    ASSUME Types, NEW c \in DOMAIN calls
    PROVE  /\ calls[c] \in CallRecord
           /\ calls[c].by \in Nat /\ calls[c].server \in Nat
           /\ calls[c].pc \in CallPc /\ calls[c].handler \in HandlerPc /\ calls[c].drain \in BOOLEAN
           /\ calls[c].end \in EndName /\ calls[c].end.to \in Node
<1>1. calls[c] \in CallRecord
  BY DEF Types
<1>2. /\ calls[c].by \in Nat /\ calls[c].server \in Nat
      /\ calls[c].pc \in CallPc /\ calls[c].handler \in HandlerPc /\ calls[c].drain \in BOOLEAN
      /\ calls[c].end \in EndName
  BY <1>1 DEF CallRecord
<1>3. calls[c].end.to \in Node
  BY <1>2 DEF EndName
<1>. QED  BY <1>1, <1>2, <1>3

\* Instances and what they and their persisters have are only added to.
Grows ==
    \A i \in Node :
        /\ Len(memory[i]) <= Len(memory'[i])
        /\ \A k \in 1 .. Len(memory[i]) : memory[i][k] \subseteq memory'[i][k]
        /\ Last(persister[i]) \subseteq Last(persister'[i])

\* What is right for a call stays right.
LEMMA CallStays ==
    ASSUME Types, Types', Grows, NEW c \in DOMAIN calls, calls'[c] = calls[c],
           CallRight(c, calls[c])
    PROVE  CallRight(c, calls[c])'
<1>. DEFINE r == calls[c]
<1>1. r.end.to \in Node /\ r.pc \in CallPc /\ r.handler \in HandlerPc /\ r.server \in Nat
  BY CallFields
<1>2. memory \in [Node -> Seq(SUBSET CallId)] /\ memory' \in [Node -> Seq(SUBSET CallId)]
  BY DEF Types
<1>3. Len(memory[r.end.to]) \in Nat /\ Len(memory'[r.end.to]) \in Nat
  BY <1>1, <1>2
<1>4. r' = r
  OBVIOUS
<1>5. /\ Len(memory[r.end.to]) <= Len(memory'[r.end.to])
      /\ \A k \in 1 .. Len(memory[r.end.to]) : memory[r.end.to][k] \subseteq memory'[r.end.to][k]
      /\ Last(persister[r.end.to]) \subseteq Last(persister'[r.end.to])
  BY <1>1 DEF Grows
<1>6. CallRight(c, r)
  OBVIOUS
<1>. HIDE DEF r
<1>7. r.pc = "accepted" \/ r.handler # "none" => r.server \in 1 .. Len(memory'[r.end.to])
  BY <1>1, <1>3, <1>5, <1>6 DEF CallRight
<1>8. r.handler \in {"returned", "ended"} => c \in memory'[r.end.to][r.server]
  BY <1>5, <1>6 DEF CallRight
<1>9. r.pc \in {"sending", "true"} => c \in Last(persister'[r.end.to])
  BY <1>5, <1>6 DEF CallRight
<1>10. CallRight(c, r)'
  BY <1>4, <1>6, <1>7, <1>8, <1>9 DEF CallRight, Last
<1>. QED  BY <1>10 DEF r

\* A step that touches one call and nothing else.
LEMMA OneCall ==
    ASSUME Inv, NEW c \in DOMAIN calls, NEW next \in CallRecord,
           calls' = [calls EXCEPT ![c] = next], CallRight(c, next),
           UNCHANGED <<netVars, storeVars, harnessVars>>
    PROVE  Inv'
<1>1. UNCHANGED <<enabled, servers, done, listening, memory, persister, endnames, connected,
                  script, target, todo, ops, uses>>
  BY DEF netVars, storeVars, harnessVars
<1>2. calls \in Seq(CallRecord)
  BY DEF Inv, Types
<1>3. /\ calls' \in Seq(CallRecord) /\ DOMAIN calls' = DOMAIN calls
      /\ calls'[c] = next
      /\ \A d \in DOMAIN calls : d # c => calls'[d] = calls[d]
  BY <1>2
<1>4. Types'
  BY <1>1, <1>3 DEF Inv, Types
<1>5. HarnessRight' /\ NamesRight'
  BY <1>1 DEF Inv, HarnessRight, NamesRight, Phase, Instance
<1>6. EndsRight'
  BY <1>1 DEF Inv, EndsRight, EndRight, EndOf, Phase
<1>7. \A i \in Node : StoreRight(i)'
  BY <1>1 DEF Inv, StoreRight
<1>8. ASSUME NEW d \in DOMAIN calls
      PROVE  CallRight(d, calls[d])'
  <2>1. CASE d = c
    <3>1. CallRight(c, calls'[c])
      BY <1>3
    <3>. QED  BY <1>1, <2>1, <3>1 DEF CallRight, Last
  <2>2. CASE d # c
    <3>1. calls'[d] = calls[d] /\ CallRight(d, calls[d])
      BY <1>3, <2>2 DEF Inv
    <3>2. Grows
      BY <1>1 DEF Grows, Inv, Types
    <3>. QED  BY <1>4, <3>1, <3>2, CallStays DEF Inv
  <2>. QED  BY <2>1, <2>2
<1>. QED  BY <1>3, <1>4, <1>5, <1>6, <1>7, <1>8 DEF Inv

\* Everything a network step of a call can make of it.
LEMMA NetworkOneCall ==
    ASSUME Inv, NEW c \in CallId, NetworkStep(c) \/ Drain(c)
    PROVE  Inv'
<1>1. c \in DOMAIN calls /\ UNCHANGED <<netVars, storeVars, harnessVars>>
  BY DEF NetworkStep, Drain, CallAfterCleanup, Accept, Drop, Dispatch, TakeReply, Poll,
         FinalCheck, Deliver, Step
<1>. DEFINE r == calls[c]
<1>2. /\ Types /\ r \in CallRecord /\ r.end.to \in Node /\ r.server \in Nat
      /\ CallRight(c, r) /\ StoreRight(r.end.to)
  BY <1>1, CallFields DEF Inv
<1>3. CallPc = {"calling", "accepted", "waiting", "replied", "sending", "true", "false"}
      /\ HandlerPc = {"none", "running", "returned", "ended"}
  BY DEF CallPc, HandlerPc
<1>4. ASSUME NEW next \in CallRecord, calls' = [calls EXCEPT ![c] = next], CallRight(c, next)
      PROVE  Inv'
  BY <1>1, <1>4, OneCall
<1>5. CASE CallAfterCleanup(c) \/ Drop(c)
  <2>. DEFINE next == [r EXCEPT !.pc = "false"]
  <2>1. calls' = [calls EXCEPT ![c] = next]
    BY <1>5 DEF CallAfterCleanup, Drop, Step
  <2>2. next \in CallRecord /\ CallRight(c, next)
    BY <1>2, <1>3 DEF CallRecord, CallRight
  <2>. QED  BY <1>4, <2>1, <2>2
<1>6. CASE Accept(c)
  <2>1. CASE r.end \in enabled /\ servers[r.end.to] # 0
    <3>. DEFINE next == [r EXCEPT !.pc = "accepted", !.server = servers[r.end.to]]
    <3>1. calls' = [calls EXCEPT ![c] = next] /\ r.pc = "calling"
      BY <1>6, <2>1 DEF Accept, Step
    <3>2. servers[r.end.to] \in Nat /\ servers[r.end.to] \in 1 .. Len(memory[r.end.to])
      <4>1. servers[r.end.to] \in Nat /\ memory[r.end.to] \in Seq(SUBSET CallId)
        BY <1>2 DEF Types
      <4>2. servers[r.end.to] = Len(memory[r.end.to]) /\ Len(memory[r.end.to]) >= 1
        BY <1>2, <2>1 DEF StoreRight
      <4>3. Len(memory[r.end.to]) \in Nat
        BY <4>1
      <4>. QED  BY <4>1, <4>2, <4>3
    <3>3. next \in CallRecord
      BY <1>2, <1>3, <3>2 DEF CallRecord
    <3>4. r.handler = "none"
      BY <1>2, <3>1 DEF CallRight
    <3>5. CallRight(c, next)
      BY <1>2, <3>2, <3>4 DEF CallRecord, CallRight
    <3>. QED  BY <1>4, <3>1, <3>3, <3>5
  <2>2. CASE ~(r.end \in enabled /\ servers[r.end.to] # 0)
    <3>. DEFINE next == [r EXCEPT !.pc = "false"]
    <3>1. calls' = [calls EXCEPT ![c] = next]
      BY <1>6, <2>2 DEF Accept, Step
    <3>2. next \in CallRecord /\ CallRight(c, next)
      BY <1>2, <1>3 DEF CallRecord, CallRight
    <3>. QED  BY <1>4, <3>1, <3>2
  <2>. QED  BY <2>1, <2>2
<1>7. CASE Dispatch(c)
  <2>. DEFINE next == [r EXCEPT !.pc = "waiting", !.handler = "running"]
  <2>1. calls' = [calls EXCEPT ![c] = next] /\ r.pc = "accepted"
    BY <1>7 DEF Dispatch, Step
  <2>2. next \in CallRecord /\ CallRight(c, next)
    BY <1>2, <1>3, <2>1 DEF CallRecord, CallRight
  <2>. QED  BY <1>4, <2>1, <2>2
<1>8. CASE TakeReply(c)
  <2>. DEFINE next == [r EXCEPT !.pc = "replied", !.handler = "ended"]
  <2>1. calls' = [calls EXCEPT ![c] = next] /\ r.handler = "returned"
    BY <1>8 DEF TakeReply, Step
  <2>2. next \in CallRecord /\ CallRight(c, next)
    BY <1>2, <1>3, <2>1 DEF CallRecord, CallRight
  <2>. QED  BY <1>4, <2>1, <2>2
<1>9. CASE Poll(c)
  <2>. DEFINE next == [r EXCEPT !.pc = "false", !.drain = TRUE]
  <2>1. calls' = [calls EXCEPT ![c] = next]
    BY <1>9 DEF Poll, Step
  <2>2. next \in CallRecord
    BY <1>2, <1>3 DEF CallRecord
  <2>3. CallRight(c, next)
    BY <1>2 DEF CallRecord, CallRight
  <2>. QED  BY <1>4, <2>1, <2>2, <2>3
<1>10. CASE FinalCheck(c)
  <2>1. r.pc = "replied"
    BY <1>10 DEF FinalCheck, Step
  <2>2. CASE isServerDead(c)
    <3>. DEFINE next == [r EXCEPT !.pc = "false"]
    <3>1. calls' = [calls EXCEPT ![c] = next]
      BY <1>10, <2>2 DEF FinalCheck, Step
    <3>2. next \in CallRecord /\ CallRight(c, next)
      BY <1>2, <1>3 DEF CallRecord, CallRight
    <3>. QED  BY <1>4, <3>1, <3>2
  <2>3. CASE ~isServerDead(c)
    <3>. DEFINE next == [r EXCEPT !.pc = "sending"]
    <3>1. calls' = [calls EXCEPT ![c] = next]
      BY <1>10, <2>3 DEF FinalCheck, Step
    <3>2. /\ r.handler = "ended" /\ r.server \in 1 .. Len(memory[r.end.to])
          /\ c \in memory[r.end.to][r.server]
      BY <1>2, <2>1 DEF CallRight
    <3>3. servers[r.end.to] = r.server
      BY <2>3 DEF isServerDead
    <3>4. c \in Last(persister[r.end.to])
      <4>. DEFINE i == r.end.to
      <4>1. servers[i] # 0
        BY <3>2, <3>3
      <4>2. servers[i] = Len(memory[i]) /\ uses[i][Len(memory[i])] = Len(persister[i])
        BY <1>2, <4>1 DEF StoreRight
      <4>3. persister[i][uses[i][r.server]] = memory[i][r.server]
        BY <1>2, <3>2 DEF StoreRight
      <4>4. persister[i][Len(persister[i])] = memory[i][r.server]
        BY <3>3, <4>2, <4>3
      <4>. QED  BY <3>2, <4>4 DEF Last
    <3>5. next \in CallRecord /\ CallRight(c, next)
      BY <1>2, <1>3, <3>2, <3>4 DEF CallRecord, CallRight
    <3>. QED  BY <1>4, <3>1, <3>5
  <2>. QED  BY <2>2, <2>3
<1>11. CASE Deliver(c)
  <2>. DEFINE next == [r EXCEPT !.pc = "true"]
  <2>1. calls' = [calls EXCEPT ![c] = next] /\ r.pc = "sending"
    BY <1>11 DEF Deliver, Step
  <2>2. next \in CallRecord /\ CallRight(c, next)
    BY <1>2, <1>3, <2>1 DEF CallRecord, CallRight
  <2>. QED  BY <1>4, <2>1, <2>2
<1>12. CASE Drain(c)
  <2>. DEFINE next == [r EXCEPT !.drain = FALSE, !.handler = "ended"]
  <2>1. calls' = [calls EXCEPT ![c] = next] /\ r.handler = "returned"
    BY <1>1, <1>2, <1>12 DEF Drain, Types
  <2>2. next \in CallRecord
    BY <1>2, <1>3 DEF CallRecord
  <2>3. CallRight(c, next)
    BY <1>2, <2>1 DEF CallRecord, CallRight
  <2>. QED  BY <1>4, <2>1, <2>2, <2>3
<1>. QED  BY <1>5, <1>6, <1>7, <1>8, <1>9, <1>10, <1>11, <1>12 DEF NetworkStep

\* A call is made by an instance, or by a clerk.
LEMMA CallInv ==
    ASSUME Inv, NEW p \in Node \cup Clerk, NEW k \in Nat, NEW gen \in Nat, NEW j \in Node,
           p \in Node => gen = k, Call(p, k, gen, j)
    PROVE  Inv'
<1>. DEFINE end == [from |-> p, gen |-> gen, to |-> j]
            new == [by |-> k, end |-> end, pc |-> "calling", server |-> 0, handler |-> "none",
                    drain |-> FALSE]
<1>1. /\ calls' = Append(calls, new)
      /\ UNCHANGED <<enabled, servers, done, listening, memory, persister, endnames, connected,
                     script, target, todo, ops, uses>>
  BY DEF Call, netVars, storeVars, harnessVars
<1>2. end \in EndName
  BY DEF EndName
<1>3. new \in CallRecord
  BY <1>2 DEF CallRecord, CallPc, HandlerPc
<1>4. new.pc = "calling" /\ new.handler = "none" /\ new.end.from = p /\ new.end.gen = gen /\ new.by = k
  OBVIOUS
<1>5. Types /\ calls \in Seq(CallRecord)
  BY DEF Inv, Types
<1>. HIDE DEF new, end
<1>6. /\ calls' \in Seq(CallRecord) /\ DOMAIN calls = 1 .. Len(calls) /\ Len(calls) \in Nat
      /\ DOMAIN calls' = 1 .. Len(calls) + 1
      /\ calls'[Len(calls) + 1] = new
      /\ \A d \in 1 .. Len(calls) : calls'[d] = calls[d]
  BY <1>1, <1>3, <1>5, AppendFacts
<1>7. Types'
  BY <1>1, <1>5, <1>6 DEF Types
<1>8. HarnessRight' /\ NamesRight'
  BY <1>1 DEF Inv, HarnessRight, NamesRight, Phase, Instance
<1>9. EndsRight'
  BY <1>1 DEF Inv, EndsRight, EndRight, EndOf, Phase
<1>10. \A i \in Node : StoreRight(i)'
  BY <1>1 DEF Inv, StoreRight
<1>11. ASSUME NEW d \in DOMAIN calls'
       PROVE  CallRight(d, calls[d])'
  <2>1. CASE d = Len(calls) + 1
    <3>1. calls'[d] = new
      BY <1>6, <2>1
    <3>. QED  BY <1>4, <3>1 DEF CallRight
  <2>2. CASE d # Len(calls) + 1
    <3>1. d \in DOMAIN calls /\ calls'[d] = calls[d]
      BY <1>6, <2>2
    <3>2. Grows
      BY <1>1 DEF Grows, Inv, Types
    <3>. QED  BY <1>5, <1>7, <3>1, <3>2, CallStays DEF Inv
  <2>. QED  BY <2>1, <2>2
<1>. QED  BY <1>7, <1>8, <1>9, <1>10, <1>11 DEF Inv

\* A handler executes at its instance, latest or not, and saves into its persister.
LEMMA HandleInv ==
    ASSUME Inv, NEW c \in CallId, Handle(c)
    PROVE  Inv'
<1>. DEFINE r == calls[c]
            i == r.end.to
            k == r.server
            u == uses[i][k]
            new == memory[i][k] \cup {c}
            next == [r EXCEPT !.handler = "returned"]
<1>1. /\ c \in DOMAIN calls /\ r.handler = "running"
      /\ calls' = [calls EXCEPT ![c].handler = "returned"]
      /\ memory' = [memory EXCEPT ![i][k] = new]
      /\ persister' = [persister EXCEPT ![i][u] = memory'[i][k]]
      /\ UNCHANGED <<enabled, servers, done, listening, endnames, connected,
                     script, target, todo, ops, uses>>
  BY DEF Handle, netVars, harnessVars
<1>2. /\ Types /\ r \in CallRecord /\ i \in Node /\ k \in Nat
      /\ CallRight(c, r) /\ StoreRight(i)
  BY <1>1, CallFields DEF Inv
<1>3. /\ calls \in Seq(CallRecord)
      /\ memory \in [Node -> Seq(SUBSET CallId)] /\ persister \in [Node -> Seq(SUBSET CallId)]
      /\ memory[i] \in Seq(SUBSET CallId) /\ persister[i] \in Seq(SUBSET CallId)
      /\ uses[i] \in Seq(Nat)
  BY <1>2 DEF Types
<1>4. k \in 1 .. Len(memory[i])
  BY <1>1, <1>2 DEF CallRight
<1>5. u \in 1 .. Len(persister[i]) /\ persister[i][u] = memory[i][k]
  BY <1>2, <1>4 DEF StoreRight
<1>. DEFINE mem == [memory[i] EXCEPT ![k] = new]
            per == [persister[i] EXCEPT ![u] = new]
            S == SUBSET CallId
<1>a. memory[i] \in Seq(S) /\ persister[i] \in Seq(S)
  BY <1>3
<1>b. new \in S
  <2>1. memory[i][k] \in S
    <3>. HIDE DEF S
    <3>. QED  BY <1>a, <1>4
  <2>. QED  BY <2>1
<1>6. /\ mem \in Seq(SUBSET CallId) /\ Len(mem) = Len(memory[i]) /\ mem[k] = new
      /\ \A m \in 1 .. Len(memory[i]) : m # k => mem[m] = memory[i][m]
  <2>. HIDE DEF S, new, k, i
  <2>1. /\ mem \in Seq(S) /\ Len(mem) = Len(memory[i]) /\ mem[k] = new
        /\ \A m \in 1 .. Len(memory[i]) : m # k => mem[m] = memory[i][m]
    BY <1>4, <1>a, <1>b, ReplaceFacts
  <2>. QED  BY <2>1 DEF S
<1>7. /\ per \in Seq(SUBSET CallId) /\ Len(per) = Len(persister[i]) /\ per[u] = new
      /\ \A m \in 1 .. Len(persister[i]) : m # u => per[m] = persister[i][m]
  <2>. HIDE DEF S, new, u, i
  <2>1. /\ per \in Seq(S) /\ Len(per) = Len(persister[i]) /\ per[u] = new
        /\ \A m \in 1 .. Len(persister[i]) : m # u => per[m] = persister[i][m]
    BY <1>5, <1>a, <1>b, ReplaceFacts
  <2>. QED  BY <2>1 DEF S
<1>8. memory' = [memory EXCEPT ![i] = mem]
  BY <1>1, <1>2, <1>3
<1>9. /\ memory' \in [Node -> Seq(SUBSET CallId)] /\ memory'[i] = mem
      /\ \A j \in Node : j # i => memory'[j] = memory[j]
  <2>. HIDE DEF mem
  <2>. QED  BY <1>2, <1>3, <1>6, <1>8
<1>10. persister' = [persister EXCEPT ![i] = per]
  <2>1. memory'[i][k] = new
    BY <1>6, <1>9
  <2>. HIDE DEF new, u
  <2>. QED  BY <1>1, <1>2, <1>3, <2>1 DEF per
<1>11. /\ persister' \in [Node -> Seq(SUBSET CallId)] /\ persister'[i] = per
       /\ \A j \in Node : j # i => persister'[j] = persister[j]
  <2>. HIDE DEF per
  <2>. QED  BY <1>2, <1>3, <1>7, <1>10
<1>12. /\ calls' \in Seq(CallRecord) /\ DOMAIN calls' = DOMAIN calls
       /\ calls'[c] = next
       /\ \A d \in DOMAIN calls : d # c => calls'[d] = calls[d]
  <2>1. calls' = [calls EXCEPT ![c] = next]
    BY <1>1, <1>3
  <2>2. next \in CallRecord
    BY <1>2 DEF CallRecord, HandlerPc
  <2>3. DOMAIN calls = 1 .. Len(calls) /\ c \in 1 .. Len(calls)
    BY <1>1, <1>3
  <2>. HIDE DEF next
  <2>. QED  BY <1>3, <2>1, <2>2, <2>3, ReplaceFacts
<1>13. Types'
  BY <1>1, <1>2, <1>9, <1>11, <1>12 DEF Types
<1>14. NamesRight'
  BY <1>1 DEF Inv, NamesRight
<1>15. EndsRight'
  BY <1>1 DEF Inv, EndsRight, EndRight, EndOf, Phase
<1>16. \A j \in Node : Len(memory'[j]) = Len(memory[j]) /\ Len(persister'[j]) = Len(persister[j])
  BY <1>6, <1>7, <1>9, <1>11
<1>17. HarnessRight'
  <2>1. target \in Node
    BY <1>2 DEF Types
  <2>. QED  BY <1>1, <1>16, <2>1 DEF Inv, HarnessRight, Phase, Instance
<1>18. ASSUME NEW j \in Node
       PROVE  StoreRight(j)'
  <2>1. CASE j = i
    <3>1. \A m \in 1 .. Len(memory[i]) : per[uses[i][m]] = mem[m]
      <4>1. ASSUME NEW m \in 1 .. Len(memory[i])
            PROVE  per[uses[i][m]] = mem[m]
        <5>1. uses[i][m] \in 1 .. Len(persister[i]) /\ persister[i][uses[i][m]] = memory[i][m]
              /\ (uses[i][m] = u => m = k)
          BY <1>2, <1>4 DEF StoreRight
        <5>2. CASE m = k
          BY <1>6, <1>7, <5>2
        <5>3. CASE m # k
          BY <1>6, <1>7, <5>1, <5>3
        <5>. QED  BY <5>2, <5>3
      <4>. QED  BY <4>1
    <3>2. /\ uses' = uses /\ endnames' = endnames /\ servers' = servers
          /\ memory'[i] = mem /\ persister'[i] = per
          /\ Len(mem) = Len(memory[i]) /\ Len(per) = Len(persister[i])
      BY <1>1, <1>6, <1>7, <1>9, <1>11
    <3>. HIDE DEF mem, per, i
    <3>. QED  BY <1>2, <2>1, <3>1, <3>2 DEF StoreRight
  <2>2. CASE j # i
    <3>1. StoreRight(j)
      BY DEF Inv
    <3>2. memory'[j] = memory[j] /\ persister'[j] = persister[j]
      BY <1>9, <1>11, <2>2
    <3>3. uses'[j] = uses[j] /\ endnames'[j] = endnames[j] /\ servers'[j] = servers[j]
      BY <1>1
    <3>. HIDE DEF mem, per, i
    <3>. QED  BY <3>1, <3>2, <3>3 DEF StoreRight
  <2>. QED  BY <2>1, <2>2
<1>19. Grows
  <2>1. ASSUME NEW j \in Node
        PROVE  /\ Len(memory[j]) <= Len(memory'[j])
               /\ \A m \in 1 .. Len(memory[j]) : memory[j][m] \subseteq memory'[j][m]
               /\ Last(persister[j]) \subseteq Last(persister'[j])
    <3>0. Len(memory[j]) \in Nat
      BY <1>3
    <3>1. CASE j = i
      <4>1. \A m \in 1 .. Len(memory[i]) : memory[i][m] \subseteq mem[m]
        <5>1. memory[i][k] \subseteq new
          OBVIOUS
        <5>. HIDE DEF mem, new, k, i
        <5>. QED  BY <1>6, <5>1
      <4>2. \A m \in 1 .. Len(persister[i]) : persister[i][m] \subseteq per[m]
        <5>1. persister[i][u] \subseteq new
          BY <1>5
        <5>. HIDE DEF per, new, u, k, i
        <5>. QED  BY <1>7, <5>1
      <4>3. Len(persister[i]) \in 1 .. Len(persister[i])
        <5>1. Len(persister[i]) \in Nat
          BY <1>3
        <5>2. Len(persister[i]) >= 1
          BY <1>2 DEF StoreRight
        <5>. QED  BY <5>1, <5>2
      <4>. HIDE DEF mem, per, i
      <4>4. Len(memory[i]) <= Len(memory'[i])
        BY <1>16, <3>0, <3>1
      <4>5. Last(persister[i]) \subseteq Last(persister'[i])
        <5>1. Last(persister[i]) = persister[i][Len(persister[i])]
              /\ Last(persister'[i]) = per[Len(persister[i])]
          BY <1>11, <1>16, <3>1 DEF Last
        <5>. QED  BY <4>2, <4>3, <5>1
      <4>. QED  BY <1>9, <3>1, <4>1, <4>4, <4>5
    <3>2. CASE j # i
      <4>1. memory'[j] = memory[j] /\ persister'[j] = persister[j]
        BY <1>9, <1>11, <3>2
      <4>. HIDE DEF mem, per, i
      <4>. QED  BY <3>0, <4>1
    <3>. QED  BY <3>1, <3>2
  <2>. QED  BY <2>1 DEF Grows
<1>20. ASSUME NEW d \in DOMAIN calls
       PROVE  CallRight(d, calls[d])'
  <2>1. CASE d = c
    <3>1. /\ next.end = r.end /\ next.by = r.by /\ next.pc = r.pc /\ next.server = r.server
          /\ next.handler = "returned"
      BY <1>2 DEF CallRecord
    <3>2. r.pc \notin {"calling", "accepted", "replied", "sending", "true"}
      BY <1>1, <1>2 DEF CallRight
    <3>3. c \in memory'[i][k] /\ k \in 1 .. Len(memory'[i]) /\ (r.end.from \in Node => r.end.gen = r.by)
      BY <1>2, <1>4, <1>6, <1>9 DEF CallRight
    <3>4. calls'[c] = next
      BY <1>12
    <3>. HIDE DEF next
    <3>. QED  BY <2>1, <3>1, <3>2, <3>3, <3>4 DEF CallRight
  <2>2. CASE d # c
    BY <1>2, <1>12, <1>13, <1>19, <2>2, CallStays DEF Inv
  <2>. QED  BY <2>1, <2>2
<1>. QED  BY <1>12, <1>13, <1>14, <1>15, <1>17, <1>18, <1>20 DEF Inv

-----------------------------------------------------------------------------
(* Steps of the harness *)

\* A step that makes no call and takes nothing away from an instance.
LEMMA NoCall ==
    ASSUME Inv, Types', calls' = calls, Grows, HarnessRight', NamesRight', EndsRight',
           \A i \in Node : StoreRight(i)'
    PROVE  Inv'
<1>1. ASSUME NEW c \in DOMAIN calls
      PROVE  CallRight(c, calls[c])'
  <2>1. Types /\ CallRight(c, calls[c]) /\ calls'[c] = calls[c]
    BY DEF Inv
  <2>. QED  BY <2>1, CallStays
<1>. QED  BY <1>1 DEF Inv

\* A step that leaves instances and persisters alone.
LEMMA SameStores ==
    ASSUME Inv, UNCHANGED storeVars
    PROVE  /\ Grows
           /\ UNCHANGED <<uses, endnames, servers>> => \A i \in Node : StoreRight(i)'
<1>1. memory' = memory /\ persister' = persister /\ memory \in [Node -> Seq(SUBSET CallId)]
  BY DEF storeVars, Inv, Types
<1>2. Grows
  BY <1>1 DEF Grows
<1>3. ASSUME UNCHANGED <<uses, endnames, servers>>, NEW i \in Node
      PROVE  StoreRight(i)'
  BY <1>1, <1>3 DEF Inv, StoreRight
<1>. QED  BY <1>2, <1>3

\* The name of an end tells who calls whom.
LEMMA EndOfFacts ==
    ASSUME Types, NEW i \in Node, NEW j \in Node
    PROVE  /\ EndOf(i, j) \in EndName
           /\ EndOf(i, j).from = i /\ EndOf(i, j).gen = endnames[i] /\ EndOf(i, j).to = j
           /\ \A a, b \in Node : EndOf(a, b) = EndOf(i, j) => a = i /\ b = j
<1>1. endnames[i] \in Nat
  BY DEF Types
<1>2. EndOf(i, j) \in EndName
  BY <1>1 DEF EndOf, EndName
<1>3. EndOf(i, j).from = i /\ EndOf(i, j).gen = endnames[i] /\ EndOf(i, j).to = j
  BY DEF EndOf
<1>4. ASSUME NEW a \in Node, NEW b \in Node, EndOf(a, b) = EndOf(i, j)
      PROVE  a = i /\ b = j
  <2>1. EndOf(a, b).from = a /\ EndOf(a, b).to = b
    BY DEF EndOf
  <2>. QED  BY <1>3, <1>4, <2>1
<1>. QED  BY <1>2, <1>3, <1>4

\* The harness goes on to the next thing it does.
LEMMA Goes ==
    ASSUME Inv, NEW step, At(step)
    PROVE  /\ script # <<>> /\ Head(script) = step /\ Phase = step /\ script' = Tail(script)
           /\ script' \in Scripts /\ Phase' = PhaseOf(Tail(script))
           /\ todo # {} => step \in {"Enable", "Disable"}
BY ScriptOrder DEF At, Phase, PhaseOf, Inv, HarnessRight

\* The test runs a function of the harness.
LEMMA RunInv ==
    ASSUME Inv, NEW i \in Node, NEW s \in {connect, disconnect, crash1, start1}, Run(i, s)
    PROVE  Inv'
<1>1. /\ script = <<>> /\ script' = s /\ target' = i
      /\ UNCHANGED <<calls, enabled, servers, done, listening, storeVars, endnames, connected,
                     todo, uses>>
  BY DEF Run, netVars
<1>2. s \in Scripts /\ Phase' \in {"connect", "disconnect"} /\ Phase = "none" /\ todo = {}
  <2>1. s \in Scripts /\ s # <<>> /\ PhaseOf(s) \in {"connect", "disconnect"}
    BY ScriptStart
  <2>2. Phase = "none" /\ todo = {}
    BY <1>1 DEF Phase, Inv, HarnessRight
  <2>. QED  BY <1>1, <2>1, <2>2 DEF Phase, PhaseOf
<1>3. Types'
  BY <1>1 DEF Inv, Types, storeVars
<1>4. HarnessRight'
  BY <1>1, <1>2 DEF HarnessRight
<1>5. NamesRight'
  BY <1>1 DEF Inv, NamesRight
<1>6. EndsRight'
  BY <1>1, <1>2 DEF Inv, EndsRight, EndRight, EndOf
<1>. QED  BY <1>1, <1>3, <1>4, <1>5, <1>6, SameStores, NoCall

\* connect and disconnect work out the ends to switch.
LEMMA ConnectInv ==
    ASSUME Inv, Connect \/ Disconnect
    PROVE  Inv'
<1>1. /\ UNCHANGED <<calls, enabled, servers, done, listening, storeVars, endnames, target, uses>>
      /\ todo = {} /\ script' \in Scripts
      /\ \/ /\ Phase' = "Enable" /\ connected' = connected \cup {target}
            /\ todo' = EndsToConnect(target)
         \/ /\ Phase' = "Disable" /\ connected' = connected \ {target}
            /\ todo' = EndsToDisconnect(target)
  <2>1. CASE Connect
    <3>1. At("connect")
      BY <2>1 DEF Connect
    <3>2. Phase' = "Enable" /\ todo = {} /\ script' \in Scripts
      BY <3>1, Goes, ScriptOrder DEF Inv, HarnessRight
    <3>. QED  BY <2>1, <3>2 DEF Connect, netVars
  <2>2. CASE Disconnect
    <3>1. At("disconnect")
      BY <2>2 DEF Disconnect
    <3>2. Phase' = "Disable" /\ todo = {} /\ script' \in Scripts
      BY <3>1, Goes, ScriptOrder DEF Inv, HarnessRight
    <3>. QED  BY <2>2, <3>2 DEF Disconnect, netVars
  <2>. QED  BY <2>1, <2>2
<1>2. Types /\ target \in Node /\ connected \subseteq Node
  BY DEF Inv, Types
<1>3. ASSUME NEW e \in todo'
      PROVE  \E i, j \in Node : i # j /\ e = EndOf(i, j)
  BY <1>1, <1>2, <1>3 DEF EndsToConnect, EndsToDisconnect
<1>4. Types'
  <2>1. todo' \subseteq EndName
    BY <1>2, <1>3, EndOfFacts
  <2>. QED  BY <1>1, <1>2, <2>1 DEF Types, storeVars
<1>5. HarnessRight'
  BY <1>1, <1>2 DEF HarnessRight
<1>6. NamesRight'
  <2>1. ASSUME NEW e \in enabled' \cup todo', e.from \in Node
        PROVE  e.gen = endnames'[e.from] /\ e.from # e.to
    <3>1. CASE e \in enabled'
      BY <1>1, <2>1, <3>1 DEF Inv, NamesRight
    <3>2. CASE e \in todo'
      <4>1. PICK i, j \in Node : i # j /\ e = EndOf(i, j)
        BY <1>3, <3>2
      <4>. QED  BY <1>1, <1>2, <4>1, EndOfFacts
    <3>. QED  BY <2>1, <3>1, <3>2
  <2>. QED  BY <2>1 DEF NamesRight
<1>7. ASSUME NEW i \in Node, NEW j \in Node, i # j
      PROVE  EndRight(i, j)'
  <2>1. EndOf(i, j)' = EndOf(i, j) /\ (EndOf(i, j) \in enabled <=> {i, j} \subseteq connected)
    BY <1>1, <1>7 DEF EndOf, Inv, EndsRight, EndRight
  <2>2. CASE /\ Phase' = "Enable" /\ connected' = connected \cup {target}
             /\ todo' = EndsToConnect(target)
    <3>1. EndOf(i, j) \in todo' <=> \/ i = target /\ j \in connected
                                    \/ j = target /\ i \in connected
      BY <1>2, <1>7, <2>2, EndOfFacts DEF EndsToConnect
    <3>. QED  BY <1>1, <1>7, <2>1, <2>2, <3>1 DEF EndRight
  <2>3. CASE /\ Phase' = "Disable" /\ connected' = connected \ {target}
             /\ todo' = EndsToDisconnect(target)
    <3>1. EndOf(i, j) \in todo' <=> i = target \/ j = target
      BY <1>2, <1>7, <2>3, EndOfFacts DEF EndsToDisconnect
    <3>. QED  BY <1>1, <1>7, <2>1, <2>3, <3>1 DEF EndRight
  <2>. QED  BY <1>1, <2>2, <2>3
<1>8. EndsRight'
  BY <1>7 DEF EndsRight
<1>. QED  BY <1>1, <1>4, <1>5, <1>6, <1>8, SameStores, NoCall

\* An end is switched.
LEMMA EnableInv ==
    ASSUME Inv, NEW e \in todo, Enable(e)
    PROVE  Inv'
<1>1. /\ UNCHANGED <<calls, servers, done, listening, storeVars, endnames, connected, target, uses>>
      /\ todo' = todo \ {e} /\ script # <<>>
      /\ enabled' = IF Head(script) = "Enable" THEN enabled \cup {e} ELSE enabled \ {e}
      /\ script' = IF todo' = {} THEN Tail(script) ELSE script
  BY DEF Enable
<1>2. Phase \in {"Enable", "Disable"} /\ Head(script) = Phase /\ script \in Scripts
  BY <1>1 DEF Inv, HarnessRight, Phase
<1>3. /\ script' \in Scripts
      /\ todo' # {} => Phase' = Phase
      /\ Phase = "Enable" => Phase' \in {"Enable", "none"}
      /\ Phase = "Disable" => Phase' \in {"Disable", "none", "DeleteServer"}
  <2>1. CASE todo' = {}
    BY <1>1, <1>2, <2>1, ScriptOrder DEF Phase, PhaseOf
  <2>2. CASE todo' # {}
    BY <1>1, <1>2, <2>2 DEF Phase
  <2>. QED  BY <2>1, <2>2
<1>4. Types'
  BY <1>1 DEF Inv, Types, storeVars
<1>5. HarnessRight'
  BY <1>1, <1>2, <1>3 DEF Inv, HarnessRight
<1>6. NamesRight'
  BY <1>1 DEF Inv, NamesRight
<1>7. ASSUME NEW i \in Node, NEW j \in Node, i # j
      PROVE  EndRight(i, j)'
  <2>1. EndOf(i, j)' = EndOf(i, j) /\ EndRight(i, j)
    BY <1>1, <1>7 DEF EndOf, Inv, EndsRight
  <2>. QED  BY <1>1, <1>2, <1>3, <2>1 DEF EndRight
<1>8. EndsRight'
  BY <1>7 DEF EndsRight
<1>. QED  BY <1>1, <1>4, <1>5, <1>6, <1>8, SameStores, NoCall

\* connect has no end to switch.
LEMMA NothingInv ==
    ASSUME Inv, NothingToEnable
    PROVE  Inv'
<1>1. /\ UNCHANGED <<calls, enabled, servers, done, listening, storeVars, endnames, connected,
                     target, todo, uses>>
      /\ todo = {} /\ At("Enable")
  BY DEF NothingToEnable, netVars
<1>2. script' \in Scripts /\ Phase' = "none"
  BY <1>1, Goes, ScriptOrder DEF Inv, HarnessRight
<1>3. Types'
  BY <1>1 DEF Inv, Types, storeVars
<1>4. HarnessRight' /\ NamesRight'
  BY <1>1, <1>2 DEF Inv, HarnessRight, NamesRight
<1>5. EndsRight'
  BY <1>1, <1>2 DEF Inv, EndsRight, EndRight, EndOf
<1>. QED  BY <1>1, <1>3, <1>4, <1>5, SameStores, NoCall

\* A server is taken off the network, or the new instance of it is put there.
LEMMA ServerInv ==
    ASSUME Inv, DeleteServer \/ AddServer
    PROVE  Inv'
<1>1. UNCHANGED <<calls, enabled, done, listening, storeVars, endnames, connected, target, todo, uses>>
  BY DEF DeleteServer, AddServer
<1>2. /\ Types /\ target \in Node /\ servers \in [Node -> Nat]
      /\ memory \in [Node -> Seq(SUBSET CallId)] /\ memory' = memory /\ persister' = persister
  BY <1>1 DEF Inv, Types, storeVars
<1>3. /\ todo = {} /\ script' \in Scripts
      /\ \/ /\ Phase' = "Copy" /\ target \notin connected
            /\ servers' = [servers EXCEPT ![target] = 0]
         \/ /\ Phase' = "none" /\ servers' = [servers EXCEPT ![target] = Len(memory[target])]
            /\ uses[target][Len(memory[target])] = Len(persister[target])
  <2>1. CASE DeleteServer
    <3>1. At("DeleteServer") /\ servers' = [servers EXCEPT ![target] = 0]
      BY <2>1 DEF DeleteServer
    <3>2. /\ Phase' = "Copy" /\ todo = {} /\ script' \in Scripts /\ Phase = "DeleteServer"
      BY <3>1, Goes, ScriptOrder DEF Inv, HarnessRight
    <3>. QED  BY <3>1, <3>2 DEF Inv, HarnessRight
  <2>2. CASE AddServer
    <3>1. At("AddServer") /\ servers' = [servers EXCEPT ![target] = Len(memory[target])]
      BY <2>2 DEF AddServer, Instance
    <3>2. Phase' = "none" /\ todo = {} /\ script' \in Scripts /\ Phase = "AddServer"
      BY <3>1, Goes, ScriptOrder DEF Inv, HarnessRight
    <3>3. uses[target][Len(memory[target])] = Len(persister[target])
      BY <3>2 DEF Inv, HarnessRight, Instance
    <3>. QED  BY <3>1, <3>2, <3>3
  <2>. QED  BY <2>1, <2>2
<1>4. servers' \in [Node -> Nat]
  <2>1. Len(memory[target]) \in Nat
    BY <1>2
  <2>. QED  BY <1>2, <1>3, <2>1
<1>5. Types'
  BY <1>1, <1>4 DEF Inv, Types, storeVars
<1>6. HarnessRight'
  BY <1>1, <1>2, <1>3 DEF HarnessRight
<1>7. NamesRight'
  BY <1>1 DEF Inv, NamesRight
<1>8. EndsRight'
  BY <1>1, <1>3 DEF Inv, EndsRight, EndRight, EndOf
<1>9. ASSUME NEW i \in Node
      PROVE  StoreRight(i)'
  <2>1. StoreRight(i)
    BY DEF Inv
  <2>2. \/ servers'[i] = servers[i] \/ servers'[i] = 0
        \/ servers'[i] = Len(memory[i]) /\ uses[i][Len(memory[i])] = Len(persister[i])
    BY <1>2, <1>3
  <2>. QED  BY <1>1, <1>2, <2>1, <2>2 DEF StoreRight
<1>10. Grows
  BY <1>1, SameStores
<1>. QED  BY <1>1, <1>5, <1>6, <1>7, <1>8, <1>9, <1>10, NoCall

\* A copy of the latest persister of i becomes the latest.
LEMMA CopyFacts ==
    ASSUME Inv, NEW i \in Node, Copy(i)
    PROVE  /\ persister' \in [Node -> Seq(SUBSET CallId)]
           /\ \A j \in Node : j # i => persister'[j] = persister[j]
           /\ Len(persister'[i]) = Len(persister[i]) + 1 /\ Len(persister[i]) \in Nat \ {0}
           /\ \A m \in 1 .. Len(persister[i]) : persister'[i][m] = persister[i][m]
           /\ persister'[i][Len(persister'[i])] = Last(persister[i])
           /\ Last(persister'[i]) = Last(persister[i]) /\ Last(persister[i]) \in SUBSET CallId
<1>. DEFINE S == SUBSET CallId
            q == persister[i]
            new == Append(q, Last(q))
<1>1. persister \in [Node -> Seq(S)] /\ q \in Seq(S) /\ Len(q) >= 1
  BY DEF Inv, Types, StoreRight
<1>2. persister' = [persister EXCEPT ![i] = new]
  BY DEF Copy
<1>. HIDE DEF S, q
<1>3. Len(q) \in Nat \ {0} /\ Last(q) \in S
  BY <1>1 DEF Last
<1>4. /\ new \in Seq(S) /\ Len(new) = Len(q) + 1 /\ Last(new) = Last(q)
      /\ \A m \in 1 .. Len(q) : new[m] = q[m]
      /\ new[Len(q) + 1] = Last(q)
  BY <1>1, <1>3, AppendFacts
<1>. HIDE DEF new
<1>5. persister' \in [Node -> Seq(S)] /\ persister'[i] = new
      /\ \A j \in Node : j # i => persister'[j] = persister[j]
  BY <1>1, <1>2, <1>4
<1>. QED  BY <1>3, <1>4, <1>5 DEF S, q

\* crash1 supersedes the persister.
LEMMA CopyInv ==
    ASSUME Inv, CopyPersister
    PROVE  Inv'
<1>1. /\ At("Copy") /\ Copy(target)
      /\ UNCHANGED <<calls, enabled, servers, done, listening, memory, endnames, connected,
                     target, todo, uses>>
  BY DEF CopyPersister, netVars
<1>2. Types /\ target \in Node /\ memory \in [Node -> Seq(SUBSET CallId)]
  BY DEF Inv, Types
<1>3. /\ todo = {} /\ script' \in Scripts /\ Phase' \in {"none", "Make"}
      /\ target \notin connected /\ servers[target] = 0
  BY <1>1, Goes, ScriptOrder DEF Inv, HarnessRight
<1>4. /\ persister' \in [Node -> Seq(SUBSET CallId)]
      /\ \A j \in Node : j # target => persister'[j] = persister[j]
      /\ Len(persister'[target]) = Len(persister[target]) + 1 /\ Len(persister[target]) \in Nat \ {0}
      /\ \A m \in 1 .. Len(persister[target]) : persister'[target][m] = persister[target][m]
      /\ Last(persister'[target]) = Last(persister[target])
  BY <1>1, <1>2, CopyFacts
<1>5. Types'
  BY <1>1, <1>4 DEF Inv, Types
<1>6. HarnessRight' /\ NamesRight'
  BY <1>1, <1>3 DEF Inv, HarnessRight, NamesRight
<1>7. EndsRight'
  BY <1>1, <1>3 DEF Inv, EndsRight, EndRight, EndOf
<1>8. ASSUME NEW i \in Node
      PROVE  StoreRight(i)'
  <2>1. StoreRight(i)
    BY DEF Inv
  <2>2. CASE i = target
    <3>1. \A k \in 1 .. Len(memory[i]) :
            /\ uses[i][k] \in 1 .. Len(persister'[i])
            /\ persister'[i][uses[i][k]] = memory[i][k]
      BY <1>4, <2>1, <2>2 DEF StoreRight
    <3>. QED  BY <1>1, <1>3, <1>4, <2>1, <2>2, <3>1 DEF StoreRight
  <2>3. CASE i # target
    BY <1>1, <1>4, <2>1, <2>3 DEF StoreRight
  <2>. QED  BY <2>2, <2>3
<1>9. Grows
  BY <1>1, <1>2, <1>4 DEF Grows
<1>. QED  BY <1>1, <1>5, <1>6, <1>7, <1>8, <1>9, NoCall

\* A new instance is made from a copy of the latest persister, with new names.
LEMMA MakeInv ==
    ASSUME Inv, Make
    PROVE  Inv'
<1>. DEFINE i == target
            n == Len(memory[i])
            p == Len(persister[i])
            saved == Last(persister[i])
<1>1. /\ At("Make") /\ Copy(i)
      /\ endnames' = [endnames EXCEPT ![i] = endnames[i] + 1]
      /\ uses' = [uses EXCEPT ![i] = Append(uses[i], Len(persister'[i]))]
      /\ memory' = [memory EXCEPT ![i] = Append(memory[i], Last(persister'[i]))]
      /\ UNCHANGED <<calls, enabled, servers, done, listening, connected, target, todo>>
  BY DEF Make, netVars, FreshNames
<1>2. /\ Types /\ i \in Node /\ memory \in [Node -> Seq(SUBSET CallId)]
      /\ uses \in [Node -> Seq(Nat)] /\ endnames \in [Node -> Nat] /\ StoreRight(i)
      /\ n \in Nat
  <2>1. Types /\ target \in Node
    BY DEF Inv, Types
  <2>2. memory \in [Node -> Seq(SUBSET CallId)] /\ uses \in [Node -> Seq(Nat)]
        /\ endnames \in [Node -> Nat]
    BY <2>1 DEF Types
  <2>3. memory[target] \in Seq(SUBSET CallId)
    BY <2>1, <2>2
  <2>. QED  BY <2>1, <2>2, <2>3 DEF Inv
<1>3. /\ todo = {} /\ script' \in Scripts /\ Phase' = "AddServer"
      /\ i \notin connected /\ servers[i] = 0
  BY <1>1, Goes, ScriptOrder DEF Inv, HarnessRight
<1>4. /\ persister' \in [Node -> Seq(SUBSET CallId)]
      /\ \A j \in Node : j # i => persister'[j] = persister[j]
      /\ Len(persister'[i]) = p + 1 /\ p \in Nat \ {0}
      /\ \A m \in 1 .. p : persister'[i][m] = persister[i][m]
      /\ persister'[i][p + 1] = saved
      /\ Last(persister'[i]) = saved /\ saved \in SUBSET CallId
  BY <1>1, <1>2, CopyFacts
<1>5. /\ memory' \in [Node -> Seq(SUBSET CallId)]
      /\ \A j \in Node : j # i => memory'[j] = memory[j]
      /\ Len(memory'[i]) = n + 1
      /\ \A k \in 1 .. n : memory'[i][k] = memory[i][k]
      /\ memory'[i][n + 1] = saved
  <2>. DEFINE S == SUBSET CallId
              new == Append(memory[i], saved)
  <2>1. memory[i] \in Seq(S) /\ saved \in S /\ memory \in [Node -> Seq(S)]
        /\ memory' = [memory EXCEPT ![i] = new]
    BY <1>1, <1>2, <1>4
  <2>. HIDE DEF S, saved
  <2>2. /\ new \in Seq(S) /\ Len(new) = n + 1 /\ new[n + 1] = saved
        /\ \A k \in 1 .. n : new[k] = memory[i][k]
    BY <2>1, AppendFacts
  <2>. HIDE DEF new
  <2>3. memory' \in [Node -> Seq(S)] /\ memory'[i] = new
        /\ \A j \in Node : j # i => memory'[j] = memory[j]
    BY <1>2, <2>1, <2>2
  <2>. QED  BY <2>2, <2>3 DEF S
<1>6. /\ uses' \in [Node -> Seq(Nat)]
      /\ \A j \in Node : j # i => uses'[j] = uses[j]
      /\ Len(uses'[i]) = n + 1
      /\ \A k \in 1 .. n : uses'[i][k] = uses[i][k]
      /\ uses'[i][n + 1] = p + 1
  <2>. DEFINE new == Append(uses[i], p + 1)
  <2>1. uses[i] \in Seq(Nat) /\ Len(uses[i]) = n /\ uses' = [uses EXCEPT ![i] = new] /\ p + 1 \in Nat
    BY <1>1, <1>2, <1>4 DEF StoreRight
  <2>. HIDE DEF p, n, i
  <2>2. /\ new \in Seq(Nat) /\ Len(new) = n + 1 /\ new[n + 1] = p + 1
        /\ \A k \in 1 .. n : new[k] = uses[i][k]
    BY <2>1, AppendFacts
  <2>. HIDE DEF new
  <2>. QED  BY <1>2, <2>1, <2>2
<1>7. /\ endnames' \in [Node -> Nat] /\ endnames'[i] = endnames[i] + 1 /\ endnames[i] \in Nat
      /\ \A j \in Node : j # i => endnames'[j] = endnames[j]
  BY <1>1, <1>2
<1>8. Types'
  BY <1>1, <1>4, <1>5, <1>6, <1>7 DEF Inv, Types
<1>9. HarnessRight'
  BY <1>1, <1>3, <1>4, <1>5, <1>6 DEF HarnessRight, Instance
<1>10. ASSUME NEW e \in enabled
       PROVE  e.from # i
  <2>. SUFFICES ASSUME e.from = i
                PROVE  FALSE
    OBVIOUS
  <2>1. e \in EndName /\ e.to \in Node
    BY <1>2 DEF Types, EndName
  <2>2. e.gen = endnames[i] /\ e.to # i
    BY <1>2 DEF Inv, NamesRight
  <2>3. e = EndOf(i, e.to)
    BY <2>1, <2>2 DEF EndName, EndOf
  <2>4. EndRight(i, e.to)
    BY <1>2, <2>1, <2>2 DEF Inv, EndsRight
  <2>. QED  BY <1>3, <2>3, <2>4 DEF EndRight
<1>11. NamesRight'
  BY <1>1, <1>3, <1>7, <1>10 DEF Inv, NamesRight
<1>12. ASSUME NEW a \in Node, NEW b \in Node, a # b
       PROVE  EndRight(a, b)'
  <2>1. EndRight(a, b)
    BY <1>12 DEF Inv, EndsRight
  <2>2. CASE a = i
    <3>1. EndOf(a, b)' \notin enabled
      <4>1. EndOf(a, b)'.from = i
        BY <2>2 DEF EndOf
      <4>. QED  BY <1>10, <4>1
    <3>. QED  BY <1>1, <1>3, <2>2, <3>1 DEF EndRight
  <2>3. CASE a # i
    <3>1. EndOf(a, b)' = EndOf(a, b)
      BY <1>7, <2>3 DEF EndOf
    <3>. QED  BY <1>1, <1>3, <2>1, <3>1 DEF EndRight
  <2>. QED  BY <2>2, <2>3
<1>13. EndsRight'
  BY <1>12 DEF EndsRight
<1>14. ASSUME NEW j \in Node
       PROVE  StoreRight(j)'
  <2>1. StoreRight(j)
    BY DEF Inv
  <2>2. CASE j = i
    <3>1. /\ \A k \in 1 .. n : uses[i][k] \in 1 .. p /\ persister[i][uses[i][k]] = memory[i][k]
          /\ \A k, m \in 1 .. n : uses[i][k] = uses[i][m] => k = m
          /\ endnames[i] = n
      BY <1>2 DEF StoreRight
    <3>. HIDE DEF i, n, p, saved
    <3>2. ASSUME NEW k \in 1 .. n + 1
          PROVE  uses'[i][k] \in 1 .. p + 1 /\ persister'[i][uses'[i][k]] = memory'[i][k]
      <4>1. CASE k = n + 1
        BY <1>4, <1>5, <1>6, <4>1
      <4>2. CASE k # n + 1
        <5>1. k \in 1 .. n
          BY <1>2, <4>2
        <5>2. /\ uses'[i][k] = uses[i][k] /\ memory'[i][k] = memory[i][k]
              /\ uses[i][k] \in 1 .. p /\ persister[i][uses[i][k]] = memory[i][k]
          BY <1>5, <1>6, <3>1, <5>1
        <5>3. persister'[i][uses[i][k]] = persister[i][uses[i][k]]
          BY <1>4, <5>2
        <5>4. uses[i][k] \in 1 .. p + 1
          BY <1>4, <5>2
        <5>. QED  BY <5>2, <5>3, <5>4
      <4>. QED  BY <4>1, <4>2
    <3>3. ASSUME NEW k \in 1 .. n + 1, NEW m \in 1 .. n + 1, uses'[i][k] = uses'[i][m]
          PROVE  k = m
      <4>1. \A x \in 1 .. n + 1 : x # n + 1 => x \in 1 .. n /\ uses'[i][x] # p + 1
        <5>1. ASSUME NEW x \in 1 .. n + 1, x # n + 1
              PROVE  x \in 1 .. n /\ uses'[i][x] # p + 1
          <6>1. x \in 1 .. n
            BY <1>2, <5>1
          <6>2. uses'[i][x] = uses[i][x] /\ uses[i][x] \in 1 .. p
            BY <1>6, <3>1, <6>1
          <6>. QED  BY <1>4, <6>1, <6>2
        <5>. QED  BY <5>1
      <4>2. CASE k = n + 1 \/ m = n + 1
        BY <1>6, <3>3, <4>1, <4>2
      <4>3. CASE k # n + 1 /\ m # n + 1
        BY <1>6, <3>1, <3>3, <4>1, <4>3
      <4>. QED  BY <4>2, <4>3
    <3>4. endnames'[i] = n + 1 /\ servers'[i] = 0 /\ n + 1 >= 1 /\ p + 1 >= 1
      BY <1>1, <1>2, <1>3, <1>4, <1>7, <3>1
    <3>. QED  BY <1>4, <1>5, <1>6, <2>2, <3>2, <3>3, <3>4 DEF StoreRight
  <2>3. CASE j # i
    <3>1. memory'[j] = memory[j] /\ uses'[j] = uses[j]
      BY <1>5, <1>6, <2>3
    <3>2. persister'[j] = persister[j]
      BY <1>4, <2>3
    <3>3. endnames'[j] = endnames[j] /\ servers'[j] = servers[j]
      BY <1>1, <1>7, <2>3
    <3>. HIDE DEF i, n, p, saved
    <3>. QED  BY <2>1, <3>1, <3>2, <3>3 DEF StoreRight
  <2>. QED  BY <2>2, <2>3
<1>15. Grows
  <2>1. ASSUME NEW j \in Node
        PROVE  /\ Len(memory[j]) <= Len(memory'[j])
               /\ \A k \in 1 .. Len(memory[j]) : memory[j][k] \subseteq memory'[j][k]
               /\ Last(persister[j]) \subseteq Last(persister'[j])
    <3>1. CASE j = i
      BY <1>2, <1>4, <1>5, <3>1
    <3>2. CASE j # i
      <4>1. Len(memory[j]) \in Nat
        BY <1>2
      <4>. QED  BY <1>4, <1>5, <3>2, <4>1
    <3>. QED  BY <3>1, <3>2
  <2>. QED  BY <2>1 DEF Grows
<1>. QED  BY <1>1, <1>8, <1>9, <1>11, <1>13, <1>14, <1>15, NoCall

\* The network is cleaned up.
LEMMA CleanupInv ==
    ASSUME Inv, Cleanup \/ NetworkStops
    PROVE  Inv'
<1>1. /\ UNCHANGED <<calls, enabled, servers, storeVars, endnames, connected, script, target, todo,
                     ops, uses>>
      /\ memory' = memory /\ persister' = persister
  BY DEF Cleanup, NetworkStops, harnessVars, storeVars
<1>2. done' \in BOOLEAN /\ listening' \in BOOLEAN
  BY DEF Cleanup, NetworkStops, Inv, Types
<1>3. Types'
  BY <1>1, <1>2 DEF Inv, Types
<1>4. HarnessRight' /\ NamesRight'
  BY <1>1 DEF Inv, HarnessRight, NamesRight, Phase, Instance
<1>5. EndsRight'
  BY <1>1 DEF Inv, EndsRight, EndRight, EndOf, Phase
<1>. QED  BY <1>1, <1>3, <1>4, <1>5, SameStores, NoCall

-----------------------------------------------------------------------------
(* The theorems *)

\* The invariant holds when make_config is done.
LEMMA InitInv == Init => Inv
<1>. SUFFICES ASSUME Init PROVE Inv
  OBVIOUS
<1>. DEFINE end(q, j) == [from |-> q, gen |-> 1, to |-> j]
<1>1. \A q \in Node \cup Clerk : \A j \in Node :
        end(q, j) \in EndName /\ end(q, j).from = q /\ end(q, j).gen = 1 /\ end(q, j).to = j
  BY DEF EndName
<1>2. \A e : e \in enabled <=> \E q \in Node \cup Clerk : \E j \in Node : e = end(q, j) /\ q # j
  <2>1. enabled = {end(q, j) : q \in Node \cup Clerk, j \in Node} \ {end(j, j) : j \in Node}
    BY DEF Init
  <2>. HIDE DEF end
  <2>. QED  BY <1>1, <2>1
<1>3. Types
  <2>1. {} \in SUBSET CallId
    OBVIOUS
  <2>2. ASSUME NEW S, NEW x \in S PROVE <<x>> \in Seq(S)
    OBVIOUS
  <2>3. <<{}>> \in Seq(SUBSET CallId) /\ <<1>> \in Seq(Nat)
    BY <2>1, <2>2
  <2>4. enabled \subseteq EndName
    BY <1>1, <1>2
  <2>5. /\ servers \in [Node -> Nat] /\ memory \in [Node -> Seq(SUBSET CallId)]
        /\ persister \in [Node -> Seq(SUBSET CallId)] /\ uses \in [Node -> Seq(Nat)]
        /\ endnames \in [Node -> Nat]
    BY <2>3 DEF Init
  <2>6. done \in BOOLEAN /\ listening \in BOOLEAN
    BY DEF Init
  <2>7. calls \in Seq(CallRecord) /\ connected \subseteq Node /\ target \in Node /\ todo \subseteq EndName
    BY DEF Init
  <2>. QED  BY <2>4, <2>5, <2>6, <2>7 DEF Types
<1>4. HarnessRight
  BY DEF HarnessRight, Phase, Scripts, Init
<1>5. NamesRight
  <2>1. todo = {} /\ endnames = [j \in Node |-> 1]
    BY DEF Init
  <2>. HIDE DEF end
  <2>. QED  BY <1>1, <1>2, <2>1 DEF NamesRight
<1>6. EndsRight
  <2>1. ASSUME NEW i \in Node, NEW j \in Node, i # j
        PROVE  EndRight(i, j)
    <3>1. EndOf(i, j) = end(i, j) /\ todo = {} /\ connected = Node
      BY DEF EndOf, Init
    <3>. HIDE DEF end
    <3>2. EndOf(i, j) \in enabled
      BY <1>2, <2>1, <3>1
    <3>. QED  BY <3>1, <3>2 DEF EndRight
  <2>. QED  BY <2>1 DEF EndsRight
<1>7. \A i \in Node : StoreRight(i)
  <2>1. ASSUME NEW i \in Node
        PROVE  StoreRight(i)
    <3>1. /\ persister[i] = <<{}>> /\ memory[i] = <<{}>> /\ uses[i] = <<1>>
          /\ endnames[i] = 1 /\ servers[i] = 1
      BY DEF Init
    <3>2. Len(<<{}>>) = 1 /\ Len(<<1>>) = 1 /\ <<1>>[1] = 1 /\ \A k \in 1 .. 1 : k = 1
      OBVIOUS
    <3>. QED  BY <3>1, <3>2 DEF StoreRight
  <2>. QED  BY <2>1
<1>. QED  BY <1>3, <1>4, <1>5, <1>6, <1>7 DEF Init, Inv

\* Every step keeps the invariant.
LEMMA NextInv ==
    ASSUME Inv, [Next]_vars
    PROVE  Inv'
<1>1. CASE UNCHANGED vars
  <2>1. /\ UNCHANGED <<calls, enabled, servers, done, listening, storeVars, endnames, connected,
                       script, target, todo, uses>>
        /\ memory' = memory /\ persister' = persister
    BY <1>1 DEF vars, netVars, storeVars, harnessVars
  <2>2. Types'
    BY <2>1 DEF Inv, Types
  <2>3. HarnessRight' /\ NamesRight'
    BY <2>1 DEF Inv, HarnessRight, NamesRight, Phase, Instance
  <2>4. EndsRight'
    BY <2>1 DEF Inv, EndsRight, EndRight, EndOf, Phase
  <2>. QED  BY <2>1, <2>2, <2>3, <2>4, SameStores, NoCall
<1>2. ASSUME NEW i \in Node, NEW j \in Node, NEW k \in 1 .. Instance(i), Call(i, k, NamesOf(i, k), j)
      PROVE  Inv'
  <2>1. /\ memory[i] \in Seq(SUBSET CallId) /\ endnames[i] = Len(memory[i])
    BY DEF Inv, Types, StoreRight
  <2>2. Len(memory[i]) \in Nat
    BY <2>1
  <2>3. k \in Nat /\ NamesOf(i, k) = k
    BY <2>1, <2>2 DEF Instance, NamesOf
  <2>. QED  BY <1>2, <2>3, CallInv
<1>3. ASSUME NEW p \in Clerk, NEW j \in Node, Call(p, 1, 1, j)
      PROVE  Inv'
  BY <1>3, CallInv
<1>4. ASSUME NEW i \in Node,
             Run(i, connect) \/ Run(i, disconnect) \/ Run(i, crash1) \/ Run(i, start1)
      PROVE  Inv'
  BY <1>4, RunInv
<1>5. ASSUME HarnessStep
      PROVE  Inv'
  BY <1>5, ConnectInv, EnableInv, NothingInv, ServerInv, CopyInv, MakeInv DEF HarnessStep
<1>6. ASSUME NEW c \in CallId, NetworkStep(c) \/ Handle(c) \/ Drain(c)
      PROVE  Inv'
  BY <1>6, NetworkOneCall, HandleInv
<1>. QED  BY <1>1, <1>2, <1>3, <1>4, <1>5, <1>6, CleanupInv DEF Next

\* The invariant of this module holds in every reachable state of the simulator
\* and its harness.
THEOREM Invariance == Spec => []Inv
BY InitInv, NextInv, PTL DEF Spec

\* Every variable of the simulator and the harness keeps its type, and no handler is
\* called but on an instance of the server that was made.
THEOREM TypeCorrect == Spec => []TypeOK
<1>1. Inv => TypeOK
  BY DEF Inv, CallRight, TypeOK, ServerFound, Instance
<1>. QED  BY <1>1, Invariance, PTL

\* processReq with crash1: the effect of a call that was answered positively is in
\* the persister the server's next instance is made from, however many crashed
\* instances are still handling requests.
THEOREM RepliesDurable == Spec => []PositiveReplyDurable
<1>1. Inv => PositiveReplyDurable
  BY DEF Inv, CallRight, PositiveReplyDurable
<1>. QED  BY <1>1, Invariance, PTL

\* connect and disconnect: between two functions of the harness exactly the pairs of
\* connected servers can talk, for any sequence of crashes and restarts.
THEOREM PartitionHolds == Spec => []PartitionRespected
<1>1. Inv => PartitionRespected
  <2>. SUFFICES ASSUME Inv, script = <<>>, NEW i \in Node, NEW j \in Node, i # j
                PROVE  EndOf(i, j) \in enabled <=> {i, j} \subseteq connected
    BY DEF PartitionRespected
  <2>1. todo = {}
    BY DEF Inv, HarnessRight, Phase
  <2>. QED  BY <2>1 DEF Inv, EndsRight, EndRight
<1>. QED  BY <1>1, Invariance, PTL

\* start1: no call of an instance that was superseded is accepted by the network, for
\* the ends it was made with were disabled before new names were given.
THEOREM OldIsolated == Spec => OldInstanceIsolated
<1>. DEFINE Isolated ==
       \A c \in DOMAIN calls :
          (calls[c].pc = "calling" /\ calls'[c].pc = "accepted" /\ calls[c].end.from \in Node)
              => calls[c].by = Instance(calls[c].end.from)
<1>1. ASSUME Inv, [Next]_vars
      PROVE  [Isolated]_vars
  <2>. SUFFICES ASSUME Next, NEW c \in DOMAIN calls, calls[c].pc = "calling",
                       calls'[c].pc = "accepted", calls[c].end.from \in Node
                PROVE  calls[c].by = Instance(calls[c].end.from)
    BY <1>1
  <2>0. calls \in Seq(CallRecord) /\ calls'[c] # calls[c] /\ calls[c] \in CallRecord
    BY <1>1 DEF Inv, Types
  <2>1. \E d \in CallId : NetworkStep(d) \/ Handle(d) \/ Drain(d)
    <3>1. calls' # calls
      BY <2>0
    <3>2. ASSUME NEW p \in Node \cup Clerk, NEW k, NEW gen, NEW j \in Node, Call(p, k, gen, j)
          PROVE  FALSE
      <4>. DEFINE new == [by |-> k, end |-> [from |-> p, gen |-> gen, to |-> j],
                          pc |-> "calling", server |-> 0, handler |-> "none", drain |-> FALSE]
      <4>1. calls' = Append(calls, new)
        BY <3>2 DEF Call
      <4>. HIDE DEF new
      <4>2. calls'[c] = calls[c]
        BY <2>0, <4>1
      <4>. QED  BY <2>0, <4>2
    <3>3. ASSUME HarnessStep \/ Cleanup \/ NetworkStops \/ \E i \in Node : \E s : Run(i, s)
          PROVE  FALSE
      BY <3>1, <3>3 DEF HarnessStep, Connect, Disconnect, Enable, NothingToEnable, DeleteServer,
                        CopyPersister, Make, AddServer, Cleanup, NetworkStops, Run
    <3>. QED  BY <3>2, <3>3 DEF Next
  <2>2. PICK d \in CallId : NetworkStep(d) \/ Handle(d) \/ Drain(d)
    BY <2>1
  <2>3. PICK next : calls' = [calls EXCEPT ![d] = next]
    <3>1. CASE Handle(d)
      BY <2>0, <3>1 DEF Handle
    <3>2. CASE Drain(d)
      BY <2>0, <3>2 DEF Drain
    <3>3. CASE NetworkStep(d)
      BY <3>3 DEF NetworkStep, CallAfterCleanup, Accept, Drop, Dispatch, TakeReply, Poll,
                  FinalCheck, Deliver, Step
    <3>. QED  BY <2>2, <3>1, <3>2, <3>3
  <2>4. c = d
    BY <2>0, <2>3
  <2>5. calls[c].end \in enabled
    <3>0. calls[c].handler = "none"
      BY <1>1 DEF Inv, CallRight
    <3>1. CASE Handle(c)
      BY <3>0, <3>1 DEF Handle
    <3>2. CASE Drain(c)
      BY <3>0, <3>2 DEF Drain
    <3>3. CASE NetworkStep(c) /\ ~Accept(c)
      <4>1. PICK q \in {"false", "waiting", "replied", "sending", "true"} : calls'[c].pc = q
        BY <2>0, <3>3 DEF NetworkStep, CallAfterCleanup, Drop, Dispatch, TakeReply, Poll,
                          FinalCheck, Deliver, Step, CallRecord
      <4>. QED  BY <4>1
    <3>4. CASE Accept(c)
      <4>. SUFFICES ASSUME calls[c].end \notin enabled
                    PROVE  FALSE
        OBVIOUS
      <4>1. calls' = [calls EXCEPT ![c] = [calls[c] EXCEPT !.pc = "false"]]
        BY <3>4 DEF Accept, Step
      <4>2. calls'[c].pc = "false"
        BY <2>0, <4>1 DEF CallRecord
      <4>. QED  BY <4>2
    <3>. QED  BY <2>2, <2>4, <3>1, <3>2, <3>3, <3>4
  <2>6. calls[c].end.gen = endnames[calls[c].end.from] /\ calls[c].end.gen = calls[c].by
        /\ endnames[calls[c].end.from] = Len(memory[calls[c].end.from])
    BY <1>1, <2>5 DEF Inv, NamesRight, CallRight, StoreRight
  <2>. QED  BY <2>6 DEF Instance
<1>. QED  BY <1>1, Invariance, PTL DEF Spec, OldInstanceIsolated

=============================================================================
