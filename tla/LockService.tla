----------------------------- MODULE LockService -----------------------------
(***************************************************************************)
(* The lock service of raft-lock: LockServer (server.go) on a replicated   *)
(* log, and the clerks (clerk.go) that call it.                            *)
(*                                                                         *)
(* A call of LockServer.Mutex is a record: the request it carries, the     *)
(* server it runs on, where its goroutine is, and whether the clerk still  *)
(* waits for it.  labrpc may report a call as failed that is yet to be     *)
(* handled, or whose handler goes on.  Key and type of an operation are    *)
(* left out: applyToStateMachine is empty in this code, and exec records   *)
(* what it is called with.                                                 *)
(*                                                                         *)
(* A clerk makes one request at a time, as the tests do.                   *)
(*                                                                         *)
(* A Slip_ operator is the definition after it with a likely mistake; it   *)
(* only serves to confirm that a property would notice it.                 *)
(***************************************************************************)
EXTENDS ReplicatedLog, FiniteSets, Functions

CONSTANTS
    Clerk,        \* client ids
    MaxRequests,  \* bound: requests of all clerks
    MaxOrphans,   \* bound: calls that go on after the clerk was told they failed
    MaxRestarts   \* bound: restarts of servers

ASSUME ClusterAssumption == IsFiniteSet(Server) /\ Server # {}
ASSUME ServiceBoundAssumption ==
    MaxRequests \in Nat /\ MaxOrphans \in Nat /\ MaxRestarts \in Nat

VARIABLES
    handles,      \* the servers in the order in which a clerk tries them
    leaderId,     \* position in handles of the last server that answered
    server,       \* position of the server the clerk is calling
    requestId,    \* id of the clerk's last request
    calls,        \* calls of Mutex, a set: two orphans with the same fields are one
    results,      \* per server: the channel of each index, as a sequence
    lastId,       \* per server and client: id of the last request applied
    restarts,
    exec,         \* history: operations passed to applyToStateMachine
    answered,     \* history: requests whose SendMutex returned
    precedes      \* history: <<a, b>> if a was answered before b was sent

clerkVars  == <<handles, leaderId, server, requestId>>
serverVars == <<results, lastId>>
history    == <<exec, answered, precedes>>
vars == <<logVars, clerkVars, calls, serverVars, restarts, history>>

Op == [client : Clerk, id : Nat \ {0}]

Position == 1 .. Cardinality(Server)

\* The index is 0 until Start has returned one.
Mutex == [op : Op, srv : Server, index : Nat, awaited : BOOLEAN]

-----------------------------------------------------------------------------
(* The clerk *)

NextPosition(p) == IF p = Cardinality(Server) THEN 1 ELSE p + 1

\* The call a clerk makes to the server at position p.
Call(op, p) == [op |-> op, srv |-> handles[op.client][p], index |-> 0, awaited |-> TRUE]

EmptyResults == [k \in 1 .. MaxLog |-> <<>>]

Idle(c) == \A m \in calls : m.awaited => m.op.client # c

\* Lock or Unlock: a new request id, and a call to the server that answered last.
SendMutex(c) ==
    LET op == [client |-> c, id |-> requestId[c] + 1]
    IN  /\ Idle(c)
        /\ SumFunction(requestId) < MaxRequests
        /\ requestId' = [requestId EXCEPT ![c] = @ + 1]
        /\ server' = [server EXCEPT ![c] = leaderId[c]]
        /\ calls' = calls \cup {Call(op, leaderId[c])}
        /\ precedes' = precedes \cup (answered \X {op})
        /\ UNCHANGED <<logVars, handles, leaderId, serverVars, restarts, exec, answered>>

\* The loop of SendMutex goes on to the next server for every call in failed.
\* The other calls become rest.
TryNext(failed, rest) ==
    /\ server' = [c \in Clerk |-> IF \E m \in failed : m.op.client = c
                                  THEN NextPosition(server[c]) ELSE server[c]]
    /\ calls' = rest \cup {Call(m.op, server'[m.op.client]) : m \in failed}

\* The handler of m returns OK or ErrWrongLeader; nobody hears it unless the
\* clerk still waits.  OK ends SendMutex.
Slip_Return(m, ok) ==
    IF m.awaited /\ ok
    THEN /\ answered' = answered \cup {m.op}
         /\ leaderId' = [leaderId EXCEPT ![m.op.client] = server[m.op.client] + 1]
         /\ calls' = calls \ {m}
         /\ UNCHANGED server
    ELSE /\ TryNext({m} \cap {x \in calls : x.awaited}, calls \ {m})
         /\ UNCHANGED <<answered, leaderId>>
Return(m, ok) ==
    IF m.awaited /\ ok
    THEN /\ answered' = answered \cup {m.op}
         /\ leaderId' = [leaderId EXCEPT ![m.op.client] = server[m.op.client]]
         /\ calls' = calls \ {m}
         /\ UNCHANGED server
    ELSE /\ TryNext({m} \cap {x \in calls : x.awaited}, calls \ {m})
         /\ UNCHANGED <<answered, leaderId>>

Orphans == {m \in calls : ~m.awaited}

\* Call returns false: the request was dropped, or the handler is still to run,
\* or it runs and its reply is lost.
CallFails(m) ==
    /\ m.awaited
    /\ \/ /\ m.index = 0
          /\ TryNext({m}, calls \ {m})
       \/ /\ Cardinality(Orphans) < MaxOrphans
          /\ TryNext({m}, (calls \ {m}) \cup {[m EXCEPT !.awaited = FALSE]})
    /\ UNCHANGED <<logVars, handles, leaderId, requestId, serverVars, restarts, history>>

-----------------------------------------------------------------------------
(* The server *)

\* waitForApplied on a server that does not lead: ErrWrongLeader.
MutexWrongLeader(m) ==
    /\ m.index = 0
    /\ m.srv \notin leading
    /\ Return(m, FALSE)
    /\ UNCHANGED <<logVars, handles, requestId, serverVars, restarts, exec, precedes>>

\* waitForApplied, Start: the operation is in the log of a server that leads, and
\* the handler gets the channel of its index.  The channel is made by the handler
\* or by applyOpsLoop, whoever comes first: one that is not made yet is empty.
MutexStart(m) ==
    /\ m.index = 0
    /\ Start(m.srv, m.op)
    /\ calls' = (calls \ {m}) \cup {[m EXCEPT !.index = Len(log'[m.srv])]}
    /\ UNCHANGED <<clerkVars, serverVars, restarts, history>>

Slip_isSameOp(issued, applied) == TRUE
isSameOp(issued, applied) == issued.client = applied.client /\ issued.id = applied.id

\* The select: what was applied at the index, not always what was started there.
MutexApplied(m) ==
    LET ch == results[m.srv][m.index]
    IN  /\ m.index # 0
        /\ ch # <<>>
        /\ results' = [results EXCEPT ![m.srv][m.index] = Tail(ch)]
        /\ Return(m, isSameOp(m.op, Head(ch)))
        /\ UNCHANGED <<logVars, handles, requestId, lastId, restarts, exec, precedes>>

\* The select: 20 ms have passed.
MutexTimeout(m) ==
    /\ m.index # 0
    /\ Return(m, FALSE)
    /\ UNCHANGED <<logVars, handles, requestId, serverVars, restarts, exec, precedes>>

ResultCapacity == 1

\* Duplicate detection: only a request above the client's last one is applied.
Slip_IsNew(s, op) == op.id >= lastId[s][op.client]
IsNew(s, op) == op.id > lastId[s][op.client]

\* applyOpsLoop: apply the next message unless it is a duplicate, then hand the
\* operation to whoever waits, or will wait, for the index.
applyOpsLoop(s) ==
    LET k == lastApplied[s] + 1
        op == log[s][k]
    IN  /\ ReceiveApply(s)
        /\ Len(results[s][k]) < ResultCapacity
        /\ results' = [results EXCEPT ![s][k] = Append(@, op)]
        /\ exec' = IF IsNew(s, op) THEN [exec EXCEPT ![s] = Append(@, op)] ELSE exec
        /\ lastId' = IF IsNew(s, op) THEN [lastId EXCEPT ![s][op.client] = op.id] ELSE lastId
        /\ UNCHANGED <<clerkVars, calls, restarts, answered, precedes>>

\* The calls that the server is handling fail; the old instance may go on with
\* them, and nobody will hear of it.
ShutdownServer(s) ==
    TryNext({m \in calls : m.srv = s /\ m.awaited}, {m \in calls : m.srv # s})

\* Only the log survives in the new instance.
Slip_StartLockServer(s) ==
    /\ RestartLog(s)
    /\ lastId' = [lastId EXCEPT ![s] = [c \in Clerk |-> 0]]
    /\ exec' = [exec EXCEPT ![s] = <<>>]
    /\ UNCHANGED results
StartLockServer(s) ==
    /\ RestartLog(s)
    /\ results' = [results EXCEPT ![s] = EmptyResults]
    /\ lastId' = [lastId EXCEPT ![s] = [c \in Clerk |-> 0]]
    /\ exec' = [exec EXCEPT ![s] = <<>>]

Restart(s) ==
    /\ restarts < MaxRestarts
    /\ restarts' = restarts + 1
    /\ ShutdownServer(s)
    /\ StartLockServer(s)
    /\ UNCHANGED <<handles, leaderId, requestId, answered, precedes>>

-----------------------------------------------------------------------------
Orders == {f \in [Position -> Server] : \A p, q \in Position : f[p] = f[q] => p = q}

Init ==
    /\ RLInit
    /\ handles \in [Clerk -> Orders]
    /\ leaderId = [c \in Clerk |-> 1]
    /\ server = [c \in Clerk |-> 1]
    /\ requestId = [c \in Clerk |-> 0]
    /\ calls = {}
    /\ results = [s \in Server |-> EmptyResults]
    /\ lastId = [s \in Server |-> [c \in Clerk |-> 0]]
    /\ restarts = 0
    /\ exec = [s \in Server |-> <<>>]
    /\ answered = {}
    /\ precedes = {}

Next ==
    \/ \E c \in Clerk : SendMutex(c)
    \/ \E m \in calls : \/ CallFails(m)
                        \/ MutexWrongLeader(m)
                        \/ MutexStart(m)
                        \/ MutexApplied(m)
                        \/ MutexTimeout(m)
    \/ \E s \in Server : applyOpsLoop(s) \/ Restart(s)
    \/ RaftStep /\ UNCHANGED <<clerkVars, calls, serverVars, restarts, history>>

Spec == Init /\ [][Next]_vars

-----------------------------------------------------------------------------
(* Properties *)

\* Every variable holds values of its kind.
TypeOK ==
    /\ log \in [Server -> Seq(Op)]
    /\ leading \subseteq Server
    /\ leader \in Server \cup {NoServer}
    /\ agreed \in Seq(Op)
    /\ commitIndex \in [Server -> Nat]
    /\ lastApplied \in [Server -> Nat]
    /\ results \in [Server -> [1 .. MaxLog -> Seq(Op)]]
    /\ leaderId \in [Clerk -> Position]
    /\ server \in [Clerk -> Position]
    /\ requestId \in [Clerk -> Nat]
    /\ lastId \in [Server -> [Clerk -> Nat]]
    /\ calls \subseteq Mutex
    /\ exec \in [Server -> Seq(Op)]
    /\ answered \subseteq Op
    /\ precedes \subseteq Op \X Op

FirstAt(l, x) == CHOOSE k \in DOMAIN l : l[k] = x /\ \A i \in 1 .. k - 1 : l[i] # x

\* applyOpsLoop: every server applies each request it finds in its log exactly
\* once, at its first occurrence, however often it was retried, was committed
\* late or was replayed by a new instance; a request is never taken for a
\* duplicate of another one.
ExactlyOnce ==
    \A s \in Server :
        LET done == SubSeq(log[s], 1, lastApplied[s])
        IN  /\ Range(exec[s]) = Range(done)
            /\ \A i, j \in DOMAIN exec[s] :
                  i < j => FirstAt(done, exec[s][i]) < FirstAt(done, exec[s][j])

\* Mutex and SendMutex: a request that was answered stays in every later log,
\* and on every server it is applied before all requests sent after the answer.
Linearizable ==
    /\ answered \subseteq Range(agreed)
    /\ \A s \in Server : \A p \in precedes :
          p[2] \in Range(exec[s])
              => p[1] \in Range(exec[s])
                 /\ FirstAt(exec[s], p[1]) < FirstAt(exec[s], p[2])

\* applyOpsLoop sends results with ls.mu locked: there is always room in the
\* channel, although handlers time out without emptying it and indices are
\* started again after a change of leader.
ApplyNeverBlocks ==
    \A s \in Server :
        lastApplied[s] < commitIndex[s] => Len(results[s][lastApplied[s] + 1]) < ResultCapacity

=============================================================================
