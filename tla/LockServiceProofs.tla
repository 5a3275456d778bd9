-------------------------- MODULE LockServiceProofs --------------------------
(***************************************************************************)
(* Proofs about LockService, for any servers, clerks and bounds: every     *)
(* server applies each request in its log exactly once, answered requests  *)
(* stay and are applied in the order in which clerks saw them, and         *)
(* applyOpsLoop always has room for a result.                              *)
(*                                                                         *)
(* The argument is about agreed, the entries that stay.  A clerk sends a   *)
(* request only when the one before it was answered, so whatever is in a   *)
(* log, of a server that leads or only believes to, has the client's       *)
(* earlier requests in agreed; when it is agreed on they come before it.   *)
(***************************************************************************)
EXTENDS LockService, FiniteSetTheorems, TLAPS

-----------------------------------------------------------------------------
(* The inductive invariant *)

Agreed == {agreed[k] : k \in 1 .. Len(agreed)}

\* The first n entries of l are those that were agreed on.
HasAgreed(l, n) == n <= Len(l) /\ \A k \in 1 .. n : l[k] = agreed[k]

\* The operation of a request that a clerk has made.
Request(c, d) == [client |-> c, id |-> d]
Sent(op) == op.id <= requestId[op.client]

\* x is the k-th entry that was agreed on, and is not among those before.
FirstAgreed(k, x) == agreed[k] = x /\ \A j \in 1 .. k - 1 : agreed[j] # x

Types ==
    /\ TypeOK
    /\ handles \in [Clerk -> [Position -> Server]]
    /\ \A s \in Server : Len(log[s]) <= MaxLog
    /\ \A m \in calls : m.index <= MaxLog

\* What the servers hold of the entries agreed on, and have applied of them.
LogsRight ==
    /\ leader # NoServer => HasAgreed(log[leader], Len(agreed))
    /\ \A s \in Server :
        /\ lastApplied[s] <= commitIndex[s]
        /\ commitIndex[s] <= Len(agreed)
        /\ HasAgreed(log[s], commitIndex[s])

\* What is called, in a log or agreed on is a request that was made.
AllSent ==
    /\ \A m \in calls : Sent(m.op)
    /\ \A s \in Server : \A k \in 1 .. Len(log[s]) : Sent(log[s][k])
    /\ \A k \in 1 .. Len(agreed) : Sent(agreed[k])

\* A clerk has its answers to all requests but the last, and waits for that one.
Pending(c) == \E m \in calls : m.awaited /\ m.op = Request(c, requestId[c])

ClerksRight ==
    \A c \in Clerk :
        /\ \A d \in 1 .. requestId[c] - 1 : Request(c, d) \in answered
        /\ requestId[c] = 0 \/ Request(c, requestId[c]) \in answered \/ Pending(c)

\* The order of the entries agreed on.
OrderRight ==
    /\ answered \subseteq Agreed
    /\ \A k \in 1 .. Len(agreed) : \A d \in 1 .. agreed[k].id - 1 :
        \E j \in 1 .. k - 1 : agreed[j] = Request(agreed[k].client, d)
    /\ \A p \in precedes :
        /\ p[1] \in Agreed
        /\ \A k \in 1 .. Len(agreed) :
            agreed[k] = p[2] => \E j \in 1 .. k - 1 : agreed[j] = p[1]

\* What a server has in its channels, table and history: n entries were applied.
ChannelsRight(s) ==
    \A k \in 1 .. MaxLog :
        /\ results[s][k] # <<>> => k <= lastApplied[s]
        /\ \A i \in 1 .. Len(results[s][k]) : results[s][k][i] \in Agreed

TableRight(s) ==
    \A c \in Clerk :
        /\ \A k \in 1 .. lastApplied[s] : agreed[k].client = c => agreed[k].id <= lastId[s][c]
        /\ lastId[s][c] # 0 => \E k \in 1 .. lastApplied[s] : agreed[k] = Request(c, lastId[s][c])

ExecRight(s) ==
    /\ \A k \in 1 .. lastApplied[s] : \E i \in 1 .. Len(exec[s]) : exec[s][i] = agreed[k]
    /\ \A i \in 1 .. Len(exec[s]) : \E k \in 1 .. lastApplied[s] : FirstAgreed(k, exec[s][i])
    /\ \A i, j \in 1 .. Len(exec[s]) : i < j =>
        \E p, q \in 1 .. lastApplied[s] :
            p < q /\ FirstAgreed(p, exec[s][i]) /\ FirstAgreed(q, exec[s][j])

ServersRight == \A s \in Server : ChannelsRight(s) /\ TableRight(s) /\ ExecRight(s)

Inv == Types /\ LogsRight /\ AllSent /\ ClerksRight /\ OrderRight /\ ServersRight

-----------------------------------------------------------------------------
(* Facts about the parts *)

\* An operation is its client and its id.
LEMMA RequestIsOp ==
    /\ \A x \in Op : x.client \in Clerk /\ x.id \in Nat \ {0} /\ x = Request(x.client, x.id)
    /\ \A c \in Clerk, d \in Nat \ {0} : Request(c, d) \in Op
    /\ \A c, d : Request(c, d).client = c /\ Request(c, d).id = d
BY DEF Op, Request

\* The servers have positions, and a clerk that passes the last one starts again.
LEMMA Positions ==
    /\ 1 \in Position
    /\ \A p \in Position : NextPosition(p) \in Position
<1>1. Cardinality(Server) \in Nat /\ Cardinality(Server) # 0
  BY ClusterAssumption, FS_CardinalityType, FS_EmptySet
<1>. QED  BY <1>1 DEF Position, NextPosition

\* What the types say of elements of the sequences.
LEMMA ElementTypes ==
    ASSUME TypeOK
    PROVE  /\ Len(agreed) \in Nat
           /\ \A k \in 1 .. Len(agreed) : agreed[k] \in Op
           /\ \A s \in Server :
               /\ log[s] \in Seq(Op) /\ exec[s] \in Seq(Op)
               /\ Len(log[s]) \in Nat /\ Len(exec[s]) \in Nat
               /\ lastApplied[s] \in Nat /\ commitIndex[s] \in Nat
               /\ \A k \in 1 .. Len(log[s]) : log[s][k] \in Op
               /\ \A k \in 1 .. Len(exec[s]) : exec[s][k] \in Op
               /\ \A c \in Clerk : lastId[s][c] \in Nat
               /\ \A k \in 1 .. MaxLog : results[s][k] \in Seq(Op)
<1>1. \A q \in Seq(Op) : Len(q) \in Nat /\ \A k \in 1 .. Len(q) : q[k] \in Op
  OBVIOUS
<1>. HIDE DEF Op
<1>2. agreed \in Seq(Op) /\ \A s \in Server : log[s] \in Seq(Op) /\ exec[s] \in Seq(Op)
  BY DEF TypeOK
<1>3. \A s \in Server : /\ lastApplied[s] \in Nat /\ commitIndex[s] \in Nat
                        /\ \A c \in Clerk : lastId[s][c] \in Nat
                        /\ \A k \in 1 .. MaxLog : results[s][k] \in Seq(Op)
  BY DEF TypeOK
<1>. QED  BY <1>1, <1>2, <1>3

\* An entry has one first occurrence.
LEMMA FirstUnique ==
    ASSUME NEW x, NEW k \in Nat \ {0}, NEW j \in Nat \ {0}, FirstAgreed(k, x), agreed[j] = x
    PROVE  k <= j /\ (FirstAgreed(j, x) => j = k)
BY DEF FirstAgreed

\* The same requests have been applied and are in the log, each first occurrence
\* at the place that FirstAgreed says.
LEMMA DoneIsAgreed ==
    ASSUME Types, LogsRight, NEW s \in Server
    PROVE  LET done == SubSeq(log[s], 1, lastApplied[s])
           IN  /\ DOMAIN done = 1 .. lastApplied[s]
               /\ \A k \in 1 .. lastApplied[s] : done[k] = agreed[k]
<1>1. log[s] \in Seq(Op) /\ Len(log[s]) \in Nat /\ lastApplied[s] \in Nat /\ commitIndex[s] \in Nat
  BY ElementTypes DEF Types
<1>2. lastApplied[s] <= commitIndex[s] /\ commitIndex[s] <= Len(log[s])
      /\ \A k \in 1 .. commitIndex[s] : log[s][k] = agreed[k]
  BY DEF LogsRight, HasAgreed
<1>3. lastApplied[s] \in 0 .. Len(log[s])
  BY <1>1, <1>2
<1>. DEFINE done == SubSeq(log[s], 1, lastApplied[s])
<1>4. done \in Seq(Op) /\ Len(done) = lastApplied[s]
      /\ \A k \in 1 .. lastApplied[s] : done[k] = log[s][k]
  BY <1>1, <1>3
<1>5. DOMAIN done = 1 .. lastApplied[s]
  BY <1>4
<1>. HIDE DEF done
<1>6. \A k \in 1 .. lastApplied[s] : k \in 1 .. commitIndex[s]
  BY <1>1, <1>2
<1>. QED  BY <1>2, <1>4, <1>5, <1>6 DEF done

\* FirstAt, where the first occurrence is known.
LEMMA FirstAtIs ==
    ASSUME NEW l, NEW n \in Nat, DOMAIN l = 1 .. n, NEW k \in 1 .. n,
           \A i \in 1 .. k - 1 : l[i] # l[k]
    PROVE  FirstAt(l, l[k]) = k
<1>. DEFINE P(j) == l[j] = l[k] /\ \A i \in 1 .. j - 1 : l[i] # l[k]
<1>1. k \in DOMAIN l /\ P(k)
  OBVIOUS
<1>2. ASSUME NEW j \in DOMAIN l, P(j)
      PROVE  j = k
  <2>1. j \in 1 .. n
    OBVIOUS
  <2>2. ~(j < k) /\ ~(k < j)
    BY <1>1, <1>2, <2>1
  <2>. QED  BY <2>1, <2>2
<1>3. FirstAt(l, l[k]) = CHOOSE j \in DOMAIN l : P(j)
  BY DEF FirstAt
<1>. HIDE DEF P
<1>. QED  BY <1>1, <1>2, <1>3

\* The invariant says that requests are applied exactly once, in the order in
\* which they were agreed on.
LEMMA InvExactlyOnce == Inv => ExactlyOnce
<1>. SUFFICES ASSUME Inv, NEW s \in Server
              PROVE  LET done == SubSeq(log[s], 1, lastApplied[s])
                     IN  /\ Range(exec[s]) = Range(done)
                         /\ \A i, j \in DOMAIN exec[s] :
                               i < j => FirstAt(done, exec[s][i]) < FirstAt(done, exec[s][j])
  BY DEF ExactlyOnce
<1>. DEFINE done == SubSeq(log[s], 1, lastApplied[s])
            n == lastApplied[s]
<1>1. n \in Nat /\ DOMAIN done = 1 .. n /\ \A k \in 1 .. n : done[k] = agreed[k]
  BY DoneIsAgreed, ElementTypes DEF Inv, Types
<1>2. DOMAIN exec[s] = 1 .. Len(exec[s])
  BY ElementTypes DEF Inv, Types
<1>3. ExecRight(s)
  BY DEF Inv, ServersRight
<1>. HIDE DEF done, n
<1>4. Range(exec[s]) = Range(done)
  <2>1. \A k \in 1 .. n : \E i \in 1 .. Len(exec[s]) : exec[s][i] = done[k]
    BY <1>1, <1>3 DEF ExecRight, n
  <2>2. \A i \in 1 .. Len(exec[s]) : \E k \in 1 .. n : done[k] = exec[s][i]
    BY <1>1, <1>3 DEF ExecRight, FirstAgreed, n
  <2>3. Range(done) = {done[k] : k \in 1 .. n}
        /\ Range(exec[s]) = {exec[s][i] : i \in 1 .. Len(exec[s])}
    BY <1>1, <1>2 DEF Range
  <2>4. Range(done) \subseteq Range(exec[s])
    BY <2>1, <2>3
  <2>5. Range(exec[s]) \subseteq Range(done)
    BY <2>2, <2>3
  <2>. QED  BY <2>4, <2>5
<1>5. ASSUME NEW k \in 1 .. n, NEW x, FirstAgreed(k, x)
      PROVE  FirstAt(done, x) = k
  <2>1. done[k] = x /\ \A i \in 1 .. k - 1 : i \in 1 .. n
    BY <1>1, <1>5 DEF FirstAgreed
  <2>2. \A i \in 1 .. k - 1 : done[i] # done[k]
    BY <1>1, <1>5, <2>1 DEF FirstAgreed
  <2>. QED  BY <1>1, <2>1, <2>2, FirstAtIs
<1>6. ASSUME NEW i \in DOMAIN exec[s], NEW j \in DOMAIN exec[s], i < j
      PROVE  FirstAt(done, exec[s][i]) < FirstAt(done, exec[s][j])
  <2>1. PICK p \in 1 .. n, q \in 1 .. n :
              p < q /\ FirstAgreed(p, exec[s][i]) /\ FirstAgreed(q, exec[s][j])
    BY <1>2, <1>3, <1>6 DEF ExecRight, n
  <2>. QED  BY <1>5, <2>1
<1>. QED  BY <1>4, <1>6 DEF done

\* The places of two requests in the history of a server are those of their
\* first occurrences among the entries agreed on.
LEMMA ExecOrder ==
    ASSUME Inv, NEW s \in Server, NEW i \in 1 .. Len(exec[s]), NEW j \in 1 .. Len(exec[s]),
           NEW p \in 1 .. lastApplied[s], NEW q \in 1 .. lastApplied[s],
           FirstAgreed(p, exec[s][i]), FirstAgreed(q, exec[s][j])
    PROVE  (p < q => i < j) /\ (p = q => i = j)
<1>0. lastApplied[s] \in Nat /\ Len(exec[s]) \in Nat
  BY ElementTypes DEF Inv, Types
<1>1. ASSUME NEW a \in 1 .. Len(exec[s]), NEW b \in 1 .. Len(exec[s]), a < b,
             NEW u \in 1 .. lastApplied[s], NEW v \in 1 .. lastApplied[s],
             FirstAgreed(u, exec[s][a]), FirstAgreed(v, exec[s][b])
      PROVE  u < v
  <2>1. PICK x \in 1 .. lastApplied[s], y \in 1 .. lastApplied[s] :
              x < y /\ FirstAgreed(x, exec[s][a]) /\ FirstAgreed(y, exec[s][b])
    BY <1>1 DEF Inv, ServersRight, ExecRight
  <2>2. u = x /\ v = y
    BY <1>0, <1>1, <2>1, FirstUnique DEF FirstAgreed
  <2>. QED  BY <2>1, <2>2
<1>2. (i < j => p < q) /\ (j < i => q < p)
  BY <1>1
<1>3. i = j => p = q
  BY <1>0, FirstUnique DEF FirstAgreed
<1>. QED  BY <1>0, <1>2, <1>3

\* The invariant says that answered requests stay, and that what was answered
\* before another request was made is applied before it.
LEMMA InvLinearizable == Inv => Linearizable
<1>. SUFFICES ASSUME Inv
              PROVE  Linearizable
  OBVIOUS
<1>0. agreed \in Seq(Op) /\ precedes \subseteq Op \X Op
  BY DEF Inv, Types, TypeOK
<1>1. answered \subseteq Range(agreed)
  BY <1>0 DEF Inv, OrderRight, Agreed, Range
<1>2. ASSUME NEW s \in Server, NEW p \in precedes, p[2] \in Range(exec[s])
      PROVE  p[1] \in Range(exec[s]) /\ FirstAt(exec[s], p[1]) < FirstAt(exec[s], p[2])
  <2>. DEFINE n == lastApplied[s]
              e == exec[s]
  <2>0. n \in Nat /\ Len(e) \in Nat /\ DOMAIN e = 1 .. Len(e) /\ Len(agreed) \in Nat
        /\ n <= Len(agreed)
    <3>1. commitIndex[s] \in Nat /\ lastApplied[s] <= commitIndex[s] /\ commitIndex[s] <= Len(agreed)
      BY ElementTypes DEF Inv, Types, LogsRight
    <3>2. lastApplied[s] \in Nat /\ Len(agreed) \in Nat /\ exec[s] \in Seq(Op)
      BY ElementTypes DEF Inv, Types
    <3>. QED  BY <3>1, <3>2
  <2>1. ExecRight(s)
    BY DEF Inv, ServersRight
  <2>. HIDE DEF e, n
  <2>2. PICK b \in 1 .. Len(e) : e[b] = p[2]
    BY <1>2, <2>0 DEF Range, e
  <2>3. PICK k \in 1 .. n : FirstAgreed(k, e[b])
    BY <2>1 DEF ExecRight, e, n
  <2>4. PICK h \in 1 .. k - 1 : agreed[h] = p[1]
    <3>1. k \in 1 .. Len(agreed) /\ agreed[k] = p[2]
      BY <2>0, <2>2, <2>3 DEF FirstAgreed
    <3>. QED  BY <3>1 DEF Inv, OrderRight
  <2>5. h \in 1 .. n /\ h < k
    BY <2>0
  <2>6. PICK a \in 1 .. Len(e) : e[a] = agreed[h]
    BY <2>1, <2>5 DEF ExecRight, e, n
  <2>7. PICK g \in 1 .. n : FirstAgreed(g, e[a])
    BY <2>1 DEF ExecRight, e, n
  <2>8. g < k
    BY <2>0, <2>5, <2>6, <2>7, FirstUnique
  <2>9. ASSUME NEW i \in 1 .. Len(e)
        PROVE  FirstAt(e, e[i]) = i
    <3>1. \A j \in 1 .. i - 1 : e[j] # e[i]
      <4>. SUFFICES ASSUME NEW j \in 1 .. i - 1, e[j] = e[i]
                    PROVE  FALSE
        OBVIOUS
      <4>1. j \in 1 .. Len(e)
        BY <2>0
      <4>2. PICK f \in 1 .. n : FirstAgreed(f, e[i])
        BY <2>1 DEF ExecRight, e, n
      <4>. QED  BY <4>1, <4>2, ExecOrder DEF e, n
    <3>. QED  BY <2>0, <3>1, FirstAtIs
  <2>10. a < b
    BY <2>3, <2>7, <2>8, ExecOrder DEF e, n
  <2>. QED  BY <2>0, <2>2, <2>4, <2>6, <2>9, <2>10 DEF Range, e
<1>. QED  BY <1>1, <1>2 DEF Linearizable

\* The invariant says that the channel of the next index is empty.
LEMMA InvApplyNeverBlocks == Inv => ApplyNeverBlocks
<1>. SUFFICES ASSUME Inv, NEW s \in Server, lastApplied[s] < commitIndex[s]
              PROVE  Len(results[s][lastApplied[s] + 1]) < ResultCapacity
  BY DEF ApplyNeverBlocks
<1>1. lastApplied[s] \in Nat /\ commitIndex[s] \in Nat /\ Len(log[s]) \in Nat /\ MaxLog \in Nat
  BY LogBoundAssumption, ElementTypes DEF Inv, Types
<1>2. commitIndex[s] <= Len(log[s]) /\ Len(log[s]) <= MaxLog
  BY DEF Inv, Types, LogsRight, HasAgreed
<1>3. lastApplied[s] + 1 \in 1 .. MaxLog /\ ~(lastApplied[s] + 1 <= lastApplied[s])
  BY <1>1, <1>2
<1>4. results[s][lastApplied[s] + 1] = <<>>
  BY <1>3 DEF Inv, ServersRight, ChannelsRight
<1>. QED  BY <1>4 DEF ResultCapacity

\* Initially there are no requests.
LEMMA InitInv == Init => Inv
<1>. SUFFICES ASSUME Init
              PROVE  Inv
  OBVIOUS
<1>. USE DEF Init, RLInit
<1>0. <<>> \in Seq(Op) /\ Len(<<>>) = 0 /\ MaxLog \in Nat
  BY LogBoundAssumption
<1>1. EmptyResults \in [1 .. MaxLog -> Seq(Op)]
  BY <1>0 DEF EmptyResults
<1>2. TypeOK
  <2>1. results \in [Server -> [1 .. MaxLog -> Seq(Op)]] /\ log \in [Server -> Seq(Op)]
        /\ exec \in [Server -> Seq(Op)] /\ agreed \in Seq(Op)
    BY <1>0, <1>1
  <2>2. leaderId \in [Clerk -> Position] /\ server \in [Clerk -> Position]
    BY Positions
  <2>. QED  BY <2>1, <2>2 DEF TypeOK
<1>3. Types
  BY <1>0, <1>2 DEF Types, Orders
<1>4. LogsRight /\ AllSent
  BY <1>0 DEF LogsRight, AllSent, HasAgreed
<1>5. ClerksRight /\ OrderRight
  BY DEF ClerksRight, OrderRight
<1>6. ASSUME NEW s \in Server
      PROVE  ChannelsRight(s) /\ TableRight(s) /\ ExecRight(s)
  <2>1. /\ lastApplied[s] = 0
        /\ exec[s] = <<>>
        /\ \A k \in 1 .. MaxLog : results[s][k] = <<>>
        /\ \A c \in Clerk : lastId[s][c] = 0
    BY DEF EmptyResults
  <2>2. ChannelsRight(s)
    BY <1>0, <2>1 DEF ChannelsRight
  <2>3. TableRight(s)
    BY <2>1 DEF TableRight
  <2>4. ExecRight(s)
    BY <1>0, <2>1 DEF ExecRight
  <2>. QED  BY <2>2, <2>3, <2>4
<1>. QED  BY <1>3, <1>4, <1>5, <1>6 DEF Inv, ServersRight

-----------------------------------------------------------------------------
(* What steps do to the calls *)

\* No call is of another request than before, and a clerk that waits goes on
\* waiting for a call of the same request unless it is answered.
CallsKept ==
    /\ server' \in [Clerk -> Position]
    /\ leaderId' \in [Clerk -> Position]
    /\ calls' \subseteq Mutex
    /\ \A x \in calls' : x.index <= MaxLog
    /\ \A x \in calls' : \E y \in calls : x.op = y.op
    /\ answered \subseteq answered'
    /\ \A x \in calls : x.awaited =>
        x.op \in answered' \/ \E y \in calls' : y.awaited /\ y.op = x.op

\* Calls have their parts.
LEMMA CallTypes ==
    ASSUME Types, NEW m \in calls
    PROVE  /\ m \in Mutex /\ m.op \in Op /\ m.op.client \in Clerk /\ m.srv \in Server
           /\ m.index \in 0 .. MaxLog /\ m.awaited \in BOOLEAN
<1>1. m \in Mutex /\ m.index <= MaxLog
  BY DEF Types, TypeOK
<1>2. m.op \in Op /\ m.srv \in Server /\ m.index \in Nat /\ m.awaited \in BOOLEAN
  BY <1>1 DEF Mutex
<1>. QED  BY <1>1, <1>2, LogBoundAssumption, RequestIsOp

\* The next round of the loop of SendMutex.
LEMMA TryNextCalls ==
    ASSUME Types, NEW failed \in SUBSET calls, NEW rest \in SUBSET Mutex,
           \A x \in rest : x.index <= MaxLog, TryNext(failed, rest)
    PROVE  /\ server' \in [Clerk -> Position]
           /\ calls' \subseteq Mutex
           /\ \A x \in calls' : x.index <= MaxLog
           /\ rest \subseteq calls'
           /\ \A m \in failed : \E x \in calls' : x.awaited /\ x.op = m.op
           /\ \A x \in calls' : x \in rest \/ \E m \in failed : x.op = m.op
<1>0. server \in [Clerk -> Position] /\ handles \in [Clerk -> [Position -> Server]]
  BY DEF Types, TypeOK
<1>1. server' \in [Clerk -> Position]
  BY <1>0, Positions DEF TryNext
<1>2. ASSUME NEW m \in failed
      PROVE  LET x == Call(m.op, server'[m.op.client])
             IN  x \in Mutex /\ x.index = 0 /\ x.awaited /\ x.op = m.op
  <2>1. m.op \in Op /\ m.op.client \in Clerk
    BY CallTypes
  <2>2. handles[m.op.client][server'[m.op.client]] \in Server
    BY <1>0, <1>1, <2>1
  <2>. QED  BY <2>1, <2>2 DEF Call, Mutex
<1>3. calls' = rest \cup {Call(m.op, server'[m.op.client]) : m \in failed}
  BY DEF TryNext
<1>. QED  BY <1>1, <1>2, <1>3, LogBoundAssumption

\* The end of a handler, whatever it returns.
LEMMA ReturnCalls ==
    ASSUME Types, NEW m \in calls, NEW ok, Return(m, ok)
    PROVE  /\ CallsKept
           /\ \/ answered' = answered
              \/ ok /\ answered' = answered \cup {m.op}
<1>0. m.op.client \in Clerk /\ calls \subseteq Mutex /\ \A x \in calls : x.index <= MaxLog
  BY CallTypes DEF Types, TypeOK
<1>1. server \in [Clerk -> Position] /\ leaderId \in [Clerk -> Position]
  BY DEF Types, TypeOK
<1>2. CASE m.awaited /\ ok
  <2>1. answered' = answered \cup {m.op} /\ calls' = calls \ {m} /\ server' = server
        /\ leaderId' = [leaderId EXCEPT ![m.op.client] = server[m.op.client]]
    BY <1>2 DEF Return
  <2>2. leaderId' \in [Clerk -> Position]
    BY <1>0, <1>1, <2>1
  <2>. QED  BY <1>0, <1>1, <1>2, <2>1, <2>2 DEF CallsKept
<1>3. CASE ~(m.awaited /\ ok)
  <2>. DEFINE failed == {m} \cap {x \in calls : x.awaited}
              rest == calls \ {m}
  <2>1. TryNext(failed, rest) /\ answered' = answered /\ leaderId' = leaderId
    BY <1>3 DEF Return
  <2>2. failed \in SUBSET calls /\ rest \in SUBSET Mutex /\ \A x \in rest : x.index <= MaxLog
    BY <1>0
  <2>3. m.awaited => m \in failed
    OBVIOUS
  <2>4. \A x \in calls : x \in rest \/ x = m
    OBVIOUS
  <2>5. failed \subseteq calls /\ rest \subseteq calls
    OBVIOUS
  <2>. HIDE DEF failed, rest
  <2>6. /\ server' \in [Clerk -> Position] /\ calls' \subseteq Mutex
        /\ \A x \in calls' : x.index <= MaxLog
        /\ rest \subseteq calls'
        /\ \A y \in failed : \E x \in calls' : x.awaited /\ x.op = y.op
        /\ \A x \in calls' : x \in rest \/ \E y \in failed : x.op = y.op
    BY <2>1, <2>2, TryNextCalls
  <2>. QED  BY <1>1, <2>1, <2>3, <2>4, <2>5, <2>6 DEF CallsKept
<1>. QED  BY <1>2, <1>3

\* A call that fails is made again, and may go on.
LEMMA CallFailsCalls ==
    ASSUME Types, NEW m \in calls, CallFails(m)
    PROVE  CallsKept
<1>0. m \in Mutex /\ m.index <= MaxLog /\ calls \subseteq Mutex /\ \A x \in calls : x.index <= MaxLog
  BY CallTypes DEF Types, TypeOK
<1>1. PICK rest : /\ TryNext({m}, rest)
                  /\ \/ rest = calls \ {m}
                     \/ rest = (calls \ {m}) \cup {[m EXCEPT !.awaited = FALSE]}
  BY DEF CallFails
<1>2. LET o == [m EXCEPT !.awaited = FALSE]
      IN  o \in Mutex /\ o.index = m.index /\ o.op = m.op
  BY <1>0 DEF Mutex
<1>3. /\ rest \in SUBSET Mutex /\ calls \ {m} \subseteq rest
      /\ \A x \in rest : x.index <= MaxLog /\ \E y \in calls : x.op = y.op
  BY <1>0, <1>1, <1>2
<1>4. /\ server' \in [Clerk -> Position] /\ calls' \subseteq Mutex
      /\ \A x \in calls' : x.index <= MaxLog
      /\ rest \subseteq calls'
      /\ \E x \in calls' : x.awaited /\ x.op = m.op
      /\ \A x \in calls' : x \in rest \/ x.op = m.op
  <2>. DEFINE failed == {m}
  <2>1. m \in failed /\ failed \in SUBSET calls /\ TryNext(failed, rest)
        /\ \A y \in failed : y = m
    BY <1>1
  <2>2. rest \in SUBSET Mutex /\ \A x \in rest : x.index <= MaxLog
    BY <1>3
  <2>. HIDE DEF failed
  <2>3. /\ server' \in [Clerk -> Position] /\ calls' \subseteq Mutex
        /\ \A x \in calls' : x.index <= MaxLog
        /\ rest \subseteq calls'
        /\ \A y \in failed : \E x \in calls' : x.awaited /\ x.op = y.op
        /\ \A x \in calls' : x \in rest \/ \E y \in failed : x.op = y.op
    BY <2>1, <2>2, TryNextCalls
  <2>. QED  BY <2>1, <2>3
<1>5. leaderId' = leaderId /\ answered' = answered /\ leaderId \in [Clerk -> Position]
  BY DEF CallFails, history, Types, TypeOK
<1>6. \A x \in calls' : \E y \in calls : x.op = y.op
  BY <1>3, <1>4
<1>7. \A x \in calls : x.awaited => \E y \in calls' : y.awaited /\ y.op = x.op
  BY <1>3, <1>4
<1>. QED  BY <1>4, <1>5, <1>6, <1>7 DEF CallsKept

\* A step that makes no request keeps what is known of the clerks.
LEMMA CallsKeptClerks ==
    ASSUME Types, ClerksRight, CallsKept, requestId' = requestId
    PROVE  ClerksRight'
<1>. SUFFICES ASSUME NEW c \in Clerk
              PROVE  /\ \A d \in 1 .. requestId[c] - 1 : Request(c, d) \in answered'
                     /\ \/ requestId[c] = 0
                        \/ Request(c, requestId[c]) \in answered'
                        \/ \E m \in calls' : m.awaited /\ m.op = Request(c, requestId[c])
  BY DEF ClerksRight, Pending, Request
<1>1. answered \subseteq answered'
  BY DEF CallsKept
<1>2. ASSUME Pending(c)
      PROVE  \/ Request(c, requestId[c]) \in answered'
             \/ \E m \in calls' : m.awaited /\ m.op = Request(c, requestId[c])
  BY <1>2 DEF Pending, CallsKept
<1>. QED  BY <1>1, <1>2 DEF ClerksRight

-----------------------------------------------------------------------------
(* What steps do to the entries agreed on and to what was applied *)

\* Entries agreed on stay.
AgreedKept == Len(agreed) <= Len(agreed') /\ \A k \in 1 .. Len(agreed) : agreed'[k] = agreed[k]

\* A server that applies nothing in the step; a handler may take a result.
LEMMA ServerKept ==
    ASSUME Types, Types', LogsRight, NEW s \in Server, AgreedKept,
           ChannelsRight(s), TableRight(s), ExecRight(s),
           lastApplied'[s] = lastApplied[s], lastId'[s] = lastId[s], exec'[s] = exec[s],
           \A k \in 1 .. MaxLog :
              \/ results'[s][k] = results[s][k]
              \/ results[s][k] # <<>> /\ results'[s][k] = Tail(results[s][k])
    PROVE  ChannelsRight(s)' /\ TableRight(s)' /\ ExecRight(s)'
<1>. DEFINE n == lastApplied[s]
<1>1. n \in Nat /\ Len(agreed) \in Nat /\ Len(agreed') \in Nat /\ n <= Len(agreed)
  <2>1. lastApplied[s] <= commitIndex[s] /\ commitIndex[s] <= Len(agreed)
    BY DEF LogsRight
  <2>2. lastApplied[s] \in Nat /\ commitIndex[s] \in Nat /\ Len(agreed) \in Nat
    BY ElementTypes DEF Types
  <2>3. Len(agreed') \in Nat
    BY DEF Types, TypeOK
  <2>. QED  BY <2>1, <2>2, <2>3
<1>2. \A k \in 1 .. n : agreed'[k] = agreed[k]
  BY <1>1 DEF AgreedKept
<1>3. Agreed \subseteq Agreed'
  BY <1>1 DEF Agreed, AgreedKept
<1>4. ChannelsRight(s)'
  <2>. SUFFICES ASSUME NEW k \in 1 .. MaxLog
                PROVE  /\ results'[s][k] # <<>> => k <= lastApplied'[s]
                       /\ \A i \in 1 .. Len(results'[s][k]) : results'[s][k][i] \in Agreed'
    BY DEF ChannelsRight
  <2>0. results[s][k] \in Seq(Op)
    BY ElementTypes DEF Types
  <2>1. CASE results'[s][k] = results[s][k]
    BY <1>3, <2>1 DEF ChannelsRight
  <2>2. CASE results[s][k] # <<>> /\ results'[s][k] = Tail(results[s][k])
    <3>1. \A i \in 1 .. Len(Tail(results[s][k])) :
            i + 1 \in 1 .. Len(results[s][k]) /\ Tail(results[s][k])[i] = results[s][k][i + 1]
      BY <2>0, <2>2
    <3>. QED  BY <1>3, <2>2, <3>1 DEF ChannelsRight
  <2>. QED  BY <2>1, <2>2
<1>5. TableRight(s)'
  <2>1. \A c \in Clerk : \A k \in 1 .. n : agreed'[k].client = c => agreed'[k].id <= lastId[s][c]
    BY <1>2 DEF TableRight
  <2>2. \A c \in Clerk :
            lastId[s][c] # 0 => \E k \in 1 .. n : agreed'[k] = Request(c, lastId[s][c])
    BY <1>2 DEF TableRight
  <2>. QED  BY <2>1, <2>2 DEF TableRight, Request
<1>6. \A x : \A k \in 1 .. n : FirstAgreed(k, x) =>
          agreed'[k] = x /\ \A j \in 1 .. k - 1 : agreed'[j] # x
  <2>1. \A k \in 1 .. n : \A j \in 1 .. k - 1 : j \in 1 .. n
    BY <1>1
  <2>. QED  BY <1>2, <2>1 DEF FirstAgreed
<1>7. ExecRight(s)'
  <2>. DEFINE First(k, x) == agreed'[k] = x /\ \A j \in 1 .. k - 1 : agreed'[j] # x
              e == exec'[s]
              t == lastApplied'[s]
  <2>0. e = exec[s] /\ t = n /\ \A x : \A k \in 1 .. n : FirstAgreed(k, x) => First(k, x)
    BY <1>6
  <2>1. \A k \in 1 .. t : \E i \in 1 .. Len(e) : e[i] = agreed'[k]
    BY <1>2 DEF ExecRight
  <2>. HIDE DEF First, e, t, n
  <2>2. \A i \in 1 .. Len(e) : \E k \in 1 .. t : First(k, e[i])
    BY <2>0 DEF ExecRight, n
  <2>3. \A i, j \in 1 .. Len(e) :
            i < j => \E p, q \in 1 .. t : p < q /\ First(p, e[i]) /\ First(q, e[j])
    <3>. SUFFICES ASSUME NEW i \in 1 .. Len(e), NEW j \in 1 .. Len(e), i < j
                  PROVE  \E p, q \in 1 .. t : p < q /\ First(p, e[i]) /\ First(q, e[j])
      OBVIOUS
    <3>1. PICK p \in 1 .. n, q \in 1 .. n : p < q /\ FirstAgreed(p, e[i]) /\ FirstAgreed(q, e[j])
      BY <2>0 DEF ExecRight, n
    <3>. QED  BY <2>0, <3>1
  <2>4. /\ \A k \in 1 .. t : \E i \in 1 .. Len(e) : e[i] = agreed'[k]
        /\ \A i \in 1 .. Len(e) : \E k \in 1 .. t : First(k, e[i])
        /\ \A i, j \in 1 .. Len(e) :
            i < j => \E p, q \in 1 .. t : p < q /\ First(p, e[i]) /\ First(q, e[j])
    BY <2>1, <2>2, <2>3
  <2>. USE DEF First, e, t
  <2>. QED  BY <2>4, Zenon DEF ExecRight, FirstAgreed
<1>. QED  BY <1>4, <1>5, <1>7

-----------------------------------------------------------------------------
(* Clerks and handlers *)

\* A step of clerks and handlers that makes no request: what is answered has been
\* agreed on, and at most a result is taken out of a channel.
LEMMA HandlerStep ==
    ASSUME Inv, CallsKept,
           UNCHANGED <<logVars, handles, requestId, lastId, exec, precedes>>,
           answered' \subseteq Agreed,
           results' \in [Server -> [1 .. MaxLog -> Seq(Op)]],
           \A s \in Server : \A k \in 1 .. MaxLog :
              \/ results'[s][k] = results[s][k]
              \/ results[s][k] # <<>> /\ results'[s][k] = Tail(results[s][k])
    PROVE  Inv'
<1>. USE DEF logVars
<1>1. Types'
  <2>1. answered' \subseteq Op
    BY ElementTypes DEF Inv, Types, Agreed
  <2>2. TypeOK'
    BY <2>1 DEF Inv, Types, TypeOK, CallsKept
  <2>. QED  BY <2>2 DEF Inv, Types, CallsKept
<1>2. LogsRight'
  BY DEF Inv, LogsRight, HasAgreed
<1>3. AllSent'
  <2>1. \A x \in calls' : Sent(x.op)
    BY DEF Inv, AllSent, CallsKept
  <2>. QED  BY <2>1 DEF Inv, AllSent, Sent
<1>4. ClerksRight'
  BY CallsKeptClerks DEF Inv
<1>5. OrderRight'
  BY DEF Inv, OrderRight, Agreed, Request
<1>6. ASSUME NEW s \in Server
      PROVE  ChannelsRight(s)' /\ TableRight(s)' /\ ExecRight(s)'
  <2>1. AgreedKept
    BY ElementTypes DEF Inv, Types, AgreedKept
  <2>. QED  BY <1>1, <2>1, ServerKept DEF Inv, ServersRight
<1>. QED  BY <1>1, <1>2, <1>3, <1>4, <1>5, <1>6 DEF Inv, ServersRight

\* A step of a handler that takes no result, as seen by the clerk.
LEMMA NoResultStep ==
    ASSUME Inv, CallsKept, answered' = answered,
           UNCHANGED <<logVars, handles, requestId, serverVars, exec, precedes>>
    PROVE  Inv'
<1>1. results' = results /\ lastId' = lastId
  BY DEF serverVars
<1>2. results' \in [Server -> [1 .. MaxLog -> Seq(Op)]]
  BY <1>1 DEF Inv, Types, TypeOK
<1>3. answered' \subseteq Agreed
  BY DEF Inv, OrderRight
<1>. QED  BY <1>1, <1>2, <1>3, HandlerStep

\* A call is reported as failed.
LEMMA CallFailsInv ==
    ASSUME Inv, NEW m \in calls, CallFails(m)
    PROVE  Inv'
<1>1. CallsKept
  BY CallFailsCalls DEF Inv
<1>. QED  BY <1>1, NoResultStep DEF CallFails, history

\* Handlers that return without a result.
LEMMA NoAnswerInv ==
    ASSUME Inv, NEW m \in calls, MutexWrongLeader(m) \/ MutexTimeout(m)
    PROVE  Inv'
<1>1. Return(m, FALSE) /\ UNCHANGED <<logVars, handles, requestId, serverVars, restarts, exec, precedes>>
  BY DEF MutexWrongLeader, MutexTimeout
<1>2. CallsKept /\ answered' = answered
  BY <1>1, ReturnCalls DEF Inv
<1>. QED  BY <1>1, <1>2, NoResultStep

\* A handler that receives a result answers OK only if the operation applied at
\* its index is its own, and that one was agreed on.
LEMMA MutexAppliedInv ==
    ASSUME Inv, NEW m \in calls, MutexApplied(m)
    PROVE  Inv'
<1>. DEFINE ch == results[m.srv][m.index]
            ok == isSameOp(m.op, Head(ch))
<1>0. m.srv \in Server /\ m.index \in 1 .. MaxLog /\ m.op \in Op
  <2>1. m.srv \in Server /\ m.index \in 0 .. MaxLog /\ m.op \in Op
    BY CallTypes DEF Inv
  <2>2. m.index # 0
    BY DEF MutexApplied
  <2>. QED  BY <2>1, <2>2, LogBoundAssumption
<1>1. /\ ch # <<>>
      /\ results' = [results EXCEPT ![m.srv][m.index] = Tail(ch)]
      /\ Return(m, ok)
      /\ UNCHANGED <<logVars, handles, requestId, lastId, restarts, exec, precedes>>
  BY DEF MutexApplied
<1>2. ch \in Seq(Op) /\ results \in [Server -> [1 .. MaxLog -> Seq(Op)]]
  BY <1>0 DEF Inv, Types, TypeOK
<1>3. ok => m.op \in Agreed
  <2>1. 1 \in 1 .. Len(ch) /\ Head(ch) = ch[1]
    BY <1>1, <1>2
  <2>2. ch[1] \in Agreed
    BY <1>0, <2>1 DEF Inv, ServersRight, ChannelsRight
  <2>3. ch[1] \in Op
    BY <1>2, <2>1
  <2>4. isSameOp(m.op, ch[1]) => m.op = ch[1]
    BY <1>0, <2>3, RequestIsOp DEF isSameOp
  <2>. QED  BY <2>1, <2>2, <2>4
<1>. HIDE DEF ok
<1>4. CallsKept /\ (answered' = answered \/ (ok /\ answered' = answered \cup {m.op}))
  BY <1>1, ReturnCalls DEF Inv
<1>5. answered' \subseteq Agreed
  BY <1>3, <1>4 DEF Inv, OrderRight
<1>6. Tail(ch) \in Seq(Op)
  BY <1>1, <1>2
<1>7. results' \in [Server -> [1 .. MaxLog -> Seq(Op)]]
  BY <1>0, <1>1, <1>2, <1>6
<1>8. \A s \in Server : \A k \in 1 .. MaxLog :
          \/ results'[s][k] = results[s][k]
          \/ results[s][k] # <<>> /\ results'[s][k] = Tail(results[s][k])
  BY <1>0, <1>1, <1>2
<1>. QED  BY <1>1, <1>4, <1>5, <1>7, <1>8, HandlerStep

\* A new request of an idle clerk: its last one was answered, and what was answered
\* has been agreed on when the new one is in no log.
LEMMA SendMutexInv ==
    ASSUME Inv, NEW c \in Clerk, SendMutex(c)
    PROVE  Inv'
<1>. DEFINE op == Request(c, requestId[c] + 1)
            call == Call(op, leaderId[c])
<1>. USE DEF logVars, serverVars
<1>0. /\ requestId \in [Clerk -> Nat] /\ leaderId \in [Clerk -> Position]
      /\ server \in [Clerk -> Position] /\ handles \in [Clerk -> [Position -> Server]]
  BY DEF Inv, Types, TypeOK
<1>1. /\ Idle(c)
      /\ requestId' = [requestId EXCEPT ![c] = requestId[c] + 1]
      /\ server' = [server EXCEPT ![c] = leaderId[c]]
      /\ calls' = calls \cup {call}
      /\ precedes' = precedes \cup (answered \X {op})
      /\ UNCHANGED <<logVars, handles, leaderId, serverVars, restarts, exec, answered>>
  BY DEF SendMutex, Request
<1>2. op \in Op /\ op.client = c /\ op.id = requestId[c] + 1 /\ requestId[c] \in Nat
  BY <1>0, RequestIsOp
<1>3. call \in Mutex /\ call.op = op /\ call.index = 0 /\ call.awaited
  <2>1. handles[c][leaderId[c]] \in Server
    BY <1>0
  <2>. HIDE DEF op
  <2>. QED  BY <1>2, <2>1 DEF Call, Mutex
<1>. HIDE DEF op, call
<1>4. requestId' \in [Clerk -> Nat] /\ server' \in [Clerk -> Position]
      /\ requestId'[c] = requestId[c] + 1
      /\ \A b \in Clerk : requestId[b] <= requestId'[b] /\ (b # c => requestId'[b] = requestId[b])
  BY <1>0, <1>1
<1>5. Types'
  <2>1. precedes' \subseteq Op \X Op
    BY <1>1, <1>2 DEF Inv, Types, TypeOK
  <2>2. calls' \subseteq Mutex /\ \A m \in calls' : m.index <= MaxLog
    <3>1. calls \subseteq Mutex /\ \A m \in calls : m.index <= MaxLog
      BY DEF Inv, Types, TypeOK
    <3>2. call.index <= MaxLog
      BY <1>3, LogBoundAssumption
    <3>. QED  BY <1>1, <1>3, <3>1, <3>2
  <2>3. TypeOK'
    BY <1>1, <1>4, <2>1, <2>2 DEF Inv, Types, TypeOK
  <2>. QED  BY <1>1, <2>2, <2>3 DEF Inv, Types
<1>6. LogsRight'
  BY <1>1 DEF Inv, LogsRight, HasAgreed
<1>7. AllSent'
  <2>1. ASSUME NEW x \in Op, Sent(x)
        PROVE  x.id <= requestId'[x.client]
    <3>1. x.client \in Clerk /\ x.id \in Nat
      BY RequestIsOp
    <3>. QED  BY <1>0, <1>4, <2>1, <3>1 DEF Sent
  <2>2. \A m \in calls' : m.op.id <= requestId'[m.op.client]
    <3>1. \A m \in calls : m.op \in Op /\ Sent(m.op)
      BY CallTypes DEF Inv, AllSent
    <3>. QED  BY <1>1, <1>2, <1>3, <1>4, <2>1, <3>1
  <2>3. \A s \in Server : \A k \in 1 .. Len(log[s]) : log[s][k].id <= requestId'[log[s][k].client]
    BY <2>1, ElementTypes DEF Inv, Types, AllSent
  <2>4. \A k \in 1 .. Len(agreed) : agreed[k].id <= requestId'[agreed[k].client]
    BY <2>1, ElementTypes DEF Inv, Types, AllSent
  <2>. QED  BY <1>1, <2>2, <2>3, <2>4 DEF AllSent, Sent
<1>8. ~Pending(c)
  <2>1. \A m \in calls : m.awaited => m.op.client # c
    BY <1>1 DEF Idle
  <2>. QED  BY <2>1, RequestIsOp DEF Pending
<1>9. ClerksRight'
  <2>1. \A d \in 1 .. requestId[c] : Request(c, d) \in answered
    <3>. SUFFICES ASSUME NEW d \in 1 .. requestId[c]
                  PROVE  Request(c, d) \in answered
      OBVIOUS
    <3>1. requestId[c] # 0 /\ (d = requestId[c] \/ d \in 1 .. requestId[c] - 1)
      BY <1>2
    <3>. QED  BY <1>8, <3>1 DEF Inv, ClerksRight
  <2>. SUFFICES ASSUME NEW b \in Clerk
                PROVE  /\ \A d \in 1 .. requestId'[b] - 1 : Request(b, d) \in answered'
                       /\ \/ requestId'[b] = 0
                          \/ Request(b, requestId'[b]) \in answered'
                          \/ \E m \in calls' : m.awaited /\ m.op = Request(b, requestId'[b])
    BY DEF ClerksRight, Pending, Request
  <2>2. CASE b = c
    <3>1. requestId'[b] - 1 = requestId[c]
      BY <1>2, <1>4, <2>2
    <3>2. call \in calls' /\ call.awaited /\ call.op = Request(b, requestId'[b])
      BY <1>1, <1>3, <1>4, <2>2 DEF op
    <3>. QED  BY <1>1, <2>1, <2>2, <3>1, <3>2
  <2>3. CASE b # c
    <3>1. requestId'[b] = requestId[b] /\ calls \subseteq calls' /\ answered' = answered
      BY <1>1, <1>4, <2>3
    <3>. QED  BY <3>1 DEF Inv, ClerksRight, Pending
  <2>. QED  BY <2>2, <2>3
<1>10. OrderRight'
  <2>1. ASSUME NEW p \in answered \X {op}
        PROVE  p[1] \in Agreed /\ \A k \in 1 .. Len(agreed) : agreed[k] # p[2]
    <3>1. p[1] \in answered /\ p[2] = op
      OBVIOUS
    <3>2. \A k \in 1 .. Len(agreed) : agreed[k].id <= requestId[agreed[k].client]
      BY DEF Inv, AllSent, Sent
    <3>3. ~(op.id <= requestId[op.client])
      BY <1>2
    <3>. QED  BY <3>1, <3>2, <3>3 DEF Inv, OrderRight
  <2>2. \A p \in precedes' : /\ p[1] \in Agreed
                             /\ \A k \in 1 .. Len(agreed) :
                                agreed[k] = p[2] => \E j \in 1 .. k - 1 : agreed[j] = p[1]
    BY <1>1, <2>1 DEF Inv, OrderRight
  <2>. QED  BY <1>1, <2>2 DEF Inv, OrderRight, Agreed, Request
<1>11. ASSUME NEW s \in Server
       PROVE  ChannelsRight(s)' /\ TableRight(s)' /\ ExecRight(s)'
  <2>1. AgreedKept
    BY <1>1, ElementTypes DEF Inv, Types, AgreedKept
  <2>. QED  BY <1>1, <1>5, <2>1, ServerKept DEF Inv, ServersRight
<1>. QED  BY <1>5, <1>6, <1>7, <1>9, <1>10, <1>11 DEF Inv, ServersRight

\* A handler starts its request on a server that believes to lead.
LEMMA MutexStartInv ==
    ASSUME Inv, NEW m \in calls, MutexStart(m)
    PROVE  Inv'
<1>. DEFINE s == m.srv
            call == [m EXCEPT !.index = Len(log'[s])]
<1>. USE DEF logVars, serverVars, clerkVars, history
<1>0. m \in Mutex /\ s \in Server /\ m.op \in Op
  BY CallTypes DEF Inv
<1>1. /\ Len(log[s]) < MaxLog
      /\ log' = [log EXCEPT ![s] = Append(log[s], m.op)]
      /\ calls' = (calls \ {m}) \cup {call}
      /\ UNCHANGED <<leading, leader, elections, agreed, commitIndex, lastApplied>>
      /\ UNCHANGED <<clerkVars, serverVars, restarts, history>>
  BY DEF MutexStart, Start
<1>2. log \in [Server -> Seq(Op)] /\ log[s] \in Seq(Op) /\ Len(log[s]) \in Nat /\ MaxLog \in Nat
  BY <1>0, LogBoundAssumption, ElementTypes DEF Inv, Types, TypeOK
<1>3. Append(log[s], m.op) \in Seq(Op) /\ Len(Append(log[s], m.op)) = Len(log[s]) + 1
  BY <1>0, <1>2
<1>4. log' \in [Server -> Seq(Op)] /\ log'[s] = Append(log[s], m.op)
      /\ \A r \in Server : r # s => log'[r] = log[r]
  BY <1>0, <1>1, <1>2, <1>3
<1>5. call \in Mutex /\ call.index = Len(log[s]) + 1 /\ call.op = m.op /\ call.awaited = m.awaited
  <2>1. Len(log'[s]) \in Nat /\ Len(log'[s]) = Len(log[s]) + 1
    BY <1>2, <1>3, <1>4
  <2>. QED  BY <1>0, <2>1 DEF Mutex
<1>. HIDE DEF call
<1>6. ASSUME NEW r \in Server
      PROVE  /\ Len(log[r]) <= Len(log'[r]) /\ Len(log'[r]) <= MaxLog
             /\ \A k \in 1 .. Len(log[r]) : log'[r][k] = log[r][k]
             /\ \A k \in 1 .. Len(log'[r]) : k \in 1 .. Len(log[r]) \/ log'[r][k] = m.op
  <2>1. CASE r = s
    BY <1>0, <1>1, <1>2, <1>3, <1>4, <2>1
  <2>2. CASE r # s
    BY <1>4, <2>2, ElementTypes DEF Inv, Types
  <2>. QED  BY <2>1, <2>2
<1>7. CallsKept
  <2>1. server' \in [Clerk -> Position] /\ leaderId' \in [Clerk -> Position]
        /\ calls \subseteq Mutex /\ \A x \in calls : x.index <= MaxLog
    BY <1>1 DEF Inv, Types, TypeOK
  <2>2. calls' \subseteq Mutex /\ \A x \in calls' : x.index <= MaxLog
    BY <1>1, <1>2, <1>5, <2>1
  <2>3. \A x \in calls' : \E y \in calls : x.op = y.op
    BY <1>1, <1>5
  <2>4. \A x \in calls : x.awaited => \E y \in calls' : y.awaited /\ y.op = x.op
    BY <1>1, <1>5
  <2>. QED  BY <1>1, <2>1, <2>2, <2>3, <2>4 DEF CallsKept
<1>8. Types'
  <2>1. TypeOK'
    BY <1>1, <1>4, <1>7 DEF Inv, Types, TypeOK, CallsKept
  <2>. QED  BY <1>1, <1>6, <1>7, <2>1 DEF Inv, Types, CallsKept
<1>9. ASSUME NEW r \in Server, NEW n \in Nat, HasAgreed(log[r], n)
      PROVE  n <= Len(log'[r]) /\ \A k \in 1 .. n : log'[r][k] = agreed[k]
  <2>1. Len(log[r]) \in Nat /\ Len(log'[r]) \in Nat
    BY <1>2, <1>4, ElementTypes DEF Inv, Types
  <2>. QED  BY <1>6, <1>9, <2>1 DEF HasAgreed
<1>10. LogsRight'
  <2>1. leader # NoServer => leader \in Server
    BY DEF Inv, Types, TypeOK
  <2>2. Len(agreed) \in Nat /\ \A r \in Server : commitIndex[r] \in Nat
    BY ElementTypes DEF Inv, Types
  <2>. QED  BY <1>1, <1>9, <2>1, <2>2 DEF Inv, LogsRight, HasAgreed
<1>11. AllSent'
  <2>1. \A x \in calls' : Sent(x.op)
    BY <1>7 DEF Inv, AllSent, CallsKept
  <2>2. \A r \in Server : \A k \in 1 .. Len(log'[r]) : Sent(log'[r][k])
    BY <1>6 DEF Inv, AllSent
  <2>. QED  BY <1>1, <2>1, <2>2 DEF Inv, AllSent, Sent
<1>12. ClerksRight'
  BY <1>1, <1>7, CallsKeptClerks DEF Inv
<1>13. OrderRight'
  BY <1>1 DEF Inv, OrderRight, Agreed, Request
<1>14. ASSUME NEW r \in Server
       PROVE  ChannelsRight(r)' /\ TableRight(r)' /\ ExecRight(r)'
  <2>1. AgreedKept
    BY <1>1, ElementTypes DEF Inv, Types, AgreedKept
  <2>. QED  BY <1>1, <1>8, <2>1, ServerKept DEF Inv, ServersRight
<1>. QED  BY <1>8, <1>10, <1>11, <1>12, <1>13, <1>14 DEF Inv, ServersRight

-----------------------------------------------------------------------------
(* The server's loop and restarts *)

\* A request that is not new has been applied.
LEMMA NotNewApplied ==
    ASSUME Inv, NEW s \in Server, NEW op \in Op, op.id <= lastId[s][op.client]
    PROVE  \E h \in 1 .. lastApplied[s] : agreed[h] = op
<1>. DEFINE c == op.client
            n == lastApplied[s]
<1>0. c \in Clerk /\ op.id \in Nat \ {0} /\ op = Request(c, op.id)
  BY RequestIsOp
<1>1. n \in Nat /\ lastId[s][c] \in Nat /\ Len(agreed) \in Nat /\ n <= Len(agreed)
  <2>1. lastApplied[s] <= commitIndex[s] /\ commitIndex[s] <= Len(agreed)
    BY DEF Inv, LogsRight
  <2>2. lastApplied[s] \in Nat /\ commitIndex[s] \in Nat /\ Len(agreed) \in Nat
        /\ lastId[s][c] \in Nat
    BY <1>0, ElementTypes DEF Inv, Types
  <2>. QED  BY <2>1, <2>2
<1>2. lastId[s][c] # 0
  BY <1>0, <1>1
<1>3. PICK h \in 1 .. n : agreed[h] = Request(c, lastId[s][c])
  BY <1>0, <1>2 DEF Inv, ServersRight, TableRight
<1>4. CASE op.id = lastId[s][c]
  BY <1>0, <1>3, <1>4
<1>5. CASE op.id # lastId[s][c]
  <2>1. op.id \in 1 .. agreed[h].id - 1 /\ h \in 1 .. Len(agreed) /\ agreed[h].client = c
    BY <1>0, <1>1, <1>3, <1>5, RequestIsOp
  <2>2. PICK j \in 1 .. h - 1 : agreed[j] = Request(c, op.id)
    BY <2>1 DEF Inv, OrderRight
  <2>3. j \in 1 .. n
    BY <1>1
  <2>. QED  BY <1>0, <2>2, <2>3
<1>. QED  BY <1>4, <1>5

\* applyOpsLoop.
LEMMA ApplyInv ==
    ASSUME Inv, NEW s \in Server, applyOpsLoop(s)
    PROVE  Inv'
<1>. DEFINE n == lastApplied[s]
            k == n + 1
            op == log[s][k]
            c == op.client
<1>. USE DEF clerkVars
<1>0. /\ n \in Nat /\ commitIndex[s] \in Nat /\ Len(agreed) \in Nat /\ Len(log[s]) \in Nat
      /\ MaxLog \in Nat
  BY LogBoundAssumption, ElementTypes DEF Inv, Types
<1>1. /\ n < commitIndex[s]
      /\ lastApplied' = [lastApplied EXCEPT ![s] = k]
      /\ UNCHANGED <<log, leading, leader, elections, agreed, commitIndex>>
      /\ UNCHANGED <<clerkVars, calls, restarts, answered, precedes>>
  BY DEF applyOpsLoop, ReceiveApply
<1>2. /\ results' = [results EXCEPT ![s][k] = Append(results[s][k], op)]
      /\ exec' = IF IsNew(s, op) THEN [exec EXCEPT ![s] = Append(exec[s], op)] ELSE exec
      /\ lastId' = IF IsNew(s, op) THEN [lastId EXCEPT ![s][op.client] = op.id] ELSE lastId
  BY DEF applyOpsLoop
<1>3. k \in 1 .. Len(agreed) /\ k \in 1 .. MaxLog /\ k \in 1 .. Len(log[s]) /\ agreed[k] = op
  <2>1. commitIndex[s] <= Len(agreed) /\ commitIndex[s] <= Len(log[s]) /\ Len(log[s]) <= MaxLog
    BY DEF Inv, Types, LogsRight, HasAgreed
  <2>2. k \in 1 .. commitIndex[s]
    BY <1>0, <1>1
  <2>. QED  BY <1>0, <2>1, <2>2 DEF Inv, LogsRight, HasAgreed
<1>4. op \in Op /\ c \in Clerk /\ op.id \in Nat \ {0} /\ op = Request(c, op.id)
  BY <1>3, ElementTypes, RequestIsOp DEF Inv, Types
<1>5. /\ results \in [Server -> [1 .. MaxLog -> Seq(Op)]] /\ results[s][k] \in Seq(Op)
      /\ exec \in [Server -> Seq(Op)] /\ exec[s] \in Seq(Op)
      /\ lastId \in [Server -> [Clerk -> Nat]]
      /\ lastApplied \in [Server -> Nat]
  <2>1. /\ results \in [Server -> [1 .. MaxLog -> Seq(Op)]] /\ exec \in [Server -> Seq(Op)]
        /\ lastId \in [Server -> [Clerk -> Nat]] /\ lastApplied \in [Server -> Nat]
    BY DEF Inv, Types, TypeOK
  <2>. HIDE DEF k
  <2>. QED  BY <1>3, <2>1
<1>. HIDE DEF op, c
<1>6. Append(results[s][k], op) \in Seq(Op) /\ Append(exec[s], op) \in Seq(Op)
  BY <1>4, <1>5
<1>7. /\ results' \in [Server -> [1 .. MaxLog -> Seq(Op)]]
      /\ exec' \in [Server -> Seq(Op)]
      /\ lastId' \in [Server -> [Clerk -> Nat]]
      /\ lastApplied' \in [Server -> Nat]
  <2>1. results' \in [Server -> [1 .. MaxLog -> Seq(Op)]]
    BY <1>2, <1>5, <1>6
  <2>2. exec' \in [Server -> Seq(Op)]
    BY <1>2, <1>5, <1>6
  <2>3. lastId' \in [Server -> [Clerk -> Nat]]
    BY <1>2, <1>4, <1>5 DEF c
  <2>4. lastApplied' \in [Server -> Nat]
    BY <1>0, <1>1, <1>5
  <2>. QED  BY <2>1, <2>2, <2>3, <2>4
<1>8. Types'
  <2>1. TypeOK'
    BY <1>1, <1>7 DEF Inv, Types, TypeOK
  <2>. QED  BY <1>1, <2>1 DEF Inv, Types
<1>9. lastApplied'[s] = k /\ \A r \in Server : r # s => lastApplied'[r] = lastApplied[r]
  BY <1>1, <1>5
<1>10. LogsRight'
  <2>1. \A r \in Server : lastApplied'[r] <= commitIndex[r]
    BY <1>0, <1>1, <1>9 DEF Inv, LogsRight
  <2>. QED  BY <1>1, <2>1 DEF Inv, LogsRight, HasAgreed
<1>11. AllSent' /\ ClerksRight' /\ OrderRight'
  <2>1. AllSent'
    BY <1>1 DEF Inv, AllSent, Sent
  <2>2. ClerksRight'
    BY <1>1 DEF Inv, ClerksRight, Pending, Request
  <2>3. OrderRight'
    BY <1>1 DEF Inv, OrderRight, Agreed, Request
  <2>. QED  BY <2>1, <2>2, <2>3
<1>12. \A j \in 1 .. k : j \in 1 .. n \/ j = k
  BY <1>0
<1>13. \A j \in 1 .. n : j \in 1 .. k /\ j < k
  BY <1>0
<1>14. ChannelsRight(s) /\ TableRight(s) /\ ExecRight(s)
  BY DEF Inv, ServersRight
<1>15. ChannelsRight(s)'
  <2>. SUFFICES ASSUME NEW j \in 1 .. MaxLog
                PROVE  /\ results'[s][j] # <<>> => j <= k
                       /\ \A i \in 1 .. Len(results'[s][j]) : results'[s][j][i] \in Agreed
    BY <1>1, <1>9 DEF ChannelsRight, Agreed
  <2>1. CASE j = k
    <3>1. results'[s][j] = Append(results[s][k], op)
      BY <1>2, <1>3, <1>5, <2>1
    <3>2. \A i \in 1 .. Len(Append(results[s][k], op)) :
            \/ i \in 1 .. Len(results[s][k]) /\ Append(results[s][k], op)[i] = results[s][k][i]
            \/ Append(results[s][k], op)[i] = op
      <4>1. ASSUME NEW q \in Seq(Op), NEW i \in 1 .. Len(Append(q, op))
            PROVE  \/ i \in 1 .. Len(q) /\ Append(q, op)[i] = q[i]
                   \/ Append(q, op)[i] = op
        BY <1>4
      <4>. QED  BY <1>5, <4>1
    <3>3. op \in Agreed
      BY <1>3 DEF Agreed
    <3>4. \A i \in 1 .. Len(results[s][k]) : results[s][k][i] \in Agreed
      BY <1>3, <1>14 DEF ChannelsRight
    <3>5. k <= k
      BY <1>0
    <3>. QED  BY <2>1, <3>1, <3>2, <3>3, <3>4, <3>5
  <2>2. CASE j # k
    <3>1. results'[s][j] = results[s][j]
      BY <1>2, <1>5, <2>2
    <3>. QED  BY <1>0, <1>14, <3>1 DEF ChannelsRight
  <2>. QED  BY <2>1, <2>2
<1>16. TableRight(s)' /\ ExecRight(s)'
  <2>. DEFINE First(j, x) == agreed[j] = x /\ \A i \in 1 .. j - 1 : agreed[i] # x
              e == exec'[s]
              T == \A b \in Clerk :
                    /\ \A j \in 1 .. k : agreed[j].client = b => agreed[j].id <= lastId'[s][b]
                    /\ lastId'[s][b] # 0 => \E j \in 1 .. k : agreed[j] = Request(b, lastId'[s][b])
              E == /\ \A j \in 1 .. k : \E i \in 1 .. Len(e) : e[i] = agreed[j]
                   /\ \A i \in 1 .. Len(e) : \E j \in 1 .. k : First(j, e[i])
                   /\ \A i, j \in 1 .. Len(e) :
                        i < j => \E p, q \in 1 .. k : p < q /\ First(p, e[i]) /\ First(q, e[j])
  <2>0. SUFFICES T /\ E
    <3>1. T => TableRight(s)'
      BY <1>1, <1>9 DEF TableRight, Request
    <3>2. E => ExecRight(s)'
      <4>1. agreed' = agreed /\ lastApplied'[s] = k
        BY <1>1, <1>9
      <4>2. \A x : \A j \in 1 .. k : First(j, x) => FirstAgreed(j, x)'
        BY <4>1 DEF FirstAgreed
      <4>. HIDE DEF First, k, e
      <4>. SUFFICES ASSUME E
                    PROVE  ExecRight(s)'
        OBVIOUS
      <4>3. \A j \in 1 .. lastApplied'[s] : \E i \in 1 .. Len(exec'[s]) : exec'[s][i] = agreed'[j]
        BY <4>1 DEF e
      <4>4. \A i \in 1 .. Len(exec'[s]) : \E j \in 1 .. lastApplied'[s] : FirstAgreed(j, exec[s][i])'
        BY <4>1, <4>2 DEF e
      <4>5. \A i, j \in 1 .. Len(exec'[s]) : i < j =>
              \E p, q \in 1 .. lastApplied'[s] :
                p < q /\ FirstAgreed(p, exec[s][i])' /\ FirstAgreed(q, exec[s][j])'
        BY <4>1, <4>2 DEF e
      <4>. QED  BY <4>3, <4>4, <4>5 DEF ExecRight
    <3>. QED  BY <3>1, <3>2
  <2>. HIDE DEF First, k
  <2>1. \A x : \A j \in 1 .. n : FirstAgreed(j, x) => j \in 1 .. k /\ First(j, x)
    BY <1>13 DEF FirstAgreed, First
  <2>2. \A j \in 1 .. n : agreed[j].client = c => agreed[j].id <= lastId[s][c]
    BY <1>4, <1>14 DEF TableRight
  <2>3. CASE ~IsNew(s, op)
    <3>1. exec' = exec /\ lastId' = lastId
      BY <1>2, <2>3
    <3>2. op.id <= lastId[s][c] /\ lastId[s][c] \in Nat
      BY <1>4, <1>5, <2>3 DEF IsNew, c
    <3>3. PICK h \in 1 .. n : agreed[h] = op
      BY <1>4, <3>2, NotNewApplied DEF c
    <3>4. T
      <4>1. \A b \in Clerk : \A j \in 1 .. k : agreed[j].client = b => agreed[j].id <= lastId[s][b]
        BY <1>3, <1>12, <1>14, <3>2 DEF TableRight, c
      <4>2. \A b \in Clerk :
                lastId[s][b] # 0 => \E j \in 1 .. k : agreed[j] = Request(b, lastId[s][b])
        BY <1>13, <1>14 DEF TableRight
      <4>. QED  BY <3>1, <4>1, <4>2
    <3>5. E
      <4>1. \A j \in 1 .. k : \E i \in 1 .. Len(exec[s]) : exec[s][i] = agreed[j]
        BY <1>3, <1>12, <1>14, <3>3 DEF ExecRight
      <4>2. \A i \in 1 .. Len(exec[s]) : \E j \in 1 .. k : First(j, exec[s][i])
        BY <1>14, <2>1 DEF ExecRight
      <4>3. ASSUME NEW i \in 1 .. Len(exec[s]), NEW j \in 1 .. Len(exec[s]), i < j
            PROVE  \E p, q \in 1 .. k : p < q /\ First(p, exec[s][i]) /\ First(q, exec[s][j])
        <5>1. PICK p \in 1 .. n, q \in 1 .. n :
                    p < q /\ FirstAgreed(p, exec[s][i]) /\ FirstAgreed(q, exec[s][j])
          BY <1>14, <4>3 DEF ExecRight
        <5>. QED  BY <2>1, <5>1
      <4>. QED  BY <3>1, <4>1, <4>2, <4>3
    <3>. QED  BY <3>4, <3>5
  <2>4. CASE IsNew(s, op)
    <3>1. /\ exec' = [exec EXCEPT ![s] = Append(exec[s], op)]
          /\ lastId' = [lastId EXCEPT ![s][op.client] = op.id]
      BY <1>2, <2>4
    <3>2. op.id > lastId[s][c] /\ lastId[s][c] \in Nat
      BY <1>4, <1>5, <2>4 DEF IsNew, c
    <3>3. lastId'[s][c] = op.id /\ \A b \in Clerk : b # c => lastId'[s][b] = lastId[s][b]
      BY <1>4, <1>5, <3>1 DEF c
    <3>4. k \in 1 .. k /\ First(k, op)
      <4>1. \A j \in 1 .. k - 1 : j \in 1 .. n
        BY <1>0 DEF k
      <4>2. \A j \in 1 .. n : agreed[j] # op
        BY <1>4, <2>2, <3>2 DEF c
      <4>3. k \in 1 .. k
        BY <1>0 DEF k
      <4>. QED  BY <1>3, <4>1, <4>2, <4>3 DEF First
    <3>5. /\ e = Append(exec[s], op) /\ Len(e) = Len(exec[s]) + 1 /\ Len(exec[s]) \in Nat
          /\ e[Len(e)] = op
          /\ \A i \in 1 .. Len(exec[s]) : e[i] = exec[s][i]
      <4>1. e = Append(exec[s], op)
        BY <1>5, <3>1
      <4>. QED  BY <1>4, <1>5, <4>1
    <3>. HIDE DEF e
    <3>6. \A i \in 1 .. Len(e) : i \in 1 .. Len(exec[s]) \/ i = Len(e)
      BY <3>5
    <3>7. \A i \in 1 .. Len(exec[s]) : i \in 1 .. Len(e)
      BY <3>5
    <3>8. T
      <4>1. ASSUME NEW b \in Clerk, NEW j \in 1 .. k, agreed[j].client = b
            PROVE  agreed[j].id <= lastId'[s][b]
        <5>1. CASE j = k
          <6>1. b = c /\ agreed[j].id = op.id
            BY <1>3, <4>1, <5>1 DEF c
          <6>. QED  BY <1>4, <3>3, <6>1
        <5>2. CASE j \in 1 .. n /\ b # c
          BY <1>14, <3>3, <4>1, <5>2 DEF TableRight
        <5>3. CASE j \in 1 .. n /\ b = c
          <6>1. agreed[j].id \in Nat
            <7>1. j \in 1 .. Len(agreed)
              BY <1>0, <1>3, <5>3 DEF k
            <7>. QED  BY <7>1, ElementTypes, RequestIsOp DEF Inv, Types
          <6>. QED  BY <1>4, <2>2, <3>2, <3>3, <4>1, <5>3, <6>1
        <5>. QED  BY <1>12, <5>1, <5>2, <5>3
      <4>2. ASSUME NEW b \in Clerk, lastId'[s][b] # 0
            PROVE  \E j \in 1 .. k : agreed[j] = Request(b, lastId'[s][b])
        <5>1. CASE b = c
          BY <1>3, <1>4, <3>3, <3>4, <5>1
        <5>2. CASE b # c
          BY <1>13, <1>14, <3>3, <4>2, <5>2 DEF TableRight
        <5>. QED  BY <5>1, <5>2
      <4>. QED  BY <4>1, <4>2
    <3>9. E
      <4>1. ASSUME NEW j \in 1 .. k
            PROVE  \E i \in 1 .. Len(e) : e[i] = agreed[j]
        <5>1. CASE j = k
          <6>1. Len(e) \in 1 .. Len(e)
            BY <3>5
          <6>. QED  BY <1>3, <3>5, <5>1, <6>1
        <5>2. CASE j \in 1 .. n
          BY <1>14, <3>5, <3>7, <5>2 DEF ExecRight
        <5>. QED  BY <1>12, <5>1, <5>2
      <4>2. ASSUME NEW i \in 1 .. Len(e)
            PROVE  \E j \in 1 .. k : First(j, e[i])
        BY <1>14, <2>1, <3>4, <3>5, <3>6 DEF ExecRight
      <4>3. ASSUME NEW i \in 1 .. Len(e), NEW j \in 1 .. Len(e), i < j
            PROVE  \E p, q \in 1 .. k : p < q /\ First(p, e[i]) /\ First(q, e[j])
        <5>1. i \in 1 .. Len(exec[s])
          BY <3>5, <4>3
        <5>2. CASE j = Len(e)
          <6>1. PICK p \in 1 .. n : FirstAgreed(p, e[i])
            BY <1>14, <3>5, <5>1 DEF ExecRight
          <6>2. p < k /\ p \in 1 .. k /\ First(p, e[i])
            BY <1>13, <2>1, <6>1
          <6>. QED  BY <3>4, <3>5, <5>2, <6>2
        <5>3. CASE j \in 1 .. Len(exec[s])
          <6>1. PICK p \in 1 .. n, q \in 1 .. n :
                      p < q /\ FirstAgreed(p, e[i]) /\ FirstAgreed(q, e[j])
            BY <1>14, <3>5, <4>3, <5>1, <5>3 DEF ExecRight
          <6>. QED  BY <2>1, <6>1
        <5>. QED  BY <3>6, <5>2, <5>3
      <4>. QED  BY <4>1, <4>2, <4>3
    <3>. QED  BY <3>8, <3>9
  <2>. QED  BY <2>3, <2>4
<1>17. ASSUME NEW r \in Server, r # s
       PROVE  ChannelsRight(r)' /\ TableRight(r)' /\ ExecRight(r)'
  <2>1. AgreedKept
    BY <1>0, <1>1 DEF AgreedKept
  <2>2. results'[r] = results[r] /\ exec'[r] = exec[r] /\ lastId'[r] = lastId[r]
    BY <1>2, <1>5, <1>17
  <2>. QED  BY <1>8, <1>9, <1>17, <2>1, <2>2, ServerKept DEF Inv, ServersRight
<1>. QED  BY <1>8, <1>10, <1>11, <1>15, <1>16, <1>17 DEF Inv, ServersRight


\* A server is shut down and started again.
LEMMA RestartInv ==
    ASSUME Inv, NEW s \in Server, Restart(s)
    PROVE  Inv'
<1>. DEFINE failed == {m \in calls : m.srv = s /\ m.awaited}
            rest == {m \in calls : m.srv # s}
<1>1. /\ TryNext(failed, rest)
      /\ leading' = leading \ {s}
      /\ leader' = IF leader = s THEN NoServer ELSE leader
      /\ commitIndex' = [commitIndex EXCEPT ![s] = 0]
      /\ lastApplied' = [lastApplied EXCEPT ![s] = 0]
      /\ UNCHANGED <<log, elections, agreed>>
      /\ results' = [results EXCEPT ![s] = EmptyResults]
      /\ lastId' = [lastId EXCEPT ![s] = [c \in Clerk |-> 0]]
      /\ exec' = [exec EXCEPT ![s] = <<>>]
      /\ UNCHANGED <<handles, leaderId, requestId, answered, precedes>>
  BY DEF Restart, ShutdownServer, StartLockServer, RestartLog
<1>2. /\ log \in [Server -> Seq(Op)] /\ commitIndex \in [Server -> Nat]
      /\ lastApplied \in [Server -> Nat]
      /\ results \in [Server -> [1 .. MaxLog -> Seq(Op)]]
      /\ lastId \in [Server -> [Clerk -> Nat]]
      /\ exec \in [Server -> Seq(Op)]
  BY DEF Inv, Types, TypeOK
<1>3. CallsKept
  <2>0. failed \subseteq calls /\ rest \subseteq calls
        /\ \A x \in calls : x.awaited => x \in failed \/ x \in rest
    OBVIOUS
  <2>1. rest \in SUBSET Mutex /\ \A x \in rest : x.index <= MaxLog
    BY DEF Inv, Types, TypeOK
  <2>2. leaderId' \in [Clerk -> Position] /\ answered' = answered
    BY <1>1 DEF Inv, Types, TypeOK
  <2>. HIDE DEF failed, rest
  <2>3. failed \in SUBSET calls
    BY <2>0
  <2>4. /\ server' \in [Clerk -> Position] /\ calls' \subseteq Mutex
        /\ \A x \in calls' : x.index <= MaxLog
        /\ rest \subseteq calls'
        /\ \A m \in failed : \E x \in calls' : x.awaited /\ x.op = m.op
        /\ \A x \in calls' : x \in rest \/ \E m \in failed : x.op = m.op
    BY <1>1, <2>1, <2>3, TryNextCalls DEF Inv
  <2>5. \A x \in calls' : \E y \in calls : x.op = y.op
    BY <2>0, <2>4
  <2>6. \A x \in calls : x.awaited => \E y \in calls' : y.awaited /\ y.op = x.op
    BY <2>0, <2>4
  <2>. QED  BY <2>2, <2>4, <2>5, <2>6 DEF CallsKept
<1>. HIDE DEF failed, rest
<1>4. EmptyResults \in [1 .. MaxLog -> Seq(Op)] /\ \A k \in 1 .. MaxLog : EmptyResults[k] = <<>>
  BY DEF EmptyResults
<1>5. Types'
  <2>1. leading' \subseteq Server /\ leader' \in Server \cup {NoServer}
    BY <1>1 DEF Inv, Types, TypeOK
  <2>2. commitIndex' \in [Server -> Nat] /\ lastApplied' \in [Server -> Nat]
        /\ exec' \in [Server -> Seq(Op)]
    BY <1>1, <1>2
  <2>3. results' \in [Server -> [1 .. MaxLog -> Seq(Op)]]
    BY <1>1, <1>2, <1>4
  <2>4. lastId' \in [Server -> [Clerk -> Nat]]
    BY <1>1, <1>2
  <2>5. TypeOK'
    BY <1>1, <1>3, <2>1, <2>2, <2>3, <2>4 DEF Inv, Types, TypeOK, CallsKept
  <2>. QED  BY <1>1, <1>3, <2>5 DEF Inv, Types, CallsKept
<1>6. LogsRight'
  <2>1. ASSUME NEW r \in Server
        PROVE  /\ lastApplied'[r] <= commitIndex'[r]
               /\ commitIndex'[r] <= Len(agreed)
               /\ commitIndex'[r] <= Len(log[r])
               /\ \A k \in 1 .. commitIndex'[r] : log[r][k] = agreed[k]
    <3>1. CASE r = s
      <4>1. lastApplied'[r] = 0 /\ commitIndex'[r] = 0
        BY <1>1, <1>2, <3>1
      <4>2. Len(agreed) \in Nat /\ Len(log[r]) \in Nat
        BY ElementTypes DEF Inv, Types
      <4>. QED  BY <4>1, <4>2
    <3>2. CASE r # s
      <4>1. lastApplied'[r] = lastApplied[r] /\ commitIndex'[r] = commitIndex[r]
        BY <1>1, <1>2, <3>2
      <4>. QED  BY <4>1 DEF Inv, LogsRight, HasAgreed
    <3>. QED  BY <3>1, <3>2
  <2>2. leader' # NoServer => leader' = leader
    BY <1>1
  <2>. QED  BY <1>1, <2>1, <2>2 DEF Inv, LogsRight, HasAgreed
<1>7. AllSent'
  <2>1. \A x \in calls' : Sent(x.op)
    BY <1>3 DEF Inv, AllSent, CallsKept
  <2>. QED  BY <1>1, <2>1 DEF Inv, AllSent, Sent
<1>8. ClerksRight'
  BY <1>1, <1>3, CallsKeptClerks DEF Inv
<1>9. OrderRight'
  <2>1. agreed' = agreed /\ answered' = answered /\ precedes' = precedes
    BY <1>1
  <2>. QED  BY <2>1 DEF Inv, OrderRight, Agreed, Request
<1>10. ChannelsRight(s)' /\ TableRight(s)' /\ ExecRight(s)'
  <2>1. /\ lastApplied'[s] = 0 /\ exec'[s] = <<>>
        /\ \A k \in 1 .. MaxLog : results'[s][k] = <<>>
        /\ \A c \in Clerk : lastId'[s][c] = 0
    BY <1>1, <1>2, <1>4
  <2>2. ChannelsRight(s)'
    BY <2>1, LogBoundAssumption DEF ChannelsRight
  <2>3. TableRight(s)'
    BY <2>1 DEF TableRight
  <2>4. ExecRight(s)'
    BY <2>1 DEF ExecRight
  <2>. QED  BY <2>2, <2>3, <2>4
<1>11. ASSUME NEW r \in Server, r # s
       PROVE  ChannelsRight(r)' /\ TableRight(r)' /\ ExecRight(r)'
  <2>1. AgreedKept
    BY <1>1, ElementTypes DEF Inv, Types, AgreedKept
  <2>2. results'[r] = results[r] /\ exec'[r] = exec[r] /\ lastId'[r] = lastId[r]
        /\ lastApplied'[r] = lastApplied[r]
    BY <1>1, <1>2, <1>11
  <2>. QED  BY <1>5, <2>1, <2>2, ServerKept DEF Inv, ServersRight
<1>. QED  BY <1>5, <1>6, <1>7, <1>8, <1>9, <1>10, <1>11 DEF Inv, ServersRight

-----------------------------------------------------------------------------
(* The replicated log *)

\* What a step of the replicated log keeps, if it keeps the entries agreed on and
\* puts no new request into a log.
LEMMA RaftStepKeeps ==
    ASSUME Inv, TypeOK', LogsRight', AgreedKept, lastApplied' = lastApplied,
           UNCHANGED <<clerkVars, calls, serverVars, restarts, history>>,
           \A s \in Server : Len(log'[s]) <= MaxLog,
           \A s \in Server : \A k \in 1 .. Len(log'[s]) : Sent(log'[s][k]),
           \A k \in 1 .. Len(agreed') : Sent(agreed'[k]),
           OrderRight'
    PROVE  Inv'
<1>. USE DEF clerkVars, serverVars, history
<1>1. Types'
  BY DEF Inv, Types
<1>2. AllSent'
  BY DEF Inv, AllSent, Sent
<1>3. ClerksRight'
  BY DEF Inv, ClerksRight, Pending, Request
<1>4. \A s \in Server : ChannelsRight(s)' /\ TableRight(s)' /\ ExecRight(s)'
  BY <1>1, ServerKept DEF Inv, ServersRight
<1>. QED  BY <1>1, <1>2, <1>3, <1>4 DEF Inv, ServersRight

\* A new leader has all that was agreed on.
LEMMA ElectInv ==
    ASSUME Inv, NEW s \in Server, Elect(s),
           UNCHANGED <<clerkVars, calls, serverVars, restarts, history>>
    PROVE  Inv'
<1>. USE DEF clerkVars, serverVars, history
<1>1. /\ IsPrefixOf(agreed, log[s])
      /\ leader' = s /\ leading' = leading \cup {s}
      /\ UNCHANGED <<log, agreed, commitIndex, lastApplied>>
  BY DEF Elect
<1>2. TypeOK' /\ AgreedKept
  <2>1. TypeOK'
    BY <1>1 DEF Inv, Types, TypeOK
  <2>2. AgreedKept
    BY <1>1, ElementTypes DEF Inv, Types, AgreedKept
  <2>. QED  BY <2>1, <2>2
<1>3. HasAgreed(log[s], Len(agreed))
  <2>1. log[s] \in Seq(Op) /\ agreed \in Seq(Op) /\ Len(agreed) <= Len(log[s])
        /\ SubSeq(log[s], 1, Len(agreed)) = agreed
    BY <1>1 DEF Inv, Types, TypeOK, IsPrefixOf
  <2>2. \A k \in 1 .. Len(agreed) : SubSeq(log[s], 1, Len(agreed))[k] = log[s][k]
    BY <2>1
  <2>. QED  BY <2>1, <2>2 DEF HasAgreed
<1>4. LogsRight'
  BY <1>1, <1>3 DEF Inv, LogsRight, HasAgreed
<1>5. OrderRight'
  BY <1>1 DEF Inv, OrderRight, Agreed, Request
<1>. QED  BY <1>1, <1>2, <1>4, <1>5, RaftStepKeeps DEF Inv, Types, AllSent

\* A server that takes over the leader's log gets all that was agreed on.
LEMMA ReplicateInv ==
    ASSUME Inv, NEW s \in Server, Replicate(s),
           UNCHANGED <<clerkVars, calls, serverVars, restarts, history>>
    PROVE  Inv'
<1>. USE DEF clerkVars, serverVars, history
<1>1. /\ leader # NoServer /\ leader # s
      /\ log' = [log EXCEPT ![s] = log[leader]]
      /\ commitIndex' = [commitIndex EXCEPT ![s] =
            IF commitIndex[s] < commitIndex[leader] THEN commitIndex[leader] ELSE commitIndex[s]]
      /\ leading' = leading \ {s}
      /\ UNCHANGED <<leader, elections, agreed, lastApplied>>
  BY DEF Replicate
<1>2. leader \in Server /\ log \in [Server -> Seq(Op)] /\ commitIndex \in [Server -> Nat]
  BY <1>1 DEF Inv, Types, TypeOK
<1>3. log' \in [Server -> Seq(Op)] /\ log'[s] = log[leader]
      /\ \A r \in Server : r # s => log'[r] = log[r]
  BY <1>1, <1>2
<1>4. /\ commitIndex' \in [Server -> Nat]
      /\ \A r \in Server : r # s => commitIndex'[r] = commitIndex[r]
      /\ commitIndex'[s] \in {commitIndex[s], commitIndex[leader]}
      /\ commitIndex[s] <= commitIndex'[s]
  BY <1>1, <1>2
<1>5. TypeOK' /\ AgreedKept
  <2>1. leading' \subseteq Server /\ leader' = leader /\ agreed' = agreed
        /\ lastApplied' = lastApplied
    BY <1>1 DEF Inv, Types, TypeOK
  <2>2. TypeOK'
    BY <1>3, <1>4, <2>1 DEF Inv, Types, TypeOK
  <2>3. AgreedKept
    BY <2>1, ElementTypes DEF Inv, Types, AgreedKept
  <2>. QED  BY <2>2, <2>3
<1>6. ASSUME NEW r \in Server
      PROVE  /\ lastApplied[r] <= commitIndex'[r]
             /\ commitIndex'[r] <= Len(agreed)
             /\ commitIndex'[r] <= Len(log'[r])
             /\ \A k \in 1 .. commitIndex'[r] : log'[r][k] = agreed[k]
  <2>1. CASE r = s
    <3>1. Len(agreed) \in Nat /\ Len(log[leader]) \in Nat /\ lastApplied[s] \in Nat
          /\ commitIndex[s] \in Nat /\ commitIndex'[s] \in Nat
      BY <1>2, <1>4, ElementTypes DEF Inv, Types
    <3>2. lastApplied[s] <= commitIndex[s] /\ commitIndex'[s] <= Len(agreed)
      BY <1>2, <1>4 DEF Inv, LogsRight
    <3>3. Len(agreed) <= Len(log[leader]) /\ \A k \in 1 .. Len(agreed) : log[leader][k] = agreed[k]
      BY <1>1 DEF Inv, LogsRight, HasAgreed
    <3>4. log'[s] = log[leader] /\ commitIndex[s] <= commitIndex'[s]
      BY <1>2, <1>3, <1>4
    <3>. QED  BY <2>1, <3>1, <3>2, <3>3, <3>4
  <2>2. CASE r # s
    <3>1. log'[r] = log[r] /\ commitIndex'[r] = commitIndex[r]
      BY <1>3, <1>4, <2>2
    <3>2. /\ lastApplied[r] <= commitIndex[r] /\ commitIndex[r] <= Len(agreed)
          /\ commitIndex[r] <= Len(log[r])
          /\ \A k \in 1 .. commitIndex[r] : log[r][k] = agreed[k]
      BY DEF Inv, LogsRight, HasAgreed
    <3>. QED  BY <3>1, <3>2
  <2>. QED  BY <2>1, <2>2
<1>7. LogsRight'
  <2>1. log'[leader] = log[leader]
    BY <1>1, <1>2, <1>3
  <2>. QED  BY <1>1, <1>6, <2>1 DEF Inv, LogsRight, HasAgreed
<1>8. OrderRight'
  BY <1>1 DEF Inv, OrderRight, Agreed, Request
<1>9. \A r \in Server : Len(log'[r]) <= MaxLog /\ \A k \in 1 .. Len(log'[r]) : Sent(log'[r][k])
  BY <1>2, <1>3 DEF Inv, Types, AllSent
<1>. QED  BY <1>1, <1>5, <1>7, <1>8, <1>9, RaftStepKeeps DEF Inv, AllSent

\* The leader's next entry is agreed on.  The earlier requests of its client were
\* answered, and so was everything that its client knew of when it sent it: all
\* that has been agreed on before.
LEMMA AgreeInv ==
    ASSUME Inv, Agree, UNCHANGED <<clerkVars, calls, serverVars, restarts, history>>
    PROVE  Inv'
<1>. DEFINE l == log[leader]
            n == Len(agreed)
<1>. USE DEF clerkVars, serverVars, history
<1>1. /\ leader # NoServer
      /\ commitIndex[leader] < Len(l)
      /\ commitIndex' = [commitIndex EXCEPT ![leader] = commitIndex[leader] + 1]
      /\ agreed' = IF commitIndex[leader] = n THEN Append(agreed, l[n + 1]) ELSE agreed
      /\ UNCHANGED <<log, leading, leader, elections, lastApplied>>
  BY DEF Agree
<1>2. leader \in Server /\ commitIndex \in [Server -> Nat] /\ agreed \in Seq(Op) /\ n \in Nat
      /\ l \in Seq(Op) /\ Len(l) \in Nat /\ commitIndex[leader] \in Nat
  BY <1>1 DEF Inv, Types, TypeOK
<1>3. n <= Len(l) /\ (\A k \in 1 .. n : l[k] = agreed[k]) /\ commitIndex[leader] <= n
  BY <1>1, <1>2 DEF Inv, LogsRight, HasAgreed
<1>4. commitIndex' \in [Server -> Nat] /\ commitIndex'[leader] = commitIndex[leader] + 1
      /\ \A r \in Server : r # leader => commitIndex'[r] = commitIndex[r]
  BY <1>1, <1>2
<1>5. CASE commitIndex[leader] = n
  <2>. DEFINE x == l[n + 1]
  <2>1. n + 1 \in 1 .. Len(l) /\ x \in Op /\ Sent(x)
    <3>1. n + 1 \in 1 .. Len(l)
      BY <1>1, <1>2, <1>5
    <3>2. \A k \in 1 .. Len(l) : l[k] \in Op /\ Sent(l[k])
      BY <1>2, ElementTypes DEF Inv, Types, AllSent
    <3>. QED  BY <3>1, <3>2
  <2>. HIDE DEF x
  <2>2. agreed' = Append(agreed, x)
    BY <1>1, <1>5 DEF x
  <2>3. agreed' \in Seq(Op) /\ Len(agreed') = n + 1 /\ agreed'[n + 1] = x
        /\ \A k \in 1 .. n : agreed'[k] = agreed[k]
    BY <1>2, <2>1, <2>2
  <2>4. \A k \in 1 .. Len(agreed') : k \in 1 .. n \/ k = n + 1
    BY <1>2, <2>3
  <2>5. AgreedKept /\ TypeOK'
    <3>1. AgreedKept
      BY <1>2, <2>3 DEF AgreedKept
    <3>2. TypeOK'
      BY <1>1, <1>4, <2>3 DEF Inv, Types, TypeOK
    <3>. QED  BY <3>1, <3>2
  <2>6. \A k \in 1 .. Len(agreed') : l[k] = agreed'[k]
    BY <1>3, <2>3, <2>4 DEF x
  <2>7. ASSUME NEW r \in Server
        PROVE  /\ lastApplied[r] <= commitIndex'[r]
               /\ commitIndex'[r] <= Len(agreed')
               /\ commitIndex'[r] <= Len(log[r])
               /\ \A k \in 1 .. commitIndex'[r] : log[r][k] = agreed'[k]
    <3>0. lastApplied[r] \in Nat /\ commitIndex[r] \in Nat
          /\ lastApplied[r] <= commitIndex[r] /\ commitIndex[r] <= n
          /\ commitIndex[r] <= Len(log[r])
          /\ \A k \in 1 .. commitIndex[r] : log[r][k] = agreed[k]
      BY ElementTypes DEF Inv, Types, LogsRight, HasAgreed
    <3>1. CASE r = leader
      BY <1>1, <1>2, <1>4, <1>5, <2>3, <2>6, <3>0, <3>1
    <3>2. CASE r # leader
      <4>1. \A k \in 1 .. commitIndex[r] : k \in 1 .. n
        BY <1>2, <3>0
      <4>. QED  BY <1>2, <1>4, <2>3, <3>0, <3>2, <4>1
    <3>. QED  BY <3>1, <3>2
  <2>8. LogsRight'
    <3>1. Len(agreed') <= Len(l)
      BY <1>1, <1>2, <1>5, <2>3
    <3>. QED  BY <1>1, <2>6, <2>7, <3>1 DEF LogsRight, HasAgreed
  <2>9. \A y \in Agreed : \E j \in 1 .. n : agreed'[j] = y
    BY <2>3 DEF Agreed
  <2>10. OrderRight'
    <3>0. Agreed \subseteq Agreed'
      <4>1. \A k \in 1 .. n : k \in 1 .. Len(agreed')
        BY <1>2, <2>3
      <4>. QED  BY <2>3, <4>1 DEF Agreed
    <3>1. answered' \subseteq Agreed'
      BY <3>0 DEF Inv, OrderRight
    <3>2. ASSUME NEW k \in 1 .. Len(agreed'), NEW d \in 1 .. agreed'[k].id - 1
          PROVE  \E j \in 1 .. k - 1 : agreed'[j] = Request(agreed'[k].client, d)
      <4>1. CASE k \in 1 .. n
        <5>1. PICK j \in 1 .. k - 1 : agreed[j] = Request(agreed[k].client, d)
          BY <2>3, <3>2, <4>1 DEF Inv, OrderRight
        <5>2. j \in 1 .. n
          BY <1>2, <4>1
        <5>. QED  BY <2>3, <4>1, <5>1, <5>2
      <4>2. CASE k = n + 1
        <5>1. x.client \in Clerk /\ x.id \in Nat /\ x.id <= requestId[x.client]
              /\ requestId[x.client] \in Nat
          <6>1. x.client \in Clerk /\ x.id \in Nat
            BY <2>1, RequestIsOp
          <6>. QED  BY <2>1, <6>1 DEF Sent, Inv, Types, TypeOK
        <5>2. d \in 1 .. requestId[x.client] - 1
          BY <2>3, <3>2, <4>2, <5>1
        <5>3. Request(x.client, d) \in Agreed
          BY <5>1, <5>2 DEF Inv, ClerksRight, OrderRight
        <5>4. k - 1 = n
          BY <1>2, <4>2
        <5>. QED  BY <2>3, <2>9, <4>2, <5>3, <5>4
      <4>. QED  BY <2>4, <4>1, <4>2
    <3>3. ASSUME NEW p \in precedes
          PROVE  /\ p[1] \in Agreed'
                 /\ \A k \in 1 .. Len(agreed') :
                    agreed'[k] = p[2] => \E j \in 1 .. k - 1 : agreed'[j] = p[1]
      <4>1. p[1] \in Agreed
        BY DEF Inv, OrderRight
      <4>2. ASSUME NEW k \in 1 .. n, agreed'[k] = p[2]
            PROVE  \E j \in 1 .. k - 1 : agreed'[j] = p[1]
        <5>1. PICK j \in 1 .. k - 1 : agreed[j] = p[1]
          BY <2>3, <4>2 DEF Inv, OrderRight
        <5>2. j \in 1 .. n
          BY <1>2
        <5>. QED  BY <2>3, <5>1, <5>2
      <4>3. \E j \in 1 .. (n + 1) - 1 : agreed'[j] = p[1]
        <5>1. (n + 1) - 1 = n
          BY <1>2
        <5>. QED  BY <2>9, <4>1, <5>1
      <4>. QED  BY <2>4, <3>0, <4>1, <4>2, <4>3
    <3>. QED  BY <3>1, <3>2, <3>3 DEF OrderRight, Request
  <2>11. \A k \in 1 .. Len(agreed') : Sent(agreed'[k])
    BY <2>1, <2>3, <2>4 DEF Inv, AllSent
  <2>. QED  BY <1>1, <2>5, <2>8, <2>10, <2>11, RaftStepKeeps DEF Inv, Types, AllSent
<1>6. CASE commitIndex[leader] # n
  <2>1. agreed' = agreed /\ commitIndex[leader] + 1 <= n
    BY <1>1, <1>2, <1>3, <1>6
  <2>2. TypeOK' /\ AgreedKept
    BY <1>1, <1>2, <1>4, <2>1 DEF Inv, Types, TypeOK, AgreedKept
  <2>3. ASSUME NEW r \in Server
        PROVE  /\ lastApplied[r] <= commitIndex'[r]
               /\ commitIndex'[r] <= n
               /\ commitIndex'[r] <= Len(log[r])
               /\ \A k \in 1 .. commitIndex'[r] : log[r][k] = agreed[k]
    <3>0. lastApplied[r] \in Nat /\ commitIndex[r] \in Nat
          /\ lastApplied[r] <= commitIndex[r] /\ commitIndex[r] <= n
          /\ commitIndex[r] <= Len(log[r])
          /\ \A k \in 1 .. commitIndex[r] : log[r][k] = agreed[k]
      BY ElementTypes DEF Inv, Types, LogsRight, HasAgreed
    <3>1. CASE r = leader
      BY <1>1, <1>2, <1>3, <1>4, <2>1, <3>0, <3>1
    <3>2. CASE r # leader
      BY <1>4, <3>0, <3>2
    <3>. QED  BY <3>1, <3>2
  <2>4. LogsRight'
    BY <1>1, <1>3, <2>1, <2>3 DEF LogsRight, HasAgreed
  <2>5. OrderRight'
    BY <2>1 DEF Inv, OrderRight, Agreed, Request
  <2>. QED  BY <1>1, <2>1, <2>2, <2>4, <2>5, RaftStepKeeps DEF Inv, Types, AllSent
<1>. QED  BY <1>5, <1>6

-----------------------------------------------------------------------------
(* The theorems *)

\* Every step keeps the invariant.
LEMMA NextInv == Inv /\ [Next]_vars => Inv'
<1>. SUFFICES ASSUME Inv, [Next]_vars
              PROVE  Inv'
  OBVIOUS
<1>1. CASE Next
  <2>1. ASSUME NEW m \in calls,
               CallFails(m) \/ MutexWrongLeader(m) \/ MutexStart(m) \/ MutexApplied(m) \/ MutexTimeout(m)
        PROVE  Inv'
    BY <2>1, CallFailsInv, NoAnswerInv, MutexStartInv, MutexAppliedInv
  <2>2. ASSUME NEW s \in Server, applyOpsLoop(s) \/ Restart(s)
        PROVE  Inv'
    BY <2>2, ApplyInv, RestartInv
  <2>3. CASE RaftStep /\ UNCHANGED <<clerkVars, calls, serverVars, restarts, history>>
    BY <2>3, ElectInv, ReplicateInv, AgreeInv DEF RaftStep
  <2>. QED  BY <1>1, <2>1, <2>2, <2>3, SendMutexInv DEF Next
<1>2. CASE UNCHANGED vars
  <2>1. UNCHANGED <<logVars, handles, requestId, serverVars, exec, precedes>>
        /\ server' = server /\ leaderId' = leaderId /\ calls' = calls /\ answered' = answered
    BY <1>2 DEF vars, clerkVars, history
  <2>2. CallsKept
    BY <2>1 DEF Inv, Types, TypeOK, CallsKept
  <2>. QED  BY <2>1, <2>2, NoResultStep
<1>. QED  BY <1>1, <1>2

\* The inductive invariant holds in every reachable state: what is in any log has
\* the client's earlier requests among the entries that stay.
THEOREM Invariance == Spec => []Inv
BY InitInv, NextInv, PTL DEF Spec

\* Every reachable state of clerks and servers is well typed.
THEOREM TypeCorrect == Spec => []TypeOK
<1>1. Inv => TypeOK
  BY DEF Inv, Types
<1>. QED  BY <1>1, Invariance, PTL

\* applyOpsLoop applies each request that was agreed on exactly once, at its first
\* occurrence: the table of last request ids never takes a new request for a
\* duplicate, although a clerk's requests may be in one log twice and reach the
\* servers through any number of leaders, retries and restarts.
THEOREM AppliedExactlyOnce == Spec => []ExactlyOnce
<1>. QED  BY InvExactlyOnce, Invariance, PTL

\* A request that SendMutex has returned for stays agreed on, and all servers apply
\* it before every request that a clerk sent after that.
THEOREM AnswersLinearizable == Spec => []Linearizable
<1>. QED  BY InvLinearizable, Invariance, PTL

\* applyOpsLoop, which sends results with ls.mu locked, never waits for room.
THEOREM RoomForResult == Spec => []ApplyNeverBlocks
<1>. QED  BY InvApplyNeverBlocks, Invariance, PTL

=============================================================================
