----------------------------- MODULE BankProofs -----------------------------
(***************************************************************************)
(* The bank of bank/bank.go implements AtomicBank, for any goroutines,     *)
(* accounts and calls: every method takes effect at one moment.            *)
(*                                                                         *)
(* The argument is about locks: a call that has read a balance, or has     *)
(* debited and not yet credited, holds the locks of its accounts, so what  *)
(* it has read is still the balance when it writes, and at most one        *)
(* transfer is half done on an account, of which nobody else reads then.   *)
(* Conversely a lock that is taken is one that its goroutine will give     *)
(* back, but for those that Withdraw left behind.                          *)
(***************************************************************************)
EXTENDS Bank, TLAPS

-----------------------------------------------------------------------------
(* The inductive invariant *)

R(t) == request[t][1]

\* A call past its lookup found its accounts, which are never removed.
Found(t) ==
    pc[t] \in {"lock", "lock2", "read", "write", "credit", "unlock2", "unlock"}
        => R(t).op # "CreateAccount" /\ ~NotFound(R(t))

\* Where only transfers get.
OnlyTransfers(t) == pc[t] \in {"lock2", "credit", "unlock2"} => Transfers(R(t))

\* The locks that a call has taken and not given back.
Locked(t) ==
    /\ pc[t] \in {"lock2", "read", "write", "credit", "unlock2", "unlock"}
        => lock[First(R(t))] = t
    /\ pc[t] \in {"read", "write", "credit", "unlock2"} /\ Transfers(R(t))
        => lock[Second(R(t))] = t

\* A call writes on the basis of the balance of that moment.
ReadIsFresh(t) == pc[t] = "write" => seen[t] = balance[R(t).id] /\ Moves(R(t), seen[t])

\* The locks that a goroutine has are those its call will give back, and those that
\* a call of Withdraw left behind.
Owned(t) == \A a \in Account : lock[a] = t => a \in Holds(t) \cup leaked

Right(t) == Found(t) /\ OnlyTransfers(t) /\ Locked(t) /\ ReadIsFresh(t) /\ Owned(t)

Inv == Types /\ \A t \in Thread : Right(t)

-----------------------------------------------------------------------------
(* Facts about calls and locks *)

\* A sequence of length 0 is the empty one, one of length 1 has one element.
LEMMA ShortSeq ==
    ASSUME NEW S, NEW q \in Seq(S)
    PROVE  /\ Len(q) = 0 <=> q = <<>>
           /\ Len(q) = 1 => q[1] \in S /\ q # <<>> /\ q = <<q[1]>>
OBVIOUS

\* The arguments of a call.
LEMMA CallTypes ==
    ASSUME Types, NEW t \in Thread, pc[t] # "idle"
    PROVE  /\ R(t) \in Request /\ R(t) \in RequestType
           /\ R(t).id \in Account /\ R(t).to \in Account
           /\ R(t).amount \in Int /\ R(t).threshold \in Int /\ R(t).overdraw \in BOOLEAN
           /\ First(R(t)) \in Account /\ Second(R(t)) \in Account
<1>1. request[t] \in Seq(Request) /\ Len(request[t]) = 1
  BY DEF Types, At
<1>2. R(t) \in Request
  BY <1>1, ShortSeq DEF R
<1>3. R(t) \in RequestType
  BY <1>2, RequestAssumption
<1>4. R(t).id \in Account /\ R(t).to \in Account /\ R(t).amount \in Int
      /\ R(t).threshold \in Int /\ R(t).overdraw \in BOOLEAN
  BY <1>3 DEF RequestType
<1>. QED  BY <1>2, <1>3, <1>4 DEF First, Second

\* A call that reads or writes balances has locked the accounts concerned.
LEMMA OwnsAccounts ==
    ASSUME Inv, NEW t \in Thread, pc[t] \in {"read", "write", "credit"}
    PROVE  /\ lock[R(t).id] = t
           /\ Transfers(R(t)) => lock[R(t).to] = t /\ R(t).to # R(t).id
<1>1. lock[First(R(t))] = t /\ (Transfers(R(t)) => lock[Second(R(t))] = t)
  BY DEF Inv, Right, Locked
<1>2. Transfers(R(t)) => R(t).to # R(t).id
  BY DEF Inv, Right, Found, NotFound
<1>3. CASE First(R(t)) = R(t).id
  BY <1>1, <1>2, <1>3 DEF Second
<1>4. CASE First(R(t)) # R(t).id
  <2>1. First(R(t)) = R(t).to /\ Transfers(R(t)) /\ Second(R(t)) = R(t).id
    BY <1>4 DEF First, Second
  <2>. QED  BY <1>1, <1>2, <2>1
<1>. QED  BY <1>3, <1>4

\* The steps of another goroutine leave a call alone that keeps its locks and the
\* balances of what it has locked.
LEMMA Bystander ==
    ASSUME Inv, NEW t \in Thread,
           pc'[t] = pc[t], request'[t] = request[t], seen'[t] = seen[t],
           accounts \subseteq accounts', leaked \subseteq leaked',
           \A a \in Account : lock[a] = t => lock'[a] = t /\ balance'[a] = balance[a],
           \A a \in Account : lock'[a] = t => lock[a] = t
    PROVE  Right(t)'
<1>0. R(t)' = R(t)
  BY DEF R
<1>1. Right(t)
  BY DEF Inv
<1>2. pc[t] # "idle" => First(R(t)) \in Account /\ Second(R(t)) \in Account /\ R(t).id \in Account
  BY CallTypes DEF Inv
<1>3. Found(t)'
  BY <1>0, <1>1 DEF Right, Found, NotFound, R
<1>4. OnlyTransfers(t)'
  BY <1>0, <1>1 DEF Right, OnlyTransfers, R
<1>5. Locked(t)'
  BY <1>0, <1>1, <1>2 DEF Right, Locked, R
<1>6. ReadIsFresh(t)'
  <2>1. pc[t] = "write" => lock[R(t).id] = t
    BY OwnsAccounts
  <2>. QED  BY <1>0, <1>1, <1>2, <2>1 DEF Right, ReadIsFresh, R
<1>7. Owned(t)'
  <2>1. Holds(t)' = Holds(t)
    BY DEF Holds
  <2>. QED  BY <1>1, <2>1 DEF Right, Owned
<1>. QED  BY <1>3, <1>4, <1>5, <1>6, <1>7 DEF Right

\* Whose locks a step of the goroutine's own leaves accounted for: each it keeps is
\* still to be given back or was left behind, each it takes will be given back.
LEMMA StaysOwned ==
    ASSUME Inv, NEW t \in Thread, leaked \subseteq leaked',
           \A a \in Account : lock'[a] = t =>
                \/ a \in Holds(t)'
                \/ lock[a] = t /\ (a \in Holds(t) => a \in leaked')
    PROVE  Owned(t)'
<1>1. Owned(t)
  BY DEF Inv, Right
<1>. QED  BY <1>1 DEF Owned

-----------------------------------------------------------------------------
(* Type correctness *)

\* What a method can return.
LEMMA OutcomeTypes ==
    /\ Panics \in Outcome
    /\ \A ok \in BOOLEAN : Returns(ok) \in Outcome
    /\ \A n \in Int : ReturnsInt(n) \in Outcome
BY DEF Panics, Returns, ReturnsInt, Outcome

\* What a call is told that goes no further than its lookup.
LEMMA MissingType ==
    ASSUME NEW r \in RequestType, r.op # "CreateAccount"
    PROVE  Missing(r) \in Outcome
<1>1. r.op \in {"Deposit", "Withdraw", "Transfer", "DepositAndCompare", "GetBalance"}
  BY DEF RequestType
<1>2. Missing(r) \in {Returns(TRUE), Returns(FALSE), Panics}
  BY <1>1 DEF Missing
<1>. QED  BY <1>2, OutcomeTypes

\* The variables of the goroutines after a step of one of them.
LEMMA ThreadTypes ==
    ASSUME Types, NEW t \in Thread, NEW loc \in Location, Goto(t, loc),
           NEW q \in Seq(Request), request' = [request EXCEPT ![t] = q],
           NEW o \in Seq(Outcome), outcome' = [outcome EXCEPT ![t] = o],
           Len(q) = IF loc = "idle" THEN 0 ELSE 1,
           Len(o) = IF loc \in {"unlock2", "unlock", "return"} THEN 1 ELSE 0
    PROVE  /\ pc' \in [Thread -> Location]
           /\ request' \in [Thread -> Seq(Request)]
           /\ outcome' \in [Thread -> Seq(Outcome)]
           /\ \A u \in Thread :
                /\ Len(request'[u]) = IF pc'[u] = "idle" THEN 0 ELSE 1
                /\ Len(outcome'[u]) = IF pc'[u] \in {"unlock2", "unlock", "return"} THEN 1 ELSE 0
<1>1. pc \in [Thread -> Location] /\ request \in [Thread -> Seq(Request)]
      /\ outcome \in [Thread -> Seq(Outcome)]
  BY DEF Types
<1>2. pc' = [pc EXCEPT ![t] = loc]
  BY DEF Goto
<1>3. pc' \in [Thread -> Location] /\ request' \in [Thread -> Seq(Request)]
      /\ outcome' \in [Thread -> Seq(Outcome)]
  BY <1>1, <1>2
<1>4. pc'[t] = loc /\ request'[t] = q /\ outcome'[t] = o
  BY <1>1, <1>2
<1>5. \A u \in Thread : u # t => pc'[u] = pc[u] /\ request'[u] = request[u] /\ outcome'[u] = outcome[u]
  BY <1>1, <1>2
<1>6. \A u \in Thread :
        /\ Len(request[u]) = IF pc[u] = "idle" THEN 0 ELSE 1
        /\ Len(outcome[u]) = IF pc[u] \in {"unlock2", "unlock", "return"} THEN 1 ELSE 0
  BY DEF Types, At
<1>. QED  BY <1>3, <1>4, <1>5, <1>6

Decided == {"unlock2", "unlock", "return"}

\* A step within a call, which decides what the call returns or does not.
LEMMA StepTypes ==
    ASSUME Types, NEW t \in Thread, pc[t] # "idle",
           NEW loc \in Location \ {"idle"}, Goto(t, loc), request' = request,
           \/ outcome' = outcome /\ (pc[t] \in Decided <=> loc \in Decided)
           \/ loc \in Decided /\ \E o \in Outcome : Decide(t, o),
           accounts' \subseteq Account, balance' \in [Account -> Int],
           lock' \in [Account -> Thread \cup {Free}],
           seen' \in [Thread -> Int], calls' = calls, leaked' \subseteq Account
    PROVE  Types'
<1>1. request \in [Thread -> Seq(Request)] /\ outcome \in [Thread -> Seq(Outcome)]
      /\ Len(request[t]) = 1
      /\ Len(outcome[t]) = IF pc[t] \in Decided THEN 1 ELSE 0
  BY DEF Types, At, Decided
<1>2. request' = [request EXCEPT ![t] = request[t]] /\ request[t] \in Seq(Request)
  BY <1>1
<1>3. PICK o \in Seq(Outcome) : /\ outcome' = [outcome EXCEPT ![t] = o]
                                /\ Len(o) = IF loc \in Decided THEN 1 ELSE 0
  <2>1. CASE outcome' = outcome /\ (pc[t] \in Decided <=> loc \in Decided)
    <3>1. outcome' = [outcome EXCEPT ![t] = outcome[t]] /\ outcome[t] \in Seq(Outcome)
      BY <1>1, <2>1
    <3>. QED  BY <1>1, <2>1, <3>1
  <2>2. CASE loc \in Decided /\ \E o \in Outcome : Decide(t, o)
    <3>1. PICK o \in Outcome : outcome' = [outcome EXCEPT ![t] = <<o>>]
      BY <2>2 DEF Decide
    <3>2. <<o>> \in Seq(Outcome) /\ Len(<<o>>) = 1
      OBVIOUS
    <3>. QED  BY <2>2, <3>1, <3>2
  <2>. QED  BY <2>1, <2>2
<1>4. /\ pc' \in [Thread -> Location]
      /\ request' \in [Thread -> Seq(Request)]
      /\ outcome' \in [Thread -> Seq(Outcome)]
      /\ \A u \in Thread :
           /\ Len(request'[u]) = IF pc'[u] = "idle" THEN 0 ELSE 1
           /\ Len(outcome'[u]) = IF pc'[u] \in {"unlock2", "unlock", "return"} THEN 1 ELSE 0
  BY <1>1, <1>2, <1>3, ThreadTypes DEF Decided
<1>. QED  BY <1>4 DEF Types, At

-----------------------------------------------------------------------------
(* Every step keeps the invariant *)

\* The locks of a goroutine, and the balances of what it has locked.
KeepsLocks(u) ==
    \A a \in Account : /\ lock[a] = u => lock'[a] = u /\ balance'[a] = balance[a]
                       /\ lock'[a] = u => lock[a] = u

\* The step of one goroutine and what it must leave to the others.
Others(t) ==
    /\ accounts \subseteq accounts' /\ leaked \subseteq leaked'
    /\ \A u \in Thread \ {t} :
        /\ pc'[u] = pc[u] /\ request'[u] = request[u] /\ seen'[u] = seen[u]
        /\ KeepsLocks(u)

\* It is enough to look at the goroutine that moves.
LEMMA StepInv ==
    ASSUME Inv, Types', NEW t \in Thread, Others(t), Right(t)'
    PROVE  Inv'
<1>1. ASSUME NEW u \in Thread, u # t
      PROVE  Right(u)'
  BY <1>1, Bystander DEF Others, KeepsLocks
<1>. QED  BY <1>1 DEF Inv

\* Where a goroutine goes.
LEMMA GotoAt ==
    ASSUME Types, NEW t \in Thread, NEW loc, Goto(t, loc)
    PROVE  pc'[t] = loc /\ \A u \in Thread \ {t} : pc'[u] = pc[u]
BY DEF Types, Goto

\* A goroutine that holds no lock to be given back.
LEMMA NothingHeld ==
    ASSUME Inv, NEW t \in Thread, pc[t] \in {"idle", "lookup", "return"},
           lock' = lock, leaked' = leaked
    PROVE  Owned(t)'
<1>1. Holds(t) = {}
  BY DEF Holds
<1>. QED  BY <1>1, StaysOwned

\* A goroutine calls a method.
LEMMA CallInv ==
    ASSUME Inv, NEW t \in Thread, NEW r \in Request, Call(t, r)
    PROVE  Inv'
<1>1. /\ pc[t] = "idle" /\ calls[t] < MaxCalls /\ Goto(t, "lookup")
      /\ request' = [request EXCEPT ![t] = <<r>>]
      /\ calls' = [calls EXCEPT ![t] = calls[t] + 1]
      /\ UNCHANGED <<accounts, balance, lock, seen, outcome, leaked>>
  BY DEF Call, At
<1>2. Types
  BY DEF Inv
<1>3. calls' \in [Thread -> 0 .. MaxCalls]
  <2>1. calls \in [Thread -> 0 .. MaxCalls]
    BY <1>2 DEF Types
  <2>2. calls[t] + 1 \in 0 .. MaxCalls
    BY <1>1, <2>1, MaxCallsAssumption
  <2>. QED  BY <1>1, <2>1, <2>2
<1>4. /\ pc' \in [Thread -> Location]
      /\ request' \in [Thread -> Seq(Request)]
      /\ outcome' \in [Thread -> Seq(Outcome)]
      /\ \A u \in Thread :
           /\ Len(request'[u]) = IF pc'[u] = "idle" THEN 0 ELSE 1
           /\ Len(outcome'[u]) = IF pc'[u] \in {"unlock2", "unlock", "return"} THEN 1 ELSE 0
  <2>1. <<r>> \in Seq(Request) /\ Len(<<r>>) = 1 /\ "lookup" \in Location
    BY DEF Location
  <2>2. outcome[t] \in Seq(Outcome) /\ Len(outcome[t]) = 0
        /\ outcome' = [outcome EXCEPT ![t] = outcome[t]]
    BY <1>1, <1>2 DEF Types
  <2>. QED  BY <1>1, <1>2, <2>1, <2>2, ThreadTypes
<1>5. Types'
  BY <1>1, <1>2, <1>3, <1>4 DEF Types, At
<1>6. pc'[t] = "lookup" /\ \A u \in Thread \ {t} : pc'[u] = pc[u]
  BY <1>1, <1>2, GotoAt
<1>7. Others(t)
  BY <1>1, <1>2, <1>6 DEF Others, KeepsLocks, Types
<1>8. Owned(t)'
  BY <1>1, NothingHeld
<1>9. Right(t)'
  BY <1>6, <1>8 DEF Right, Found, OnlyTransfers, Locked, ReadIsFresh
<1>. QED  BY <1>5, <1>7, <1>9, StepInv

\* The critical section of bankLock.
LEMMA LookupInv ==
    ASSUME Inv, NEW t \in Thread, Lookup(t)
    PROVE  Inv'
<1>1. pc[t] = "lookup" /\ UNCHANGED <<balance, lock, request, seen, calls, leaked>>
  BY DEF Lookup, At
<1>0. Owned(t)'
  BY <1>1, NothingHeld
<1>2. Types /\ R(t) \in RequestType /\ R(t).id \in Account
  BY <1>1, CallTypes DEF Inv
<1>3. accounts \subseteq Account /\ balance \in [Account -> Int]
      /\ lock \in [Account -> Thread \cup {Free}] /\ seen \in [Thread -> Int]
      /\ leaked \subseteq Account
  BY <1>2 DEF Types
<1>. DEFINE r == R(t)
<1>4. \/ r.op = "CreateAccount" /\ CreateAccount(t, r)
      \/ /\ r.op # "CreateAccount" /\ Decide(t, Missing(r))
         /\ Goto(t, "return") /\ accounts' = accounts
      \/ /\ r.op # "CreateAccount" /\ ~NotFound(r)
         /\ Goto(t, "lock") /\ accounts' = accounts /\ outcome' = outcome
  BY DEF Lookup, R
<1>5. CASE r.op = "CreateAccount" /\ CreateAccount(t, r)
  <2>1. Goto(t, "return") /\ accounts' = accounts \cup {r.id}
        /\ \E o \in Outcome : Decide(t, o)
    BY <1>5, OutcomeTypes DEF CreateAccount
  <2>2. "return" \in Location \ {"idle"} /\ "return" \in Decided
    BY DEF Location, Decided
  <2>3. Types'
    BY <1>1, <1>2, <1>3, <2>1, <2>2, StepTypes
  <2>4. pc'[t] = "return" /\ Others(t)
    BY <1>1, <1>2, <2>1, GotoAt DEF Others, KeepsLocks
  <2>5. Right(t)'
    BY <1>0, <2>4 DEF Right, Found, OnlyTransfers, Locked, ReadIsFresh
  <2>. QED  BY <2>3, <2>4, <2>5, StepInv
<1>6. CASE r.op # "CreateAccount" /\ Decide(t, Missing(r)) /\ Goto(t, "return") /\ accounts' = accounts
  <2>1. "return" \in Location \ {"idle"} /\ "return" \in Decided
        /\ \E o \in Outcome : Decide(t, o)
    BY <1>2, <1>6, MissingType DEF Location, Decided
  <2>3. Types'
    BY <1>1, <1>2, <1>3, <1>6, <2>1, StepTypes
  <2>4. pc'[t] = "return" /\ Others(t)
    BY <1>1, <1>2, <1>6, GotoAt DEF Others, KeepsLocks
  <2>5. Right(t)'
    BY <1>0, <2>4 DEF Right, Found, OnlyTransfers, Locked, ReadIsFresh
  <2>. QED  BY <2>3, <2>4, <2>5, StepInv
<1>7. CASE r.op # "CreateAccount" /\ ~NotFound(r) /\ Goto(t, "lock") /\ accounts' = accounts
           /\ outcome' = outcome
  <2>1. "lock" \in Location \ {"idle"} /\ "lock" \notin Decided /\ pc[t] \notin Decided
    BY <1>1 DEF Location, Decided
  <2>3. Types'
    BY <1>1, <1>2, <1>3, <1>7, <2>1, StepTypes
  <2>4. pc'[t] = "lock" /\ Others(t)
    BY <1>1, <1>2, <1>7, GotoAt DEF Others, KeepsLocks
  <2>5. Right(t)'
    BY <1>0, <1>1, <1>7, <2>4 DEF Right, Found, OnlyTransfers, Locked, ReadIsFresh, NotFound, R
  <2>. QED  BY <2>3, <2>4, <2>5, StepInv
<1>. QED  BY <1>4, <1>5, <1>6, <1>7

\* Taking a lock that is free.
LEMMA TakeLock ==
    ASSUME Types, NEW t \in Thread, NEW b \in Account, lock[b] = Free,
           lock' = [lock EXCEPT ![b] = t], balance' = balance
    PROVE  /\ lock' \in [Account -> Thread \cup {Free}]
           /\ lock'[b] = t
           /\ \A a \in Account : a # b => lock'[a] = lock[a]
           /\ \A u \in Thread \ {t} : KeepsLocks(u)
BY FreeAssumption DEF Types, KeepsLocks

\* Giving back a lock that one holds.
LEMMA GiveLock ==
    ASSUME Types, NEW t \in Thread, NEW b \in Account, lock[b] = t,
           lock' = [lock EXCEPT ![b] = Free], balance' = balance
    PROVE  /\ lock' \in [Account -> Thread \cup {Free}]
           /\ \A a \in Account : a # b => lock'[a] = lock[a]
           /\ \A u \in Thread \ {t} : KeepsLocks(u)
BY FreeAssumption DEF Types, KeepsLocks

\* The first lock of a call, and the second of a transfer.
LEMMA AcquireInv ==
    ASSUME Inv, NEW t \in Thread, Acquire(t) \/ AcquireSecond(t)
    PROVE  Inv'
<1>. DEFINE r == R(t)
<1>1. pc[t] \in {"lock", "lock2"} /\ UNCHANGED <<accounts, balance, request, seen, outcome, calls, leaked>>
  BY DEF Acquire, AcquireSecond, At
<1>2. Types /\ First(r) \in Account /\ Second(r) \in Account
  BY <1>1, CallTypes DEF Inv
<1>3. accounts \subseteq Account /\ balance \in [Account -> Int] /\ seen \in [Thread -> Int]
      /\ leaked \subseteq Account
  BY <1>2 DEF Types
<1>4. R(t)' = r /\ r.op # "CreateAccount" /\ ~NotFound(r) /\ NotFound(r)' = NotFound(r)
  BY <1>1 DEF R, NotFound, Inv, Right, Found
<1>5. CASE Acquire(t)
  <2>. DEFINE loc == IF Transfers(r) THEN "lock2" ELSE "read"
  <2>1. lock[First(r)] = Free /\ lock' = [lock EXCEPT ![First(r)] = t] /\ Goto(t, loc)
    BY <1>5 DEF Acquire, R
  <2>2. /\ lock' \in [Account -> Thread \cup {Free}] /\ lock'[First(r)] = t
        /\ \A a \in Account : a # First(r) => lock'[a] = lock[a]
        /\ \A u \in Thread \ {t} : KeepsLocks(u)
    BY <1>1, <1>2, <2>1, TakeLock
  <2>3. loc \in Location \ {"idle"} /\ loc \notin Decided /\ pc[t] \notin Decided
    BY <1>1 DEF Location, Decided
  <2>4. Types'
    BY <1>1, <1>2, <1>3, <2>1, <2>2, <2>3, StepTypes
  <2>5. pc'[t] = loc /\ Others(t)
    BY <1>1, <1>2, <2>1, <2>2, GotoAt DEF Others
  <2>6. Owned(t)'
    <3>1. Holds(t)' = {First(r)}
      BY <1>4, <2>5 DEF Holds, R
    <3>2. Holds(t) = {}
      BY <1>5 DEF Acquire, At, Holds
    <3>. QED  BY <1>1, <1>2, <2>2, <3>1, <3>2, StaysOwned
  <2>7. Right(t)'
    BY <1>4, <2>2, <2>5, <2>6 DEF Right, Found, OnlyTransfers, Locked, ReadIsFresh, R
  <2>. QED  BY <2>4, <2>5, <2>7, StepInv
<1>6. CASE AcquireSecond(t)
  <2>0. pc[t] = "lock2" /\ lock[First(r)] = t /\ Transfers(r)
    BY <1>6 DEF AcquireSecond, At, Inv, Right, Locked, OnlyTransfers
  <2>1. lock[Second(r)] = Free /\ lock' = [lock EXCEPT ![Second(r)] = t] /\ Goto(t, "read")
    BY <1>6 DEF AcquireSecond, R
  <2>2. /\ lock' \in [Account -> Thread \cup {Free}] /\ lock'[Second(r)] = t
        /\ \A a \in Account : a # Second(r) => lock'[a] = lock[a]
        /\ \A u \in Thread \ {t} : KeepsLocks(u)
    BY <1>1, <1>2, <2>1, TakeLock
  <2>3. "read" \in Location \ {"idle"} /\ "read" \notin Decided /\ pc[t] \notin Decided
    BY <1>1 DEF Location, Decided
  <2>4. Types'
    BY <1>1, <1>2, <1>3, <2>1, <2>2, <2>3, StepTypes
  <2>5. pc'[t] = "read" /\ Others(t)
    BY <1>1, <1>2, <2>1, <2>2, GotoAt DEF Others
  <2>6. lock'[First(r)] = t
    BY <1>2, <2>0, <2>2
  <2>7. Owned(t)'
    <3>1. Holds(t)' = {First(r), Second(r)}
      BY <1>4, <2>0, <2>5 DEF Holds, R
    <3>2. Holds(t) = {First(r)}
      BY <2>0 DEF Holds, R
    <3>. QED  BY <1>1, <1>2, <2>2, <3>1, <3>2, StaysOwned
  <2>8. Right(t)'
    BY <1>4, <2>2, <2>5, <2>6, <2>7 DEF Right, Found, OnlyTransfers, Locked, ReadIsFresh, R
  <2>. QED  BY <2>4, <2>5, <2>8, StepInv
<1>. QED  BY <1>5, <1>6

\* The call reads the balance and decides.
LEMMA ReadInv ==
    ASSUME Inv, NEW t \in Thread, Read(t)
    PROVE  Inv'
<1>. DEFINE r == R(t)
            bal == balance[r.id]
<1>1. pc[t] = "read" /\ UNCHANGED <<accounts, balance, lock, request, calls>>
  BY DEF Read, At
<1>2. Types /\ r \in RequestType /\ r.id \in Account
  BY <1>1, CallTypes DEF Inv
<1>3. accounts \subseteq Account /\ balance \in [Account -> Int]
      /\ lock \in [Account -> Thread \cup {Free}] /\ seen \in [Thread -> Int]
      /\ leaked \subseteq Account
  BY <1>2 DEF Types
<1>4. seen' = [seen EXCEPT ![t] = bal] /\ bal \in Int
  BY <1>2, <1>3 DEF Read, R
<1>5. seen' \in [Thread -> Int] /\ seen'[t] = bal /\ \A u \in Thread \ {t} : seen'[u] = seen[u]
  BY <1>3, <1>4
<1>6. /\ R(t)' = r /\ r.op # "CreateAccount" /\ ~NotFound(r) /\ NotFound(r)' = NotFound(r)
      /\ lock[First(r)] = t
      /\ Transfers(r) => lock[Second(r)] = t
  BY <1>1 DEF R, NotFound, Inv, Right, Found, Locked
<1>7. /\ leaked' = IF LeaksLock(r, bal) THEN leaked \cup {r.id} ELSE leaked
      /\ leaked \subseteq leaked' /\ leaked' \subseteq Account
  BY <1>2, <1>3 DEF Read, R
<1>8. Holds(t) = IF Transfers(r) THEN {First(r), Second(r)} ELSE {First(r)}
  BY <1>1 DEF Holds, R
<1>9. \/ Moves(r, bal) /\ Goto(t, "write") /\ outcome' = outcome
      \/ /\ \E o \in Outcome : Decide(t, o)
         /\ Goto(t, IF LeaksLock(r, bal) THEN "return"
                    ELSE IF Transfers(r) THEN "unlock2" ELSE "unlock")
  BY <1>4, OutcomeTypes DEF Read, R
<1>10. CASE Moves(r, bal) /\ Goto(t, "write") /\ outcome' = outcome
  <2>1. "write" \in Location \ {"idle"} /\ "write" \notin Decided /\ pc[t] \notin Decided
    BY <1>1 DEF Location, Decided
  <2>2. Types'
    BY <1>1, <1>2, <1>3, <1>5, <1>7, <1>10, <2>1, StepTypes
  <2>3. pc'[t] = "write" /\ Others(t)
    BY <1>1, <1>2, <1>5, <1>7, <1>10, GotoAt DEF Others, KeepsLocks
  <2>4. ReadIsFresh(t)'
    BY <1>1, <1>5, <1>6, <1>10 DEF ReadIsFresh, R
  <2>5. Found(t)' /\ OnlyTransfers(t)' /\ Locked(t)'
    BY <1>1, <1>6, <2>3 DEF Found, OnlyTransfers, Locked, R
  <2>6. Owned(t)'
    <3>1. Holds(t)' = Holds(t)
      BY <1>1, <1>6, <1>8, <2>3 DEF Holds, R
    <3>. QED  BY <1>1, <1>7, <3>1, StaysOwned
  <2>. QED  BY <2>2, <2>3, <2>4, <2>5, <2>6, StepInv DEF Right
<1>11. CASE /\ \E o \in Outcome : Decide(t, o)
           /\ Goto(t, IF LeaksLock(r, bal) THEN "return"
                      ELSE IF Transfers(r) THEN "unlock2" ELSE "unlock")
  <2>. DEFINE loc == IF LeaksLock(r, bal) THEN "return"
                     ELSE IF Transfers(r) THEN "unlock2" ELSE "unlock"
  <2>1. loc \in Location \ {"idle"} /\ loc \in Decided
    BY DEF Location, Decided
  <2>2. Types'
    BY <1>1, <1>2, <1>3, <1>5, <1>7, <1>11, <2>1, StepTypes
  <2>3. pc'[t] = loc /\ Others(t)
    BY <1>1, <1>2, <1>5, <1>7, <1>11, GotoAt DEF Others, KeepsLocks
  <2>4. ReadIsFresh(t)' /\ Found(t)' /\ OnlyTransfers(t)' /\ Locked(t)'
    BY <1>1, <1>6, <2>3 DEF ReadIsFresh, Found, OnlyTransfers, Locked, R
  <2>5. Owned(t)'
    <3>1. CASE LeaksLock(r, bal)
      <4>1. Holds(t) = {r.id} /\ r.id \in leaked'
        BY <1>7, <1>8, <3>1 DEF LeaksLock, Transfers, First
      <4>. QED  BY <1>1, <1>7, <4>1, StaysOwned
    <3>2. CASE ~LeaksLock(r, bal)
      <4>1. Holds(t)' = Holds(t)
        BY <1>1, <1>6, <1>8, <2>3, <3>2 DEF Holds, R
      <4>. QED  BY <1>1, <1>7, <4>1, StaysOwned
    <3>. QED  BY <3>1, <3>2
  <2>. QED  BY <2>2, <2>3, <2>4, <2>5, StepInv DEF Right
<1>. QED  BY <1>9, <1>10, <1>11

\* The call writes a balance whose account it has locked: a deposit, a withdrawal,
\* the debit of a transfer, and its credit.
LEMMA WriteBalance ==
    ASSUME Types, NEW t \in Thread, NEW b \in Account, lock[b] = t, lock' = lock,
           NEW new \in Int, balance' = [balance EXCEPT ![b] = new]
    PROVE  /\ balance' \in [Account -> Int]
           /\ \A u \in Thread \ {t} : KeepsLocks(u)
BY DEF Types, KeepsLocks

\* The call writes the balance of r.id.
LEMMA WriteInv ==
    ASSUME Inv, NEW t \in Thread, Write(t)
    PROVE  Inv'
<1>. DEFINE r == R(t)
            new == seen[t] + Change(r)
<1>1. pc[t] = "write" /\ UNCHANGED <<accounts, lock, request, seen, calls, leaked>>
  BY DEF Write, At
<1>2. Types /\ r \in RequestType /\ r.id \in Account /\ r.amount \in Int /\ r.threshold \in Int
  BY <1>1, CallTypes DEF Inv
<1>3. accounts \subseteq Account /\ balance \in [Account -> Int]
      /\ lock \in [Account -> Thread \cup {Free}] /\ seen \in [Thread -> Int]
      /\ leaked \subseteq Account
  BY <1>2 DEF Types
<1>4. new \in Int /\ balance' = [balance EXCEPT ![r.id] = new]
  BY <1>2, <1>3 DEF Write, R, Change
<1>5. /\ R(t)' = r /\ r.op # "CreateAccount" /\ ~NotFound(r) /\ NotFound(r)' = NotFound(r)
      /\ lock[First(r)] = t
      /\ Transfers(r) => lock[Second(r)] = t
  BY <1>1 DEF R, NotFound, Inv, Right, Found, Locked
<1>6. /\ balance' \in [Account -> Int]
      /\ \A u \in Thread \ {t} : KeepsLocks(u)
  <2>1. lock[r.id] = t
    BY <1>1, OwnsAccounts
  <2>. QED  BY <1>1, <1>2, <1>4, <2>1, WriteBalance
<1>7. \/ Transfers(r) /\ Goto(t, "credit") /\ outcome' = outcome
      \/ ~Transfers(r) /\ Goto(t, "unlock") /\ \E o \in Outcome : Decide(t, o)
  BY OutcomeTypes DEF Write, R
<1>8. CASE Transfers(r) /\ Goto(t, "credit") /\ outcome' = outcome
  <2>1. "credit" \in Location \ {"idle"} /\ "credit" \notin Decided /\ pc[t] \notin Decided
    BY <1>1 DEF Location, Decided
  <2>2. Types'
    BY <1>1, <1>2, <1>3, <1>6, <1>8, <2>1, StepTypes
  <2>3. pc'[t] = "credit" /\ Others(t)
    BY <1>1, <1>2, <1>6, <1>8, GotoAt DEF Others
  <2>4. ReadIsFresh(t)' /\ Found(t)' /\ OnlyTransfers(t)' /\ Locked(t)'
    BY <1>1, <1>5, <1>8, <2>3 DEF ReadIsFresh, Found, OnlyTransfers, Locked, R
  <2>5. Owned(t)'
    <3>1. Holds(t)' = Holds(t)
      BY <1>1, <1>5, <2>3 DEF Holds, R
    <3>. QED  BY <1>1, <3>1, StaysOwned
  <2>. QED  BY <2>2, <2>3, <2>4, <2>5, StepInv DEF Right
<1>9. CASE ~Transfers(r) /\ Goto(t, "unlock") /\ \E o \in Outcome : Decide(t, o)
  <2>1. "unlock" \in Location \ {"idle"} /\ "unlock" \in Decided
    BY DEF Location, Decided
  <2>2. Types'
    BY <1>1, <1>2, <1>3, <1>6, <1>9, <2>1, StepTypes
  <2>3. pc'[t] = "unlock" /\ Others(t)
    BY <1>1, <1>2, <1>6, <1>9, GotoAt DEF Others
  <2>4. ReadIsFresh(t)' /\ Found(t)' /\ OnlyTransfers(t)' /\ Locked(t)'
    BY <1>1, <1>5, <1>9, <2>3 DEF ReadIsFresh, Found, OnlyTransfers, Locked, R
  <2>5. Owned(t)'
    <3>1. Holds(t)' = Holds(t)
      BY <1>1, <1>5, <1>9, <2>3 DEF Holds, R
    <3>. QED  BY <1>1, <3>1, StaysOwned
  <2>. QED  BY <2>2, <2>3, <2>4, <2>5, StepInv DEF Right
<1>. QED  BY <1>7, <1>8, <1>9

\* A transfer credits the receiver.
LEMMA CreditInv ==
    ASSUME Inv, NEW t \in Thread, Credit(t)
    PROVE  Inv'
<1>. DEFINE r == R(t)
            new == balance[r.to] + r.amount
<1>1. pc[t] = "credit" /\ UNCHANGED <<accounts, lock, request, seen, calls, leaked>>
      /\ Goto(t, "unlock2") /\ Decide(t, Returns(TRUE))
  BY DEF Credit, At
<1>2. Types /\ r.to \in Account /\ r.amount \in Int
  BY <1>1, CallTypes DEF Inv
<1>3. accounts \subseteq Account /\ balance \in [Account -> Int]
      /\ lock \in [Account -> Thread \cup {Free}] /\ seen \in [Thread -> Int]
      /\ leaked \subseteq Account
  BY <1>2 DEF Types
<1>4. new \in Int /\ balance' = [balance EXCEPT ![r.to] = new]
  BY <1>2, <1>3 DEF Credit, R
<1>5. /\ R(t)' = r /\ r.op # "CreateAccount" /\ ~NotFound(r) /\ NotFound(r)' = NotFound(r)
      /\ lock[First(r)] = t /\ Transfers(r) /\ lock[Second(r)] = t
  BY <1>1 DEF R, NotFound, Inv, Right, Found, Locked, OnlyTransfers
<1>6. /\ balance' \in [Account -> Int]
      /\ \A u \in Thread \ {t} : KeepsLocks(u)
  <2>1. lock[r.to] = t
    BY <1>1, <1>5, OwnsAccounts
  <2>. QED  BY <1>1, <1>2, <1>4, <2>1, WriteBalance
<1>7. "unlock2" \in Location \ {"idle"} /\ "unlock2" \in Decided
      /\ \E o \in Outcome : Decide(t, o)
  BY <1>1, OutcomeTypes DEF Location, Decided
<1>8. Types'
  BY <1>1, <1>2, <1>3, <1>6, <1>7, StepTypes
<1>9. pc'[t] = "unlock2" /\ Others(t)
  BY <1>1, <1>2, <1>6, GotoAt DEF Others
<1>10. ReadIsFresh(t)' /\ Found(t)' /\ OnlyTransfers(t)' /\ Locked(t)'
  BY <1>1, <1>5, <1>9 DEF ReadIsFresh, Found, OnlyTransfers, Locked, R
<1>11. Owned(t)'
  <2>1. Holds(t)' = Holds(t)
    BY <1>1, <1>5, <1>9 DEF Holds, R
  <2>. QED  BY <1>1, <2>1, StaysOwned
<1>. QED  BY <1>8, <1>9, <1>10, <1>11, StepInv DEF Right

\* The call gives its locks back, the second of a transfer before the first.
LEMMA ReleaseInv ==
    ASSUME Inv, NEW t \in Thread, ReleaseSecond(t) \/ Release(t)
    PROVE  Inv'
<1>. DEFINE r == R(t)
<1>1. /\ pc[t] \in {"unlock2", "unlock"}
      /\ UNCHANGED <<accounts, balance, request, seen, outcome, calls, leaked>>
  BY DEF ReleaseSecond, Release, At
<1>2. Types /\ First(r) \in Account /\ Second(r) \in Account
  BY <1>1, CallTypes DEF Inv
<1>3. accounts \subseteq Account /\ balance \in [Account -> Int] /\ seen \in [Thread -> Int]
      /\ leaked \subseteq Account
  BY <1>2 DEF Types
<1>4. /\ R(t)' = r /\ r.op # "CreateAccount" /\ ~NotFound(r) /\ NotFound(r)' = NotFound(r)
      /\ lock[First(r)] = t
  BY <1>1 DEF R, NotFound, Inv, Right, Found, Locked
<1>5. CASE ReleaseSecond(t)
  <2>0. pc[t] = "unlock2" /\ Transfers(r) /\ lock[Second(r)] = t /\ First(r) # Second(r)
    <3>1. pc[t] = "unlock2" /\ Transfers(r) /\ lock[Second(r)] = t
      BY <1>5 DEF ReleaseSecond, At, Inv, Right, Locked, OnlyTransfers
    <3>. QED  BY <3>1, <1>4 DEF First, Second, NotFound
  <2>1. lock' = [lock EXCEPT ![Second(r)] = Free] /\ Goto(t, "unlock")
    BY <1>5 DEF ReleaseSecond, R
  <2>2. /\ lock' \in [Account -> Thread \cup {Free}]
        /\ \A a \in Account : a # Second(r) => lock'[a] = lock[a]
        /\ \A u \in Thread \ {t} : KeepsLocks(u)
    BY <1>1, <1>2, <2>0, <2>1, GiveLock
  <2>3. "unlock" \in Location \ {"idle"} /\ "unlock" \in Decided /\ pc[t] \in Decided
    BY <1>1 DEF Location, Decided
  <2>4. Types'
    BY <1>1, <1>2, <1>3, <2>1, <2>2, <2>3, StepTypes
  <2>5. pc'[t] = "unlock" /\ Others(t)
    BY <1>1, <1>2, <2>1, <2>2, GotoAt DEF Others
  <2>6. lock'[First(r)] = t
    BY <1>2, <1>4, <2>0, <2>2
  <2>7. Owned(t)'
    <3>1. Holds(t) = {First(r), Second(r)} /\ Holds(t)' = {First(r)}
      BY <1>4, <2>0, <2>5 DEF Holds, R
    <3>2. lock'[Second(r)] # t
      BY <1>2, <2>1, FreeAssumption DEF Types
    <3>. QED  BY <1>1, <2>2, <3>1, <3>2, StaysOwned
  <2>8. Right(t)'
    BY <1>4, <2>5, <2>6, <2>7 DEF Right, Found, OnlyTransfers, Locked, ReadIsFresh, R
  <2>. QED  BY <2>4, <2>5, <2>8, StepInv
<1>6. CASE Release(t)
  <2>1. lock' = [lock EXCEPT ![First(r)] = Free] /\ Goto(t, "return")
    BY <1>6 DEF Release, R
  <2>2. /\ lock' \in [Account -> Thread \cup {Free}]
        /\ \A a \in Account : a # First(r) => lock'[a] = lock[a]
        /\ \A u \in Thread \ {t} : KeepsLocks(u)
    BY <1>1, <1>2, <1>4, <2>1, GiveLock
  <2>3. "return" \in Location \ {"idle"} /\ "return" \in Decided /\ pc[t] \in Decided
    BY <1>1 DEF Location, Decided
  <2>4. Types'
    BY <1>1, <1>2, <1>3, <2>1, <2>2, <2>3, StepTypes
  <2>5. pc'[t] = "return" /\ Others(t)
    BY <1>1, <1>2, <2>1, <2>2, GotoAt DEF Others
  <2>6. Owned(t)'
    <3>1. Holds(t) = {First(r)}
      BY <1>6 DEF Release, At, Holds, R
    <3>2. lock'[First(r)] # t
      BY <1>2, <2>1, FreeAssumption DEF Types
    <3>. QED  BY <1>1, <2>2, <3>1, <3>2, StaysOwned
  <2>7. Right(t)'
    BY <2>5, <2>6 DEF Right, Found, OnlyTransfers, Locked, ReadIsFresh
  <2>. QED  BY <2>4, <2>5, <2>7, StepInv
<1>. QED  BY <1>5, <1>6

\* The call returns.
LEMMA ReturnInv ==
    ASSUME Inv, NEW t \in Thread, Return(t)
    PROVE  Inv'
<1>1. /\ pc[t] = "return" /\ Goto(t, "idle")
      /\ request' = [request EXCEPT ![t] = <<>>]
      /\ outcome' = [outcome EXCEPT ![t] = <<>>]
      /\ UNCHANGED <<accounts, balance, lock, seen, calls, leaked>>
  BY DEF Return, At
<1>2. Types
  BY DEF Inv
<1>3. /\ pc' \in [Thread -> Location]
      /\ request' \in [Thread -> Seq(Request)]
      /\ outcome' \in [Thread -> Seq(Outcome)]
      /\ \A u \in Thread :
           /\ Len(request'[u]) = IF pc'[u] = "idle" THEN 0 ELSE 1
           /\ Len(outcome'[u]) = IF pc'[u] \in {"unlock2", "unlock", "return"} THEN 1 ELSE 0
  <2>1. PICK none : none = <<>>
    OBVIOUS
  <2>2. none \in Seq(Request) /\ none \in Seq(Outcome) /\ Len(none) = 0
    BY <2>1
  <2>3. request' = [request EXCEPT ![t] = none] /\ outcome' = [outcome EXCEPT ![t] = none]
    BY <1>1, <2>1
  <2>4. "idle" \in Location /\ "idle" \notin {"unlock2", "unlock", "return"}
    BY DEF Location
  <2>. QED  BY <1>1, <1>2, <2>2, <2>3, <2>4, ThreadTypes
<1>4. Types'
  BY <1>1, <1>2, <1>3 DEF Types, At
<1>5. pc'[t] = "idle" /\ \A u \in Thread \ {t} : pc'[u] = pc[u]
  BY <1>1, <1>2, GotoAt
<1>6. Others(t)
  BY <1>1, <1>2, <1>5 DEF Others, KeepsLocks, Types
<1>7. Owned(t)'
  BY <1>1, NothingHeld
<1>8. Right(t)'
  BY <1>5, <1>7 DEF Right, Found, OnlyTransfers, Locked, ReadIsFresh
<1>. QED  BY <1>4, <1>6, <1>8, StepInv

\* Every step keeps the invariant.
LEMMA NextInv ==
    ASSUME Inv, [Next]_vars
    PROVE  Inv'
<1>1. CASE UNCHANGED vars
  BY <1>1 DEF vars, Inv, Types, At, Right, Found, OnlyTransfers, Locked, ReadIsFresh, Owned, Holds,
              R, NotFound
<1>2. CASE Next
  <2>1. PICK t \in Thread : Step(t) \/ \E r \in Request : Call(t, r)
    BY <1>2 DEF Next
  <2>. QED  BY <2>1, CallInv, LookupInv, AcquireInv, ReadInv, WriteInv, CreditInv, ReleaseInv,
               ReturnInv DEF Step
<1>. QED  BY <1>1, <1>2

\* The invariant holds at the start.
LEMMA InitInv == Init => Inv
<1>. SUFFICES ASSUME Init PROVE Inv
  OBVIOUS
<1>1. "idle" \in Location
  BY DEF Location
<1>2. /\ accounts \subseteq Account /\ balance \in [Account -> Int]
      /\ lock \in [Account -> Thread \cup {Free}] /\ pc \in [Thread -> Location]
      /\ seen \in [Thread -> Int] /\ leaked \subseteq Account
  BY <1>1 DEF Init
<1>3. calls \in [Thread -> 0 .. MaxCalls]
  BY MaxCallsAssumption DEF Init
<1>4. request \in [Thread -> Seq(Request)] /\ outcome \in [Thread -> Seq(Outcome)]
  BY DEF Init
<1>5. \A t \in Thread : pc[t] = "idle" /\ Len(request[t]) = 0 /\ Len(outcome[t]) = 0
  BY DEF Init
<1>6. Types
  BY <1>2, <1>3, <1>4, <1>5 DEF Types, At
<1>7. ASSUME NEW t \in Thread PROVE Right(t)
  <2>1. Owned(t)
    BY FreeAssumption DEF Owned, Init
  <2>. QED  BY <1>5, <2>1 DEF Right, Found, OnlyTransfers, Locked, ReadIsFresh
<1>. QED  BY <1>6, <1>7 DEF Inv

\* The invariant of this module holds in every reachable state: a call of bank.go
\* holds the locks of the accounts it works on and writes what it has just read.
THEOREM Invariance == Spec => []Inv
BY InitInv, NextInv, PTL DEF Spec

\* Every variable of bank.go's calls keeps its type, and no goroutine has a lock that
\* its call will not give back, but for those Withdraw left behind at bank.go:114.
THEOREM TypeCorrect == Spec => []TypeOK
<1>1. ASSUME Inv PROVE TypeOK
  <2>1. Types /\ \A t \in Thread : Owned(t)
    BY <1>1 DEF Inv, Right
  <2>2. ASSUME NEW a \in Account, lock[a] # Free
        PROVE  a \in Holds(lock[a]) \cup leaked
    <3>1. lock[a] \in Thread
      BY <2>1, <2>2 DEF Types
    <3>. QED  BY <2>1, <3>1 DEF Owned
  <2>. QED  BY <2>1, <2>2 DEF TypeOK, LocksOwned
<1>. QED  BY <1>1, Invariance, PTL

-----------------------------------------------------------------------------
(* The balances and results that AtomicBank shows *)

\* What SettledBalance stands for: the balance, with what a transfer that holds the
\* lock of the account has yet to credit.
Settled ==
    /\ SettledBalance \in [Account -> Int]
    /\ \A t \in Thread : \A a \in Account : Crediting(t, a) =>
        lock[a] = t /\ SettledBalance[a] = balance[a] + R(t).amount
    /\ \A a \in Account : (\A t \in Thread : ~Crediting(t, a)) => SettledBalance[a] = balance[a]

\* At most one transfer is half done on an account.
LEMMA SettledRight == Inv => Settled
<1>. SUFFICES ASSUME Inv PROVE Settled
  OBVIOUS
<1>0. balance \in [Account -> Int]
  BY DEF Inv, Types
<1>1. ASSUME NEW t \in Thread, NEW a \in Account, Crediting(t, a)
      PROVE  lock[a] = t /\ R(t).amount \in Int
  <2>1. pc[t] = "credit" /\ R(t).to = a
    BY <1>1 DEF Crediting, At, R
  <2>2. Transfers(R(t))
    BY <2>1 DEF Inv, Right, OnlyTransfers
  <2>. QED  BY <2>1, <2>2, OwnsAccounts, CallTypes DEF Inv
<1>2. ASSUME NEW t \in Thread, NEW a \in Account, Crediting(t, a)
      PROVE  SettledBalance[a] = balance[a] + R(t).amount
  <2>1. (CHOOSE u \in Thread : Crediting(u, a)) = t
    BY <1>1, <1>2
  <2>. QED  BY <1>2, <2>1 DEF SettledBalance, R
<1>3. ASSUME NEW a \in Account, \A t \in Thread : ~Crediting(t, a)
      PROVE  SettledBalance[a] = balance[a]
  BY <1>3 DEF SettledBalance
<1>4. ASSUME NEW a \in Account
      PROVE  SettledBalance[a] \in Int
  <2>1. CASE \E t \in Thread : Crediting(t, a)
    BY <1>0, <1>1, <1>2, <2>1
  <2>2. CASE \A t \in Thread : ~Crediting(t, a)
    BY <1>0, <1>3, <2>2
  <2>. QED  BY <2>1, <2>2
<1>5. SettledBalance \in [Account -> Int]
  BY <1>4 DEF SettledBalance
<1>. QED  BY <1>1, <1>2, <1>3, <1>5 DEF Settled

\* After a step too.
LEMMA SettledRightNext == Inv' => Settled'
BY SettledRight, PTL

\* What a step of t leaves alone of the others' calls.
Apart(t) == \A u \in Thread \ {t} : pc'[u] = pc[u] /\ request'[u] = request[u]

\* Steps of a call other than the two that write for a transfer.
LEMMA SameBalances ==
    ASSUME Inv, Inv', NEW t \in Thread, Apart(t), balance' = balance,
           pc[t] # "credit", pc'[t] # "credit"
    PROVE  SettledBalance' = SettledBalance
<1>1. Settled /\ Settled'
  BY SettledRight, SettledRightNext
<1>2. \A u \in Thread : \A a \in Account : /\ Crediting(u, a)' <=> Crediting(u, a)
                                           /\ Crediting(u, a) => R(u)' = R(u)
  BY DEF Apart, Crediting, At, R
<1>3. ASSUME NEW a \in Account
      PROVE  SettledBalance'[a] = SettledBalance[a]
  <2>1. CASE \E u \in Thread : Crediting(u, a)
    BY <1>1, <1>2, <2>1 DEF Settled
  <2>2. CASE \A u \in Thread : ~Crediting(u, a)
    <3>1. SettledBalance[a] = balance[a]
      BY <1>1, <2>2 DEF Settled
    <3>2. \A u \in Thread : ~Crediting(u, a)'
      BY <1>2, <2>2
    <3>3. SettledBalance'[a] = balance'[a]
      BY <1>1, <3>2 DEF Settled
    <3>. QED  BY <3>1, <3>3
  <2>. QED  BY <2>1, <2>2
<1>4. SettledBalance \in [Account -> Int] /\ SettledBalance' \in [Account -> Int]
  BY <1>1 DEF Settled
<1>. QED  BY <1>3, <1>4

\* What a caller sees of the results.
LEMMA SameOutcomes ==
    ASSUME Types, Types', NEW t \in Thread, Apart(t), outcome' = outcome,
           pc[t] # "credit", pc'[t] # "credit"
    PROVE  SettledOutcome' = SettledOutcome
BY DEF Apart, SettledOutcome, At

\* The result of one call is set or forgotten.
LEMMA OutcomeSet ==
    ASSUME Types, NEW t \in Thread, Apart(t), NEW o, outcome' = [outcome EXCEPT ![t] = o],
           pc[t] # "credit", pc'[t] # "credit"
    PROVE  SettledOutcome' = [SettledOutcome EXCEPT ![t] = o]
BY DEF Apart, SettledOutcome, At, Types

\* The balance that a call reads which holds the account's lock.
LEMMA ReadSettled ==
    ASSUME Inv, NEW t \in Thread, pc[t] \in {"read", "write"}
    PROVE  /\ SettledBalance[R(t).id] = balance[R(t).id]
           /\ Transfers(R(t)) => SettledBalance[R(t).to] = balance[R(t).to]
<1>1. Settled /\ lock[R(t).id] = t /\ (Transfers(R(t)) => lock[R(t).to] = t)
  BY SettledRight, OwnsAccounts
<1>2. R(t).id \in Account /\ R(t).to \in Account
  BY CallTypes DEF Inv
<1>3. ASSUME NEW a \in Account, lock[a] = t
      PROVE  SettledBalance[a] = balance[a]
  <2>1. \A u \in Thread : ~Crediting(u, a)
    BY <1>1, <1>3 DEF Settled, Crediting, At
  <2>. QED  BY <1>1, <2>1 DEF Settled
<1>. QED  BY <1>1, <1>2, <1>3

\* A call that has not decided has arguments and no result.
LEMMA Undecided ==
    ASSUME Types, NEW t \in Thread, pc[t] \notin Decided \cup {"idle", "credit"}
    PROVE  request[t] # <<>> /\ SettledOutcome[t] = <<>>
<1>1. request[t] \in Seq(Request) /\ outcome[t] \in Seq(Outcome)
      /\ Len(request[t]) = 1 /\ Len(outcome[t]) = 0
  BY DEF Types, Decided, At
<1>. QED  BY <1>1, ShortSeq DEF SettledOutcome, At, Decided

-----------------------------------------------------------------------------
(* Every step is a step of AtomicBank, or changes nothing that it shows *)

\* A method is called.
LEMMA CallMaps ==
    ASSUME Inv, Inv', NEW t \in Thread, NEW r \in Request, Call(t, r)
    PROVE  Abstract!Call(t)
<1>1. /\ pc[t] = "idle" /\ Goto(t, "lookup")
      /\ request' = [request EXCEPT ![t] = <<r>>]
      /\ UNCHANGED <<accounts, balance, outcome>>
  BY DEF Call, At
<1>2. Types /\ Types'
  BY DEF Inv
<1>3. pc'[t] = "lookup" /\ Apart(t)
  BY <1>1, <1>2, GotoAt DEF Apart, Types
<1>4. SettledBalance' = SettledBalance /\ SettledOutcome' = SettledOutcome
  BY <1>1, <1>2, <1>3, SameBalances, SameOutcomes
<1>5. request[t] = <<>>
  <2>1. request[t] \in Seq(Request) /\ Len(request[t]) = 0
    BY <1>1, <1>2 DEF Types, At
  <2>. QED  BY <2>1, ShortSeq
<1>. QED  BY <1>1, <1>4, <1>5 DEF Abstract!Call

\* A call that looks its accounts up and is told the result takes effect there.
LEMMA LookupMaps ==
    ASSUME Inv, Inv', NEW t \in Thread, Lookup(t)
    PROVE  Abstract!Effect(t) \/ UNCHANGED Abstract!vars
<1>. DEFINE r == R(t)
<1>1. pc[t] = "lookup" /\ UNCHANGED <<balance, request>>
  BY DEF Lookup, At
<1>2. Types /\ Types' /\ r \in RequestType
  BY <1>1, CallTypes DEF Inv
<1>3. \/ r.op = "CreateAccount" /\ CreateAccount(t, r)
      \/ /\ r.op # "CreateAccount" /\ NotFound(r) /\ Decide(t, Missing(r))
         /\ Goto(t, "return") /\ accounts' = accounts
      \/ Goto(t, "lock") /\ accounts' = accounts /\ outcome' = outcome
  BY DEF Lookup, R
<1>4. request[t] # <<>> /\ SettledOutcome[t] = <<>>
  BY <1>1, <1>2, Undecided DEF Decided
<1>5. CASE \/ r.op = "CreateAccount" /\ CreateAccount(t, r)
           \/ /\ r.op # "CreateAccount" /\ NotFound(r) /\ Decide(t, Missing(r))
              /\ Goto(t, "return") /\ accounts' = accounts
  <2>1. Goto(t, "return")
    BY <1>5 DEF CreateAccount
  <2>2. pc'[t] = "return" /\ Apart(t)
    BY <1>1, <1>2, <2>1, GotoAt DEF Apart
  <2>3. SettledBalance' = SettledBalance
    BY <1>1, <2>2, SameBalances
  <2>4. /\ Abstract!Rejected(r, accounts)
        /\ outcome' = [outcome EXCEPT ![t] = <<Abstract!Rejection(r, accounts)>>]
        /\ accounts' = IF r.op = "CreateAccount" THEN accounts \cup {r.id} ELSE accounts
    <3>1. CASE r.op = "CreateAccount"
      BY <1>5, <3>1 DEF CreateAccount, Decide, Abstract!Rejected, Abstract!Rejection, Panics, Returns,
                        Abstract!Panics, Abstract!Returns
    <3>2. CASE r.op # "CreateAccount"
      <4>1. Abstract!Rejected(r, accounts)
        BY <1>5, <3>2 DEF NotFound, Transfers, Abstract!Rejected, Abstract!Exists
      <4>2. r.op \in {"Deposit", "Withdraw", "Transfer", "DepositAndCompare", "GetBalance"}
        BY <1>2, <3>2 DEF RequestType
      <4>3. Abstract!Rejection(r, accounts) = Missing(r)
        BY <4>2 DEF Missing, Abstract!Rejection, Panics, Returns, Abstract!Panics, Abstract!Returns
      <4>. QED  BY <1>5, <3>2, <4>1, <4>3 DEF Decide
    <3>. QED  BY <3>1, <3>2
  <2>5. SettledOutcome' = [SettledOutcome EXCEPT ![t] = <<Abstract!Rejection(r, accounts)>>]
    BY <1>1, <1>2, <2>2, <2>4, OutcomeSet
  <2>6. Abstract!Effect(t)
    BY <1>1, <1>4, <2>3, <2>4, <2>5 DEF Abstract!Effect, R
  <2>. QED  BY <2>6
<1>6. CASE Goto(t, "lock") /\ accounts' = accounts /\ outcome' = outcome
  <2>1. pc'[t] = "lock" /\ Apart(t)
    BY <1>1, <1>2, <1>6, GotoAt DEF Apart
  <2>2. SettledBalance' = SettledBalance /\ SettledOutcome' = SettledOutcome
    BY <1>1, <1>2, <1>6, <2>1, SameBalances, SameOutcomes
  <2>. QED  BY <1>1, <1>6, <2>2 DEF Abstract!vars
<1>. QED  BY <1>3, <1>5, <1>6

\* Locks are taken and given back unnoticed.
LEMMA LocksMap ==
    ASSUME Inv, Inv', NEW t \in Thread,
           Acquire(t) \/ AcquireSecond(t) \/ ReleaseSecond(t) \/ Release(t)
    PROVE  UNCHANGED Abstract!vars
<1>1. UNCHANGED <<accounts, balance, request, outcome>> /\ pc[t] # "credit"
  BY DEF Acquire, AcquireSecond, ReleaseSecond, Release, At
<1>2. Types /\ Types'
  BY DEF Inv
<1>3. PICK loc \in {"lock2", "read", "unlock", "return"} : Goto(t, loc)
  BY DEF Acquire, AcquireSecond, ReleaseSecond, Release
<1>4. pc'[t] = loc /\ Apart(t)
  BY <1>1, <1>2, <1>3, GotoAt DEF Apart
<1>5. SettledBalance' = SettledBalance /\ SettledOutcome' = SettledOutcome
  BY <1>1, <1>2, <1>4, SameBalances, SameOutcomes
<1>. QED  BY <1>1, <1>5 DEF Abstract!vars

\* The two specifications agree on which calls go on to write, and on what a call
\* returns that does not.
LEMMA SameDecision ==
    ASSUME NEW r \in RequestType, r.op # "CreateAccount", NEW bal \in Int
    PROVE  /\ Abstract!Moves(r, bal) = Moves(r, bal)
           /\ ~Moves(r, bal) => Abstract!Result(r, bal)
                = IF r.op = "GetBalance" THEN ReturnsInt(bal) ELSE Returns(FALSE)
           /\ Moves(r, bal) => Abstract!Result(r, bal)
                = Returns(r.op = "DepositAndCompare" => bal + r.amount >= r.threshold)
<1>1. r.op \in {"Deposit", "Withdraw", "Transfer", "DepositAndCompare", "GetBalance"}
      /\ r.overdraw \in BOOLEAN
  BY DEF RequestType
<1>2. Abstract!Moves(r, bal) = Moves(r, bal)
  BY <1>1 DEF Moves, Abstract!Moves, Transfers
<1>3. CASE r.op \in {"Deposit", "DepositAndCompare"}
  <2>. DEFINE enough == bal + r.amount >= r.threshold
              told == r.op = "DepositAndCompare" => enough
  <2>1. Moves(r, bal)
    BY <1>3 DEF Moves
  <2>2. Abstract!Result(r, bal) = Returns(told)
    <3>1. CASE r.op = "Deposit"
      <4>1. told = TRUE
        BY <3>1
      <4>2. Abstract!Result(r, bal) = Returns(TRUE)
        BY <3>1 DEF Abstract!Result, Abstract!Returns, Returns
      <4>. QED  BY <4>1, <4>2
    <3>2. CASE r.op = "DepositAndCompare"
      <4>1. told = enough
        BY <3>2
      <4>2. Abstract!Result(r, bal) = Returns(enough)
        BY <3>2 DEF Abstract!Result, Abstract!Returns, Returns
      <4>. QED  BY <4>1, <4>2
    <3>. QED  BY <1>3, <3>1, <3>2
  <2>. QED  BY <1>2, <2>1, <2>2
<1>4. CASE r.op = "GetBalance"
  BY <1>2, <1>4 DEF Moves, Transfers, Abstract!Result, Abstract!ReturnsInt, ReturnsInt
<1>5. CASE r.op \in {"Withdraw", "Transfer"}
  <2>. DEFINE moves == Moves(r, bal)
              told == r.op = "DepositAndCompare" => bal + r.amount >= r.threshold
  <2>1. Abstract!Result(r, bal) = Returns(moves)
    BY <1>2, <1>5 DEF Abstract!Result, Abstract!Returns, Returns
  <2>2. told = TRUE /\ r.op # "GetBalance"
    BY <1>5
  <2>3. moves \in BOOLEAN
    BY DEF Moves
  <2>4. CASE moves = TRUE
    <3>1. Abstract!Result(r, bal) = Returns(told)
      BY <2>1, <2>2, <2>4
    <3>. QED  BY <1>2, <2>4, <3>1
  <2>5. CASE moves = FALSE
    <3>1. Abstract!Result(r, bal) = Returns(FALSE)
      BY <2>1, <2>5
    <3>. QED  BY <1>2, <2>2, <2>5, <3>1
  <2>. QED  BY <2>3, <2>4, <2>5
<1>. QED  BY <1>1, <1>2, <1>3, <1>4, <1>5

\* A call that found its accounts is not rejected by AtomicBank either.
LEMMA NotRejected ==
    ASSUME NEW r \in RequestType, r.op # "CreateAccount", ~NotFound(r)
    PROVE  ~Abstract!Rejected(r, accounts)
BY DEF NotFound, Transfers, Abstract!Rejected, Abstract!Exists

\* A call that reads the balance and will not write takes effect then.
LEMMA ReadMaps ==
    ASSUME Inv, Inv', NEW t \in Thread, Read(t)
    PROVE  Abstract!Effect(t) \/ UNCHANGED Abstract!vars
<1>. DEFINE r == R(t)
            bal == balance[r.id]
            o == IF r.op = "GetBalance" THEN ReturnsInt(bal) ELSE Returns(FALSE)
            loc == IF LeaksLock(r, bal) THEN "return"
                   ELSE IF Transfers(r) THEN "unlock2" ELSE "unlock"
<1>1. pc[t] = "read" /\ UNCHANGED <<accounts, balance, request>>
  BY DEF Read, At
<1>2. Types /\ Types' /\ r \in RequestType /\ r.id \in Account
  BY <1>1, CallTypes DEF Inv
<1>3. r.op # "CreateAccount" /\ ~NotFound(r) /\ bal \in Int
  BY <1>1, <1>2 DEF Inv, Right, Found, Types
<1>4. \/ Goto(t, "write") /\ outcome' = outcome
      \/ ~Moves(r, bal) /\ Decide(t, o) /\ Goto(t, loc)
  BY DEF Read, R
<1>5. CASE Goto(t, "write") /\ outcome' = outcome
  <2>1. pc'[t] = "write" /\ Apart(t)
    BY <1>1, <1>2, <1>5, GotoAt DEF Apart
  <2>2. SettledBalance' = SettledBalance /\ SettledOutcome' = SettledOutcome
    BY <1>1, <1>2, <1>5, <2>1, SameBalances, SameOutcomes
  <2>. QED  BY <1>1, <1>5, <2>2 DEF Abstract!vars
<1>6. CASE ~Moves(r, bal) /\ Decide(t, o) /\ Goto(t, loc)
  <2>1. pc'[t] = loc /\ loc # "credit" /\ Apart(t)
    BY <1>1, <1>2, <1>6, GotoAt DEF Apart
  <2>2. SettledBalance' = SettledBalance
    BY <1>1, <2>1, SameBalances
  <2>3. SettledOutcome' = [SettledOutcome EXCEPT ![t] = <<o>>]
    BY <1>1, <1>2, <1>6, <2>1, OutcomeSet DEF Decide
  <2>4. SettledBalance[r.id] = bal
    BY <1>1, ReadSettled
  <2>5. o = Abstract!Result(r, SettledBalance[r.id]) /\ ~Abstract!Moves(r, SettledBalance[r.id])
    BY <1>2, <1>3, <1>6, <2>4, SameDecision
  <2>6. request[t] # <<>> /\ SettledOutcome[t] = <<>> /\ ~Abstract!Rejected(r, accounts)
    BY <1>1, <1>2, <1>3, Undecided, NotRejected DEF Decided
  <2>. HIDE DEF o
  <2>7. Abstract!Effect(t)
    BY <1>1, <2>2, <2>3, <2>5, <2>6 DEF Abstract!Effect, R
  <2>. QED  BY <2>7
<1>. QED  BY <1>4, <1>5, <1>6

\* A call that moves money takes effect when it writes the balance of r.id, the credit
\* of a transfer included.
LEMMA WriteMaps ==
    ASSUME Inv, Inv', NEW t \in Thread, Write(t)
    PROVE  Abstract!Effect(t)
<1>. DEFINE r == R(t)
            bal == balance[r.id]
            told == r.op = "DepositAndCompare" => bal + r.amount >= r.threshold
<1>1. pc[t] = "write" /\ UNCHANGED <<accounts, request>>
  BY DEF Write, At
<1>2. /\ Types /\ Types' /\ r \in RequestType /\ r.id \in Account /\ r.to \in Account
      /\ r.amount \in Int
  BY <1>1, CallTypes DEF Inv
<1>3. /\ r.op # "CreateAccount" /\ ~NotFound(r) /\ bal \in Int
      /\ seen[t] = bal /\ Moves(r, bal) /\ balance \in [Account -> Int]
  BY <1>1, <1>2 DEF Inv, Right, Found, ReadIsFresh, Types
<1>4. balance' = [balance EXCEPT ![r.id] = bal + Change(r)] /\ Change(r) \in Int
  BY <1>2, <1>3 DEF Write, R, Change
<1>5. /\ SettledBalance[r.id] = bal
      /\ Transfers(r) => SettledBalance[r.to] = balance[r.to] /\ r.to # r.id
      /\ \A u \in Thread \ {t} : ~Crediting(u, r.id)
      /\ Settled /\ Settled'
  <2>1. Settled /\ Settled'
    BY SettledRight, SettledRightNext
  <2>2. lock[r.id] = t
    BY <1>1, OwnsAccounts
  <2>3. \A u \in Thread \ {t} : ~Crediting(u, r.id)
    BY <1>2, <2>1, <2>2 DEF Settled
  <2>. QED  BY <1>1, <2>1, <2>3, ReadSettled, OwnsAccounts
<1>6. /\ Apart(t)
      /\ Transfers(r) => pc'[t] = "credit" /\ outcome' = outcome
      /\ ~Transfers(r) => pc'[t] = "unlock" /\ outcome' = [outcome EXCEPT ![t] = <<Returns(told)>>]
  <2>1. \/ Transfers(r) /\ Goto(t, "credit") /\ outcome' = outcome
        \/ /\ ~Transfers(r) /\ Goto(t, "unlock")
           /\ Decide(t, Returns(r.op = "DepositAndCompare" => seen[t] + Change(r) >= r.threshold))
    BY DEF Write, R
  <2>2. CASE Transfers(r) /\ Goto(t, "credit") /\ outcome' = outcome
    BY <1>1, <1>2, <2>2, GotoAt DEF Apart
  <2>3. CASE /\ ~Transfers(r) /\ Goto(t, "unlock")
             /\ Decide(t, Returns(r.op = "DepositAndCompare" => seen[t] + Change(r) >= r.threshold))
    <3>1. pc'[t] = "unlock" /\ Apart(t)
      BY <1>1, <1>2, <2>3, GotoAt DEF Apart
    <3>2. (r.op = "DepositAndCompare" => seen[t] + Change(r) >= r.threshold) = told
      BY <1>3 DEF Change
    <3>3. outcome' = [outcome EXCEPT ![t] = <<Returns(told)>>]
      BY <2>3, <3>2 DEF Decide
    <3>. QED  BY <2>3, <3>1, <3>3
  <2>. QED  BY <2>1, <2>2, <2>3
<1>7. /\ Crediting(t, r.to)' <=> Transfers(r)
      /\ \A a \in Account : a # r.to => ~Crediting(t, a)'
      /\ \A a \in Account : ~Crediting(t, a)
      /\ \A u \in Thread \ {t} : \A a \in Account :
            (Crediting(u, a)' <=> Crediting(u, a)) /\ R(u)' = R(u)
      /\ R(t)' = r
  BY <1>1, <1>6 DEF Apart, Crediting, At, R
<1>. DEFINE After(a) == IF a = r.id THEN SettledBalance[a] + Change(r)
                        ELSE IF r.op = "Transfer" /\ a = r.to THEN SettledBalance[a] + r.amount
                        ELSE SettledBalance[a]
<1>8. ASSUME NEW a \in Account
      PROVE  SettledBalance'[a] = After(a)
  <2>1. CASE a = r.id
    <3>1. \A u \in Thread : ~Crediting(u, a)'
      BY <1>2, <1>5, <1>7, <2>1 DEF Transfers
    <3>2. SettledBalance'[a] = balance'[a]
      BY <1>5, <3>1 DEF Settled
    <3>3. balance'[a] = bal + Change(r)
      BY <1>2, <1>3, <1>4, <2>1
    <3>. QED  BY <1>5, <2>1, <3>2, <3>3
  <2>2. CASE a # r.id /\ Transfers(r) /\ a = r.to
    <3>1. Crediting(t, a)'
      BY <1>7, <2>2
    <3>2. SettledBalance'[a] = balance'[a] + r.amount
      BY <1>5, <1>7, <3>1 DEF Settled
    <3>3. balance'[a] = balance[a]
      BY <1>2, <1>3, <1>4, <2>2
    <3>. QED  BY <1>5, <2>2, <3>2, <3>3 DEF Transfers
  <2>3. CASE a # r.id /\ ~(Transfers(r) /\ a = r.to)
    <3>1. balance'[a] = balance[a]
      BY <1>2, <1>3, <1>4, <2>3
    <3>2. ~Crediting(t, a)' /\ ~Crediting(t, a)
      BY <1>7, <2>3
    <3>3. SettledBalance'[a] = SettledBalance[a]
      <4>1. CASE \E u \in Thread : Crediting(u, a)
        <5>1. PICK u \in Thread : Crediting(u, a)
          BY <4>1
        <5>2. u # t /\ Crediting(u, a)' /\ R(u)' = R(u)
          BY <1>7, <3>2, <5>1
        <5>. QED  BY <1>5, <3>1, <5>1, <5>2 DEF Settled
      <4>2. CASE \A u \in Thread : ~Crediting(u, a)
        <5>1. \A u \in Thread : ~Crediting(u, a)'
          BY <1>7, <3>2, <4>2
        <5>2. SettledBalance[a] = balance[a]
          BY <1>5, <4>2 DEF Settled
        <5>3. SettledBalance'[a] = balance'[a]
          BY <1>5, <5>1 DEF Settled
        <5>. QED  BY <3>1, <5>2, <5>3
      <4>. QED  BY <4>1, <4>2
    <3>. QED  BY <2>3, <3>3 DEF Transfers
  <2>. QED  BY <2>1, <2>2, <2>3
<1>9. SettledBalance' = [a \in Account |-> After(a)]
  <2>1. SettledBalance' \in [Account -> Int]
    BY <1>5 DEF Settled
  <2>. HIDE DEF After
  <2>. QED  BY <1>8, <2>1
<1>10. SettledOutcome' = [SettledOutcome EXCEPT ![t] = <<Returns(told)>>]
  <2>1. CASE Transfers(r)
    <3>1. told = TRUE
      BY <2>1 DEF Transfers
    <3>2. SettledOutcome' = [SettledOutcome EXCEPT ![t] = <<Returns(TRUE)>>]
      BY <1>6, <2>1, <1>2 DEF SettledOutcome, Apart, At, Types
    <3>. QED  BY <3>1, <3>2
  <2>2. CASE ~Transfers(r)
    <3>. HIDE DEF told
    <3>. QED  BY <1>1, <1>2, <1>6, <2>2, OutcomeSet
  <2>. QED  BY <2>1, <2>2
<1>11. /\ Returns(told) = Abstract!Result(r, SettledBalance[r.id])
       /\ Abstract!Moves(r, SettledBalance[r.id])
  BY <1>2, <1>3, <1>5, SameDecision
<1>12. request[t] # <<>> /\ SettledOutcome[t] = <<>> /\ ~Abstract!Rejected(r, accounts)
  BY <1>1, <1>2, <1>3, Undecided, NotRejected DEF Decided
<1>13. SettledOutcome' = [SettledOutcome EXCEPT ![t] = <<Abstract!Result(r, SettledBalance[r.id])>>]
  BY <1>10, <1>11
<1>14. Abstract!Change(r) = Change(r)
  BY DEF Change, Abstract!Change
<1>. QED  BY <1>1, <1>9, <1>11, <1>12, <1>13, <1>14 DEF Abstract!Effect, R

\* The credit of a transfer was already counted.
LEMMA CreditMaps ==
    ASSUME Inv, Inv', NEW t \in Thread, Credit(t)
    PROVE  UNCHANGED Abstract!vars
<1>. DEFINE r == R(t)
<1>1. /\ pc[t] = "credit" /\ UNCHANGED <<accounts, request>> /\ Goto(t, "unlock2")
      /\ outcome' = [outcome EXCEPT ![t] = <<Returns(TRUE)>>]
      /\ balance' = [balance EXCEPT ![r.to] = balance[r.to] + r.amount]
  BY DEF Credit, At, Decide, R
<1>2. Types /\ Types' /\ r.to \in Account /\ r.amount \in Int /\ balance \in [Account -> Int]
  BY <1>1, CallTypes DEF Inv, Types
<1>3. pc'[t] = "unlock2" /\ Apart(t)
  BY <1>1, <1>2, GotoAt DEF Apart
<1>4. Settled /\ Settled'
  BY SettledRight, SettledRightNext
<1>5. /\ Crediting(t, r.to) /\ \A a \in Account : ~Crediting(t, a)'
      /\ \A a \in Account : a # r.to => ~Crediting(t, a)
      /\ \A u \in Thread \ {t} : \A a \in Account :
            (Crediting(u, a)' <=> Crediting(u, a)) /\ R(u)' = R(u)
  BY <1>1, <1>3 DEF Apart, Crediting, At, R
<1>6. ASSUME NEW a \in Account
      PROVE  SettledBalance'[a] = SettledBalance[a]
  <2>1. CASE a = r.to
    <3>1. SettledBalance[a] = balance[a] + r.amount /\ lock[a] = t
      BY <1>4, <1>5, <2>1 DEF Settled
    <3>2. \A u \in Thread : ~Crediting(u, a)'
      BY <1>4, <1>5, <3>1 DEF Settled
    <3>3. SettledBalance'[a] = balance'[a]
      BY <1>4, <3>2 DEF Settled
    <3>. QED  BY <1>1, <1>2, <2>1, <3>1, <3>3
  <2>2. CASE a # r.to
    <3>1. balance'[a] = balance[a]
      BY <1>1, <1>2, <2>2
    <3>2. CASE \E u \in Thread : Crediting(u, a)
      <4>1. PICK u \in Thread : Crediting(u, a)
        BY <3>2
      <4>2. u # t /\ Crediting(u, a)' /\ R(u)' = R(u)
        BY <1>5, <2>2, <4>1
      <4>. QED  BY <1>4, <3>1, <4>1, <4>2 DEF Settled
    <3>3. CASE \A u \in Thread : ~Crediting(u, a)
      <4>1. \A u \in Thread : ~Crediting(u, a)'
        BY <1>5, <3>3
      <4>2. SettledBalance[a] = balance[a]
        BY <1>4, <3>3 DEF Settled
      <4>3. SettledBalance'[a] = balance'[a]
        BY <1>4, <4>1 DEF Settled
      <4>. QED  BY <3>1, <4>2, <4>3
    <3>. QED  BY <3>2, <3>3
  <2>. QED  BY <2>1, <2>2
<1>7. SettledBalance' = SettledBalance
  <2>1. SettledBalance \in [Account -> Int] /\ SettledBalance' \in [Account -> Int]
    BY <1>4 DEF Settled
  <2>. QED  BY <1>6, <2>1
<1>8. SettledOutcome' = SettledOutcome
  BY <1>1, <1>2, <1>3 DEF SettledOutcome, Apart, At, Types
<1>. QED  BY <1>1, <1>7, <1>8 DEF Abstract!vars

\* A call returns what was decided.
LEMMA ReturnMaps ==
    ASSUME Inv, Inv', NEW t \in Thread, Return(t)
    PROVE  Abstract!Return(t)
<1>1. /\ pc[t] = "return" /\ Goto(t, "idle")
      /\ request' = [request EXCEPT ![t] = <<>>]
      /\ outcome' = [outcome EXCEPT ![t] = <<>>]
      /\ UNCHANGED <<accounts, balance>>
  BY DEF Return, At
<1>2. Types /\ Types'
  BY DEF Inv
<1>3. pc'[t] = "idle" /\ Apart(t)
  BY <1>1, <1>2, GotoAt DEF Apart, Types
<1>4. SettledBalance' = SettledBalance /\ SettledOutcome' = [SettledOutcome EXCEPT ![t] = <<>>]
  BY <1>1, <1>2, <1>3, SameBalances, OutcomeSet
<1>5. SettledOutcome[t] # <<>>
  <2>1. outcome[t] \in Seq(Outcome) /\ Len(outcome[t]) = 1
    BY <1>1, <1>2 DEF Types
  <2>2. outcome[t] # <<>>
    BY <2>1, ShortSeq
  <2>. QED  BY <1>1, <2>2 DEF SettledOutcome, At
<1>. QED  BY <1>1, <1>4, <1>5 DEF Abstract!Return

\* The initial states are those of AtomicBank.
LEMMA InitMaps == Init => Abstract!Init
<1>. SUFFICES ASSUME Init PROVE Abstract!Init
  OBVIOUS
<1>1. \A t \in Thread : pc[t] # "credit"
  BY DEF Init
<1>2. SettledBalance = [a \in Account |-> 0]
  BY <1>1 DEF SettledBalance, Crediting, At, Init
<1>3. SettledOutcome = [t \in Thread |-> <<>>]
  BY <1>1 DEF SettledOutcome, At, Init
<1>. QED  BY <1>2, <1>3 DEF Init, Abstract!Init

\* Every step of the code is a step of AtomicBank or leaves what it shows unchanged.
LEMMA NextMaps ==
    ASSUME Inv, Inv', [Next]_vars
    PROVE  [Abstract!Next]_Abstract!vars
<1>1. CASE UNCHANGED vars
  BY <1>1 DEF vars, Abstract!vars, SettledBalance, SettledOutcome, Crediting, At
<1>2. CASE Next
  <2>1. PICK t \in Thread : Step(t) \/ \E r \in Request : Call(t, r)
    BY <1>2 DEF Next
  <2>2. \/ Abstract!Call(t) \/ Abstract!Effect(t) \/ Abstract!Return(t)
        \/ UNCHANGED Abstract!vars
    BY <2>1, CallMaps, LookupMaps, LocksMap, ReadMaps, WriteMaps, CreditMaps, ReturnMaps DEF Step
  <2>. QED  BY <2>2 DEF Abstract!Next
<1>. QED  BY <1>1, <1>2

\* bank.go implements AtomicBank: with its account locks, every method takes effect
\* at one moment between its call and its return, for any number of goroutines,
\* accounts and calls.
THEOREM Implements == Spec => Atomic
BY InitMaps, NextMaps, Invariance, PTL DEF Spec, Atomic, Abstract!Spec

=============================================================================
