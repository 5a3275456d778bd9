-------------------------------- MODULE Bank --------------------------------
(***************************************************************************)
(* The bank of bank/bank.go, called by concurrent goroutines.              *)
(*                                                                         *)
(* A method looks its accounts up under bankLock, which is one action (no  *)
(* other lock is taken inside it), then takes the locks of its accounts    *)
(* one by one, reads the balance, writes it, and gives the locks back.     *)
(* Lock and Unlock, and each access to a balance, are actions of their     *)
(* own, so that all interleavings of two calls are behaviours.             *)
(*                                                                         *)
(* A Slip_ operator is the definition after it with a likely mistake; it   *)
(* only serves to confirm that a property would notice it.                 *)
(***************************************************************************)
EXTENDS BankCalls, Sequences

CONSTANT MaxCalls       \* bound: calls made by one goroutine

ASSUME MaxCallsAssumption == MaxCalls \in Nat

Free == "free"          \* an account lock nobody holds

ASSUME FreeAssumption == Free \notin Thread

VARIABLES
    accounts,   \* keys of Bank.accounts
    balance,    \* Account.balance
    lock,       \* Account.lock: the goroutine that locked it, or Free
    pc,         \* where each goroutine is in its call
    request,    \* the arguments of the call, <<>> outside of a call
    seen,       \* the balance the call has read
    outcome,    \* what the call will return, <<>> while undecided
    calls,      \* calls made so far
    leaked      \* history: accounts that Withdraw left locked (bank.go:114)

vars == <<accounts, balance, lock, pc, request, seen, outcome, calls, leaked>>

Location == {"idle", "lookup", "lock", "lock2", "read", "write", "credit",
             "unlock2", "unlock", "return"}

Init ==
    /\ accounts = {}
    /\ balance = [a \in Account |-> 0]
    /\ lock = [a \in Account |-> Free]
    /\ pc = [t \in Thread |-> "idle"]
    /\ request = [t \in Thread |-> <<>>]
    /\ seen = [t \in Thread |-> 0]
    /\ outcome = [t \in Thread |-> <<>>]
    /\ calls = [t \in Thread |-> 0]
    /\ leaked = {}

-----------------------------------------------------------------------------
At(t, loc) == pc[t] = loc
Goto(t, loc) == pc' = [pc EXCEPT ![t] = loc]
Decide(t, o) == outcome' = [outcome EXCEPT ![t] = <<o>>]

Transfers(r) == r.op = "Transfer"

\* The account whose lock a call takes first: the lower id of a transfer.
Slip_First(r) == r.id
First(r) == IF Transfers(r) /\ r.to < r.id THEN r.to ELSE r.id
Second(r) == IF First(r) = r.id THEN r.to ELSE r.id

Call(t, r) ==
    /\ At(t, "idle")
    /\ calls[t] < MaxCalls
    /\ request' = [request EXCEPT ![t] = <<r>>]
    /\ calls' = [calls EXCEPT ![t] = @ + 1]
    /\ Goto(t, "lookup")
    /\ UNCHANGED <<accounts, balance, lock, seen, outcome, leaked>>

\* CreateAccount: the whole call is one critical section of bankLock.
CreateAccount(t, r) ==
    /\ accounts' = accounts \cup {r.id}
    /\ Decide(t, IF r.id \in accounts THEN Panics ELSE Returns(TRUE))
    /\ Goto(t, "return")

\* A call that goes no further than the lookup, and what comes of it.  A
\* transfer needs both its accounts; Withdraw unlocks the lock of the account
\* it did not find, which is a nil dereference.
NotFound(r) ==
    \/ r.id \notin accounts
    \/ Transfers(r) /\ (r.to \notin accounts \/ r.to = r.id)
    \/ r.op = "DepositAndCompare" /\ r.amount <= 0

Missing(r) ==
    CASE r.op = "Deposit"  -> Returns(TRUE)
      [] r.op = "Withdraw" -> Panics
      [] r.op \in {"Transfer", "DepositAndCompare"} -> Returns(FALSE)
      [] r.op = "GetBalance" -> Panics

\* The critical section of bankLock at the head of every method.
Lookup(t) ==
    /\ At(t, "lookup")
    /\ LET r == request[t][1] IN
       \/ r.op = "CreateAccount" /\ CreateAccount(t, r)
       \/ /\ r.op # "CreateAccount" /\ NotFound(r)
          /\ Decide(t, Missing(r))
          /\ Goto(t, "return")
          /\ UNCHANGED accounts
       \/ /\ r.op # "CreateAccount" /\ ~NotFound(r)
          /\ Goto(t, "lock")
          /\ UNCHANGED <<accounts, outcome>>
    /\ UNCHANGED <<balance, lock, request, seen, calls, leaked>>

\* account.lock.Lock(), firstAccount.lock.Lock()
Slip_Acquire(t) ==
    /\ At(t, "lock")
    /\ Goto(t, "read")
    /\ UNCHANGED <<accounts, balance, lock, request, seen, outcome, calls, leaked>>
Acquire(t) ==
    /\ At(t, "lock")
    /\ LET r == request[t][1] IN
       /\ lock[First(r)] = Free
       /\ lock' = [lock EXCEPT ![First(r)] = t]
       /\ Goto(t, IF Transfers(r) THEN "lock2" ELSE "read")
    /\ UNCHANGED <<accounts, balance, request, seen, outcome, calls, leaked>>

\* secondAccount.lock.Lock()
AcquireSecond(t) ==
    /\ At(t, "lock2")
    /\ LET r == request[t][1] IN
       /\ lock[Second(r)] = Free
       /\ lock' = [lock EXCEPT ![Second(r)] = t]
       /\ Goto(t, "read")
    /\ UNCHANGED <<accounts, balance, request, seen, outcome, calls, leaked>>

\* Whether the call goes on to write the balance it has read.
Moves(r, bal) ==
    \/ r.op \in {"Deposit", "DepositAndCompare"}
    \/ r.op = "Withdraw" /\ bal >= r.amount /\ bal >= 0
    \/ Transfers(r) /\ (bal >= r.amount \/ r.overdraw)

\* Withdraw finds the balance negative and returns from the middle of its critical
\* section.
LeaksLock(r, bal) == r.op = "Withdraw" /\ bal >= r.amount /\ bal < 0

\* The call reads account.balance, or senderAccount.balance, and decides.
Read(t) ==
    /\ At(t, "read")
    /\ LET r == request[t][1]
           bal == balance[r.id]
       IN
       /\ seen' = [seen EXCEPT ![t] = bal]
       /\ leaked' = IF LeaksLock(r, bal) THEN leaked \cup {r.id} ELSE leaked
       /\ \/ Moves(r, bal) /\ Goto(t, "write") /\ UNCHANGED outcome
          \/ /\ ~Moves(r, bal)
             /\ Decide(t, IF r.op = "GetBalance" THEN ReturnsInt(bal) ELSE Returns(FALSE))
             /\ Goto(t, IF LeaksLock(r, bal) THEN "return"
                        ELSE IF Transfers(r) THEN "unlock2" ELSE "unlock")
    /\ UNCHANGED <<accounts, balance, lock, request, calls>>

\* account.balance = newBalance, senderAccount.balance -= amount
Change(r) == IF r.op \in {"Withdraw", "Transfer"} THEN - r.amount ELSE r.amount

Write(t) ==
    /\ At(t, "write")
    /\ LET r == request[t][1]
           new == seen[t] + Change(r)
       IN
       /\ balance' = [balance EXCEPT ![r.id] = new]
       /\ IF Transfers(r)
          THEN Goto(t, "credit") /\ UNCHANGED outcome
          ELSE /\ Decide(t, Returns(r.op = "DepositAndCompare" => new >= r.threshold))
               /\ Goto(t, "unlock")
    /\ UNCHANGED <<accounts, lock, request, seen, calls, leaked>>

\* receiverAccount.balance += amount; success = true
Credit(t) ==
    /\ At(t, "credit")
    /\ LET r == request[t][1] IN
       balance' = [balance EXCEPT ![r.to] = @ + r.amount]
    /\ Decide(t, Returns(TRUE))
    /\ Goto(t, "unlock2")
    /\ UNCHANGED <<accounts, lock, request, seen, calls, leaked>>

\* secondAccount.lock.Unlock()
ReleaseSecond(t) ==
    /\ At(t, "unlock2")
    /\ lock' = [lock EXCEPT ![Second(request[t][1])] = Free]
    /\ Goto(t, "unlock")
    /\ UNCHANGED <<accounts, balance, request, seen, outcome, calls, leaked>>

\* account.lock.Unlock(), firstAccount.lock.Unlock().  The slip: the branch of
\* Withdraw for an insufficient balance returns without it.
Slip_Release(t) ==
    /\ At(t, "unlock")
    /\ lock' = IF request[t][1].op = "Withdraw" /\ ~outcome[t][1].ok THEN lock
               ELSE [lock EXCEPT ![First(request[t][1])] = Free]
    /\ Goto(t, "return")
    /\ UNCHANGED <<accounts, balance, request, seen, outcome, calls, leaked>>
Release(t) ==
    /\ At(t, "unlock")
    /\ lock' = [lock EXCEPT ![First(request[t][1])] = Free]
    /\ Goto(t, "return")
    /\ UNCHANGED <<accounts, balance, request, seen, outcome, calls, leaked>>

\* The call is over; a panic is recovered by the caller, as bank_test.go does.
Return(t) ==
    /\ At(t, "return")
    /\ request' = [request EXCEPT ![t] = <<>>]
    /\ outcome' = [outcome EXCEPT ![t] = <<>>]
    /\ Goto(t, "idle")
    /\ UNCHANGED <<accounts, balance, lock, seen, calls, leaked>>

Step(t) ==
    \/ Lookup(t) \/ Acquire(t) \/ AcquireSecond(t) \/ Read(t) \/ Write(t)
    \/ Credit(t) \/ ReleaseSecond(t) \/ Release(t) \/ Return(t)

Next == \E t \in Thread : Step(t) \/ \E r \in Request : Call(t, r)

Spec == Init /\ [][Next]_vars

\* A goroutine in a call keeps running, and sync.Mutex does not starve a waiter
\* (after 1 ms the lock is handed to the longest waiting one).
Fairness ==
    \A t \in Thread : /\ WF_vars(Step(t))
                      /\ SF_vars(Acquire(t))
                      /\ SF_vars(AcquireSecond(t))

FairSpec == Spec /\ Fairness

-----------------------------------------------------------------------------
(* Properties *)

\* The locks that a call has taken and will give back.
Holds(t) ==
    LET r == request[t][1]
    IN  CASE pc[t] \in {"read", "write", "credit", "unlock2"} ->
                    IF Transfers(r) THEN {First(r), Second(r)} ELSE {First(r)}
          [] pc[t] \in {"lock2", "unlock"} -> {First(r)}
          [] OTHER -> {}

\* Which of a goroutine's variables are set where it is: a call has its arguments
\* until it returns, and its result from the moment it decides.
Types ==
    /\ accounts \subseteq Account
    /\ balance \in [Account -> Int]
    /\ lock \in [Account -> Thread \cup {Free}]
    /\ pc \in [Thread -> Location]
    /\ request \in [Thread -> Seq(Request)]
    /\ seen \in [Thread -> Int]
    /\ outcome \in [Thread -> Seq(Outcome)]
    /\ calls \in [Thread -> 0 .. MaxCalls]
    /\ leaked \subseteq Account
    /\ \A t \in Thread :
        /\ Len(request[t]) = IF At(t, "idle") THEN 0 ELSE 1
        /\ Len(outcome[t]) = IF pc[t] \in {"unlock2", "unlock", "return"} THEN 1 ELSE 0

\* A lock that is taken is one of those its goroutine will give back.
LocksOwned == \A a \in Account : lock[a] # Free => a \in Holds(lock[a]) \cup leaked

\* The types of the variables and the owners of the locks: on every path of every
\* method a lock that was taken is given back before the method returns, but for
\* the return in the middle of Withdraw (bank.go:114).
TypeOK == Types /\ LocksOwned

\* The code implements AtomicBank: a transfer that has debited the sender and
\* not yet credited the receiver has, for everybody else, already happened.
Crediting(t, a) == At(t, "credit") /\ request[t][1].to = a

SettledBalance ==
    [a \in Account |->
        IF \E t \in Thread : Crediting(t, a)
        THEN balance[a] + request[CHOOSE t \in Thread : Crediting(t, a)][1].amount
        ELSE balance[a]]

SettledOutcome ==
    [t \in Thread |-> IF At(t, "credit") THEN <<Returns(TRUE)>> ELSE outcome[t]]

Abstract == INSTANCE AtomicBank
            WITH balance <- SettledBalance, outcome <- SettledOutcome

\* Every method takes effect at one moment between its call and its return, on
\* the balances of that moment: the locks of bank.go make calls atomic.
Atomic == Abstract!Spec

\* The locks that are never given back: those Withdraw left behind (bank.go:114),
\* and with one of them that of any transfer which holds its first lock and waits
\* for the second.
Lost ==
    {a \in Account : \A S \in SUBSET Account :
        (/\ leaked \subseteq S
         /\ \A t \in Thread : At(t, "lock2") /\ Second(request[t][1]) \in S
                                => First(request[t][1]) \in S)
            => a \in S}

WaitsForLost(t) ==
    \/ At(t, "lock") /\ First(request[t][1]) \in Lost
    \/ At(t, "lock2") /\ Second(request[t][1]) \in Lost

\* Every call returns, whatever calls it meets: the ordered locking of Transfer
\* (bank.go:151) excludes deadlock, and no path keeps a lock but the one of Withdraw
\* that finds a negative balance (bank.go:114).  Only a call that comes to wait for
\* a lock lost there is excepted; calls on other accounts return.
EveryCallReturns == \A t \in Thread : ~At(t, "idle") ~> (At(t, "idle") \/ WaitsForLost(t))

=============================================================================
