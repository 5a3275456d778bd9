----------------------------- MODULE AtomicBank -----------------------------
(***************************************************************************)
(* What the bank of bank/bank.go promises to concurrent callers: every     *)
(* operation takes effect at one moment between its call and its return,   *)
(* on the accounts and balances of that moment.                            *)
(***************************************************************************)
EXTENDS BankCalls

VARIABLES
    accounts,   \* ids of the accounts that exist
    balance,    \* their balances; 0 for ids without an account
    request,    \* the call each goroutine is in, <<>> or <<request>>
    outcome     \* what the call will return, <<>> until it took effect

vars == <<accounts, balance, request, outcome>>

\* Whether a call finds its accounts.
Exists(r, open) == r.id \in open /\ (r.op = "Transfer" => r.to \in open)

\* A call that is over after it looked its accounts up, and what it returns.
Rejected(r, open) ==
    \/ r.op = "CreateAccount"
    \/ r.op = "Transfer" /\ r.id = r.to
    \/ r.op = "DepositAndCompare" /\ r.amount <= 0
    \/ ~Exists(r, open)

Rejection(r, open) ==
    CASE r.op = "CreateAccount" -> IF r.id \in open THEN Panics ELSE Returns(TRUE)
      [] r.op = "Deposit"       -> Returns(TRUE)
      [] r.op \in {"Transfer", "DepositAndCompare"} -> Returns(FALSE)
      [] r.op \in {"Withdraw", "GetBalance"}        -> Panics

\* Whether a call that found its accounts moves money, given the balance of r.id.
Moves(r, bal) ==
    CASE r.op \in {"Deposit", "DepositAndCompare"} -> TRUE
      [] r.op = "Withdraw"   -> bal >= r.amount /\ bal >= 0
      [] r.op = "Transfer"   -> bal >= r.amount \/ r.overdraw
      [] r.op = "GetBalance" -> FALSE

\* What it adds to r.id, and what it then returns.
Change(r) == IF r.op \in {"Withdraw", "Transfer"} THEN - r.amount ELSE r.amount

Result(r, bal) ==
    CASE r.op = "Deposit"           -> Returns(TRUE)
      [] r.op = "DepositAndCompare" -> Returns(bal + r.amount >= r.threshold)
      [] r.op = "GetBalance"        -> ReturnsInt(bal)
      [] r.op \in {"Withdraw", "Transfer"} -> Returns(Moves(r, bal))

-----------------------------------------------------------------------------
Init ==
    /\ accounts = {}
    /\ balance = [a \in Account |-> 0]
    /\ request = [t \in Thread |-> <<>>]
    /\ outcome = [t \in Thread |-> <<>>]

Call(t) ==
    /\ request[t] = <<>>
    /\ \E r \in Request : request' = [request EXCEPT ![t] = <<r>>]
    /\ UNCHANGED <<accounts, balance, outcome>>

\* The moment at which the call of t takes effect.
Effect(t) ==
    /\ request[t] # <<>>
    /\ outcome[t] = <<>>
    /\ UNCHANGED request
    /\ LET r == request[t][1] IN
       \/ /\ Rejected(r, accounts)
          /\ outcome' = [outcome EXCEPT ![t] = <<Rejection(r, accounts)>>]
          /\ accounts' = IF r.op = "CreateAccount" THEN accounts \cup {r.id} ELSE accounts
          /\ UNCHANGED balance
       \/ /\ ~Rejected(r, accounts)
          /\ outcome' = [outcome EXCEPT ![t] = <<Result(r, balance[r.id])>>]
          /\ balance' = IF Moves(r, balance[r.id])
                        THEN [a \in Account |->
                                IF a = r.id THEN balance[a] + Change(r)
                                ELSE IF r.op = "Transfer" /\ a = r.to THEN balance[a] + r.amount
                                ELSE balance[a]]
                        ELSE balance
          /\ UNCHANGED accounts

Return(t) ==
    /\ outcome[t] # <<>>
    /\ request' = [request EXCEPT ![t] = <<>>]
    /\ outcome' = [outcome EXCEPT ![t] = <<>>]
    /\ UNCHANGED <<accounts, balance>>

Next == \E t \in Thread : Call(t) \/ Effect(t) \/ Return(t)

Spec == Init /\ [][Next]_vars

=============================================================================
