------------------------------- MODULE MCBank -------------------------------
(* Small instances of Bank for TLC. *)
EXTENDS Bank

Req(op, id, to, amount, overdraw, threshold) ==
    [op |-> op, id |-> id, to |-> to, amount |-> amount,
     overdraw |-> overdraw, threshold |-> threshold]

Create(a)          == Req("CreateAccount", a, a, 0, FALSE, 0)
Deposit(a, n)      == Req("Deposit", a, a, n, FALSE, 0)
Withdraw(a, n)     == Req("Withdraw", a, a, n, FALSE, 0)
Pay(a, b, n, o)    == Req("Transfer", a, b, n, o, 0)
Compare(a, n, lim) == Req("DepositAndCompare", a, a, n, FALSE, lim)
Balance(a)         == Req("GetBalance", a, a, 0, FALSE, 0)

MCAccount == {1, 2}

\* Amounts and ids as clients use them; the accounts may not exist yet.
CustomerRequests ==
    {Create(1), Create(2), Deposit(1, 2), Withdraw(1, 1),
     Pay(1, 2, 1, FALSE), Pay(2, 1, 1, TRUE), Compare(2, 1, 1), Balance(2),
     Withdraw(2, -3)}

=============================================================================
