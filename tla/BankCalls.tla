----------------------------- MODULE BankCalls ------------------------------
(***************************************************************************)
(* The calls of the bank of bank/bank.go and what they may return, shared  *)
(* by the specification of what the bank promises (AtomicBank) and the     *)
(* model of its code (Bank).                                               *)
(***************************************************************************)
EXTENDS Integers

CONSTANTS
    Thread,     \* goroutines that call the bank
    Account,    \* account ids
    Request     \* the calls they may make

\* The methods of Bank.  "to" and "overdraw" are arguments of Transfer only,
\* "threshold" of DepositAndCompare only.
RequestType == [op : {"CreateAccount", "Deposit", "Withdraw", "Transfer",
                      "DepositAndCompare", "GetBalance"},
                id : Account, to : Account, amount : Int, overdraw : BOOLEAN,
                threshold : Int]

ASSUME AccountAssumption == Account \subseteq Int
ASSUME RequestAssumption == Request \subseteq RequestType

\* A method returns a Boolean, a number or nothing, or it panics.
Outcome == [panics : BOOLEAN, ok : BOOLEAN, value : Int]
Returns(ok)   == [panics |-> FALSE, ok |-> ok, value |-> 0]
ReturnsInt(n) == [panics |-> FALSE, ok |-> TRUE, value |-> n]
Panics        == [panics |-> TRUE, ok |-> FALSE, value |-> 0]

=============================================================================
