----------------------------- MODULE CBDCLedger -----------------------------
(***************************************************************************)
(* What a CBDC workload promises to the benchmark that runs it: a ledger   *)
(* of coins on which whole transfers execute one after the other.  A       *)
(* transfer takes Debit from one coin of each of its senders and gives     *)
(* Credit of every one of those coins to each of its receivers, in one     *)
(* indivisible step; no wallet plays two parts in a transfer and no        *)
(* account is overdrawn.                                                   *)
(*                                                                         *)
(* An account is a pair <<wallet, coin>>: the value of a coin is divided   *)
(* among the wallets that hold a part of it.                               *)
(***************************************************************************)
EXTENDS Integers, Sequences, FiniteSets, Functions

CONSTANTS Wallets, Coins,
          Minted,       \* the value each account starts with
          Senders,      \* senders of a transfer
          Receivers,    \* receivers of a transfer
          Debit,        \* what each sender pays
          Credit        \* what each receiver gets from each sender

VARIABLES balance,      \* account |-> value
          executed      \* the transfers executed so far, in order

Accounts == Wallets \X Coins

WalletsOf(accounts) == {a[1] : a \in accounts}

Init == /\ balance = Minted
        /\ executed = <<>>

(* The balances b after every account of from paid all the wallets in to.  *)
After(b, from, to) ==
  [a \in Accounts |->
     b[a] - (IF a \in from THEN Debit ELSE 0)
                + (IF a[1] \in to
                   THEN Credit * Cardinality({p \in from : p[2] = a[2]})
                   ELSE 0)]

Execute(from, to) ==
  /\ executed' = Append(executed, [from |-> from, to |-> to])
  /\ Cardinality(WalletsOf(from)) = Senders
  /\ Cardinality(to) = Receivers
  /\ to \cap WalletsOf(from) = {}
  /\ \A a \in from : balance[a] >= Debit
  /\ balance' = After(balance, from, to)

Next == \E f \in [1..Senders -> Accounts], g \in [1..Receivers -> Wallets] :
          Execute(Range(f), Range(g))

Spec == Init /\ [][Next]_<<balance, executed>>
=============================================================================
