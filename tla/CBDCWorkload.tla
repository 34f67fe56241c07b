---------------------------- MODULE CBDCWorkload ----------------------------
(***************************************************************************)
(* CBDCBenchmarkWorkload::generate(): draws random coin transfers between  *)
(* wallets and computes the value every coin must have in every wallet     *)
(* once all of them have been executed.                                    *)
(*                                                                         *)
(* generate() walks a shuffled std::list in which every wallet appears     *)
(* TransfersPerWallet times, and erases the nodes it picks.  Here the      *)
(* nodes are numbered in list order, the list is the set of the nodes      *)
(* still in it, and an iterator is a node (End for list.end()).  One step  *)
(* is one iteration of one of the loops.                                   *)
(*                                                                         *)
(* The loops that skip wallets already picked are meant to stop when they  *)
(* are back at the node "started", but that node has been erased by the    *)
(* transfer's first pick (see StartedIsErased): the comparison uses an     *)
(* invalidated iterator, and DanglingCompare holds its possible outcomes.  *)
(* No list node is allocated while the loops run, so in a libstdc++        *)
(* release build no live node can have the erased node's address and       *)
(* DanglingCompare = {FALSE}.                                              *)
(***************************************************************************)
EXTENDS Integers, Sequences, FiniteSets, FiniteSetsExt

CONSTANTS NumWallets,           \* -w
          CoinsPerWallet,       \* -c
          TransfersPerWallet,   \* -t
          SendersPerTransfer,   \* -s
          ReceiversPerTransfer, \* -r
          CoinInitialValue,     \* -i
          TransferValue,        \* -v
          ValueModulus,         \* 2^32 in the code: coin_value_t is a uint32_t
          DanglingCompare       \* outcomes of comparing with an erased node

ASSUME SizesAssumption ==
  /\ NumWallets \in Nat
  /\ CoinsPerWallet \in Nat
  /\ TransfersPerWallet \in Nat
  /\ SendersPerTransfer \in Nat
  /\ ReceiversPerTransfer \in Nat
  /\ SendersPerTransfer + ReceiversPerTransfer > 0

ASSUME ValuesAssumption ==
  /\ ValueModulus \in Nat \ {0}
  /\ CoinInitialValue \in 0..(ValueModulus - 1)
  /\ TransferValue \in 0..(ValueModulus - 1)

ASSUME DanglingAssumption == DanglingCompare \subseteq BOOLEAN

Wallets == 0..(NumWallets - 1)
Coins   == 0..(NumWallets * CoinsPerWallet - 1)
Values  == 0..(ValueModulus - 1)
Nodes   == 1..(NumWallets * TransfersPerWallet)
End     == 0

(* Coin ids are dealt to the wallets in order: the field "wallets".        *)
CoinsOf(w) == {c \in Coins : w * CoinsPerWallet <= c /\ c < (w + 1) * CoinsPerWallet}

Minted == [a \in Wallets \X Coins |->
             IF a[2] \in CoinsOf(a[1]) THEN CoinInitialValue ELSE 0]

WalletsPerTransfer == SendersPerTransfer + ReceiversPerTransfer

(* A product of a uint32_t and a uint64_t, stored in a uint32_t.           *)
TransferValuePerWallet == (TransferValue * ReceiversPerTransfer) % ValueModulus

(* Definitions named ...Slip are the definition that follows them with a     *)
(* plausible mistake in it; the README says what they are for.              *)
ValueInSlip == TransferValuePerWallet

(* What each receiver gets from each sender; never used when there are no  *)
(* receivers.                                                              *)
ValueIn == IF ReceiversPerTransfer = 0 THEN 0
           ELSE TransferValuePerWallet \div ReceiversPerTransfer

VARIABLES
  pc,         \* where generate() is
  owner,      \* the shuffled list as built: node |-> wallet
  live,       \* wallet_list: the nodes not erased
  cursor,     \* next_wallet_it
  started,    \* started
  picked,     \* picked: wallets that already play a part in the transfer
  senders,    \* transfer.senders
  receivers,  \* transfer.receivers
  transfers,  \* the field "transfers"
  expected    \* expected_final_values; a missing entry is 0

vars == <<pc, owner, live, cursor, started, picked, senders, receivers,
          transfers, expected>>

Payments  == [wallet : Wallets, coin : Coins, value : Values]
Receipts  == [wallet : Wallets, coins : Seq([coin : Coins, value : Values])]
Transfers == [senders : Seq(Payments), receivers : Seq(Receipts)]

TypeOK ==
  /\ pc \in {"new", "next", "senders", "receivers", "done", "failed"}
  /\ owner \in [Nodes -> Wallets]
  /\ live \in SUBSET Nodes
  /\ cursor \in Nodes \cup {End}
  /\ started \in Nodes \cup {End}
  /\ picked \in SUBSET Wallets
  /\ senders \in Seq(Payments)
  /\ receivers \in Seq(Receipts)
  /\ transfers \in Seq(Transfers)
  /\ expected \in [Wallets \X Coins -> Values]

(***************************************************************************)
(* The list                                                                *)
(***************************************************************************)
(* Every wallet in the list TransfersPerWallet times, in any order; the    *)
(* order is fixed by random_seed, hence chosen in Init.                    *)
Shuffles == {o \in [Nodes -> Wallets] :
               \A w \in Wallets :
                 Cardinality({n \in Nodes : o[n] = w}) = TransfersPerWallet}

Begin(list) == IF list = {} THEN End ELSE Min(list)

CircularNextSlip(list, n) == LET after == {m \in list : m > n}
                             IN  IF after = {} THEN n ELSE Min(after)

(* The node after n, from the end back to the beginning; n may just have   *)
(* been erased from the list.                                              *)
CircularNext(list, n) == LET after == {m \in list : m > n}
                         IN  IF after = {} THEN Begin(list) ELSE Min(after)

IsStartedSlip(n) == {TRUE}

(* Possible outcomes of "next_wallet_it == started".                       *)
IsStarted(n) == IF started \in live THEN {n = started} ELSE DanglingCompare

PickingSender   == pc = "senders" /\ Len(senders) < SendersPerTransfer
PickingReceiver == pc = "receivers" /\ Len(receivers) < ReceiversPerTransfer
Picking         == PickingSender \/ PickingReceiver

(***************************************************************************)
(* The steps of generate()                                                 *)
(***************************************************************************)
Init ==
  /\ pc = "new"
  /\ owner \in Shuffles
  /\ live = {}
  /\ cursor = End
  /\ started = End
  /\ picked = {}
  /\ senders = <<>>
  /\ receivers = <<>>
  /\ transfers = <<>>
  /\ expected = [a \in Wallets \X Coins |-> 0]

(* Mint the coins, build and shuffle the list.                             *)
Prepare ==
  /\ pc = "new"
  /\ live' = Nodes
  /\ cursor' = Begin(Nodes)
  /\ expected' = Minted
  /\ pc' = "next"
  /\ UNCHANGED <<owner, started, picked, senders, receivers, transfers>>

StartTransfer ==
  /\ pc = "next"
  /\ Cardinality(live) >= WalletsPerTransfer
  /\ started' = cursor
  /\ picked' = {}
  /\ senders' = <<>>
  /\ receivers' = <<>>
  /\ pc' = "senders"
  /\ UNCHANGED <<owner, live, cursor, transfers, expected>>

(* One circular increment past a wallet that is already picked.            *)
SkipPicked ==
  /\ Picking
  /\ owner[cursor] \in picked
  /\ cursor' = CircularNext(live, cursor)
  /\ FALSE \in IsStarted(cursor')
  /\ UNCHANGED <<pc, owner, live, started, picked, senders, receivers,
                 transfers, expected>>

(* The increment came back to "started": while picking senders this ends   *)
(* the generation, while picking receivers it drops the transfer.          *)
GiveUp ==
  /\ Picking
  /\ owner[cursor] \in picked
  /\ cursor' = CircularNext(live, cursor)
  /\ TRUE \in IsStarted(cursor')
  /\ pc' = IF pc = "senders" THEN "done" ELSE "next"
  /\ UNCHANGED <<owner, live, started, picked, senders, receivers,
                 transfers, expected>>

EraseCursorSlip ==
  /\ live' = live
  /\ cursor' = CircularNext(live, cursor)

EraseTwiceSlip ==
  /\ live' = live \ {cursor, CircularNext(live, cursor)}
  /\ cursor' = CircularNext(live', cursor)

(* Erase the node under the cursor, which moves on to the next one.        *)
EraseCursor ==
  /\ live' = live \ {cursor}
  /\ cursor' = CircularNext(live \ {cursor}, cursor)

AffordableSlip(w) == CoinsOf(w)

AffordableWhenMintedSlip(w) == {c \in CoinsOf(w) : Minted[<<w, c>>] >= TransferValuePerWallet}

AffordableFirstCoinSlip(w) ==
  {c \in CoinsOf(w) : /\ c = w * CoinsPerWallet
                      /\ expected[<<w, c>>] >= TransferValuePerWallet}

Affordable(w) == {c \in CoinsOf(w) : expected[<<w, c>>] >= TransferValuePerWallet}

PickSender ==
  /\ PickingSender
  /\ owner[cursor] \notin picked
  /\ LET w == owner[cursor]
     IN  /\ picked' = picked \cup {w}
         /\ \E c \in Affordable(w) :
              /\ \A d \in Affordable(w) : c <= d
              /\ senders' = Append(senders, [wallet |-> w, coin |-> c,
                                             value |-> TransferValuePerWallet])
              /\ expected' = [expected EXCEPT ![<<w, c>>] = @ - TransferValuePerWallet]
  /\ EraseCursor
  /\ UNCHANGED <<pc, owner, started, receivers, transfers>>

(* No coin of the wallet is worth enough: generate() throws.               *)
NotEnoughFunds ==
  /\ PickingSender
  /\ owner[cursor] \notin picked
  /\ Affordable(owner[cursor]) = {}
  /\ picked' = picked \cup {owner[cursor]}
  /\ pc' = "failed"
  /\ UNCHANGED <<owner, live, cursor, started, senders, receivers, transfers,
                 expected>>

SendersPicked ==
  /\ pc = "senders"
  /\ Len(senders) >= SendersPerTransfer
  /\ pc' = "receivers"
  /\ UNCHANGED <<owner, live, cursor, started, picked, senders, receivers,
                 transfers, expected>>

(* What one receiver gets: its share of what every sender pays.            *)
Shares == [i \in DOMAIN senders |->
             [coin |-> senders[i].coin,
              value |-> senders[i].value \div ReceiversPerTransfer]]

CreditedSlip(w) == expected

(* The receiver w is credited with ValueIn for every sender's coin.        *)
Credited(w) ==
  [a \in Wallets \X Coins |->
     IF a[1] = w
     THEN (expected[a] + ValueIn * Cardinality({i \in DOMAIN senders : senders[i].coin = a[2]}))
            % ValueModulus
     ELSE expected[a]]

PickReceiverSlip ==
  /\ PickingReceiver
  /\ picked' = picked \cup {owner[cursor]}
  /\ receivers' = Append(receivers, [wallet |-> owner[cursor], coins |-> Shares])
  /\ expected' = Credited(owner[cursor])
  /\ EraseCursor
  /\ UNCHANGED <<pc, owner, started, senders, transfers>>

PickReceiver ==
  /\ PickingReceiver
  /\ owner[cursor] \notin picked
  /\ picked' = picked \cup {owner[cursor]}
  /\ receivers' = Append(receivers, [wallet |-> owner[cursor], coins |-> Shares])
  /\ expected' = Credited(owner[cursor])
  /\ EraseCursor
  /\ UNCHANGED <<pc, owner, started, senders, transfers>>

PushTransferSlip ==
  /\ pc = "receivers"
  /\ Len(receivers) >= ReceiversPerTransfer
  /\ pc' = "next"
  /\ UNCHANGED <<owner, live, cursor, started, picked, senders, receivers, transfers, expected>>

PushTransfer ==
  /\ pc = "receivers"
  /\ Len(receivers) >= ReceiversPerTransfer
  /\ transfers' = Append(transfers, [senders |-> senders, receivers |-> receivers])
  /\ pc' = "next"
  /\ UNCHANGED <<owner, live, cursor, started, picked, senders, receivers, expected>>

(* Too few wallets left for a transfer: generated = true.                  *)
Finish ==
  /\ pc = "next"
  /\ Cardinality(live) < WalletsPerTransfer
  /\ pc' = "done"
  /\ UNCHANGED <<owner, live, cursor, started, picked, senders, receivers,
                 transfers, expected>>

(* generate() has returned or thrown; when it returned, generating again   *)
(* returns at once.                                                        *)
Returned ==
  /\ pc \in {"done", "failed"}
  /\ UNCHANGED vars

Next ==
  \/ Prepare \/ StartTransfer \/ SkipPicked \/ GiveUp \/ PickSender
  \/ NotEnoughFunds \/ SendersPicked \/ PickReceiver \/ PushTransfer
  \/ Finish \/ Returned

Spec == Init /\ [][Next]_vars

(* One thread runs generate(): it takes its next step eventually.          *)
FairSpec == Spec /\ WF_vars(Next)

(***************************************************************************)
(* The list and its iterators                                              *)
(***************************************************************************)
(* Every iterator the loops dereference points into the list: a transfer   *)
(* is only started when the list has a node for each of its wallets, and   *)
(* the wrap to begin() after an erase never meets an empty list while      *)
(* wallets are still to be picked.                                         *)
CursorLive == Picking => cursor \in live

(* Whenever next_wallet_it is compared with "started", the node it points  *)
(* to is already gone: the test that should end the search never compares  *)
(* two valid iterators.                                                    *)
StartedIsErased == Picking /\ picked # {} => started \notin live

(* All the wallets left in the list already play a part in the transfer:   *)
(* the search for the next wallet cannot find one.                         *)
Stuck == Picking /\ \A n \in live : owner[n] \in picked

(***************************************************************************)
(* The transfers                                                           *)
(***************************************************************************)
Spenders(t)   == {t.senders[i].wallet : i \in DOMAIN t.senders}
Recipients(t) == {t.receivers[i].wallet : i \in DOMAIN t.receivers}
SpentCoins(t) == {t.senders[i].coin : i \in DOMAIN t.senders}

(* A transfer has the number of senders and receivers asked for, all of    *)
(* them different wallets, every sender pays with a coin minted to it, no  *)
(* two with the same coin, and every receiver gets a share of each coin.   *)
WellFormed(t) ==
  /\ Cardinality(Spenders(t)) = SendersPerTransfer
  /\ Cardinality(Recipients(t)) = ReceiversPerTransfer
  /\ Spenders(t) \cap Recipients(t) = {}
  /\ Cardinality(SpentCoins(t)) = SendersPerTransfer
  /\ \A i \in DOMAIN t.senders : t.senders[i].coin \in CoinsOf(t.senders[i].wallet)
  /\ \A i \in DOMAIN t.receivers :
       {t.receivers[i].coins[j].coin : j \in DOMAIN t.receivers[i].coins} = SpentCoins(t)

(* Every transfer generated can be executed as a transaction over distinct *)
(* wallets and coins.                                                      *)
TransfersWellFormed == \A k \in DOMAIN transfers : WellFormed(transfers[k])

(* The transfer being built, and the transfers with it.                    *)
InFlight == pc \in {"senders", "receivers", "failed"}
Current  == [senders |-> senders, receivers |-> receivers]
AllParts == IF InFlight THEN Append(transfers, Current) ELSE transfers

Appearances(ts, w) == Cardinality({k \in DOMAIN ts : w \in Spenders(ts[k]) \cup Recipients(ts[k])})

(* A node erased from the list is a part played by its wallet in some      *)
(* transfer: picking loses no appearance and invents none.                 *)
AppearancesAccounted ==
  pc # "new" =>
    \A w \in Wallets :
      Appearances(AllParts, w) + Cardinality({n \in live : owner[n] = w}) = TransfersPerWallet

(***************************************************************************)
(* Money                                                                   *)
(***************************************************************************)
(* What a transfer takes from and gives to the account <<w, c>>, and what  *)
(* all the transfers ts do.                                                *)
PaidIn(t, w, c) ==
  SumFunction([i \in DOMAIN t.senders |->
                 IF t.senders[i].wallet = w /\ t.senders[i].coin = c THEN t.senders[i].value ELSE 0])
ShareOf(coins, c) ==
  SumFunction([j \in DOMAIN coins |-> IF coins[j].coin = c THEN coins[j].value ELSE 0])
ReceivedIn(t, w, c) ==
  SumFunction([i \in DOMAIN t.receivers |->
                 IF t.receivers[i].wallet = w THEN ShareOf(t.receivers[i].coins, c) ELSE 0])
Paid(ts, w, c) == SumFunction([k \in DOMAIN ts |-> PaidIn(ts[k], w, c)])
Got(ts, w, c)  == SumFunction([k \in DOMAIN ts |-> ReceivedIn(ts[k], w, c)])

(* What a coin is worth, over all the wallets that hold a part of it.      *)
Worth(c) == SumFunction([w \in Wallets |-> expected[<<w, c>>]])

(* The expected values are what executing the listed transfers on the      *)
(* minted coins gives: this is what a benchmark verifies its run with.     *)
ExpectedMatchesTransfers ==
  pc # "new" =>
    \A w \in Wallets, c \in Coins :
      expected[<<w, c>>] = Minted[<<w, c>>] - Paid(AllParts, w, c) + Got(AllParts, w, c)

(* No coin is ever worth more than what was minted, whatever the           *)
(* comparisons with "started" give and whatever wraps around.              *)
NoMoneyCreated == \A c \in Coins : Worth(c) <= CoinInitialValue

(* When the product -v * -r fits its 32 bits and is shared without a rest, *)
(* a finished generation has not lost any money either.                    *)
NoMoneyLost ==
  pc \in {"next", "done"} => \A c \in Coins : Worth(c) = CoinInitialValue

(* A benchmark may run the transfers concurrently: whatever order they     *)
(* execute in, every sender's coin covers what is taken from it, because   *)
(* what was minted covers all of it.                                       *)
FundedInAnyOrder ==
  \A w \in Wallets, c \in Coins : Paid(AllParts, w, c) <= Minted[<<w, c>>]

(* With enough coins for a wallet to be a sender every time it appears,    *)
(* generate() never throws.                                                *)
EnoughFunds ==
  CoinsPerWallet * (CoinInitialValue \div TransferValuePerWallet) >= TransfersPerWallet
NeverShortOfFunds == EnoughFunds => pc # "failed"

(* -v is the "amount transfered to each receiver".                         *)
ReceiverGetsTransferValue ==
  \A k \in DOMAIN transfers :
    \A w \in Recipients(transfers[k]) :
      SumFunction([c \in Coins |-> ReceivedIn(transfers[k], w, c)]) = TransferValue

(***************************************************************************)
(* Progress                                                                *)
(***************************************************************************)
(* Once every wallet left is picked, generate() loops forever.             *)
StuckForever == [][Stuck => Stuck']_vars

(* That is the only way for a transfer not to be completed: one started    *)
(* with enough different wallets in the list is pushed, or the funds do    *)
(* not suffice.                                                            *)
DifferentWallets == Cardinality({owner[n] : n \in live})
TransferCompletes ==
  (pc = "senders" /\ picked = {} /\ DifferentWallets >= WalletsPerTransfer)
    ~> pc \in {"next", "failed"}

(* generate() ends.                                                        *)
Terminates == <>(pc \in {"done", "failed"})

(***************************************************************************)
(* Refinement: generate() executes whole transfers on a ledger.  A         *)
(* transfer takes effect on the ledger when it is pushed; until then what  *)
(* it took and gave is taken back from the expected values.                *)
(***************************************************************************)
Settled ==
  [a \in Wallets \X Coins |->
     IF pc = "new" THEN Minted[a]
     ELSE IF ~InFlight THEN expected[a]
     ELSE expected[a] + Paid(<<Current>>, a[1], a[2]) - Got(<<Current>>, a[1], a[2])]

LedgerTransfer(t) ==
  [from |-> {<<t.senders[i].wallet, t.senders[i].coin>> : i \in DOMAIN t.senders},
   to   |-> Recipients(t)]

Ledger == INSTANCE CBDCLedger WITH
  Senders   <- SendersPerTransfer,
  Receivers <- ReceiversPerTransfer,
  Debit     <- TransferValuePerWallet,
  Credit    <- ValueIn,
  balance   <- Settled,
  executed  <- [k \in DOMAIN transfers |-> LedgerTransfer(transfers[k])]

(* Every step of generate() leaves the ledger as it is or executes one     *)
(* whole, funded transfer over distinct wallets, the one it appends to the *)
(* workload.                                                               *)
ImplementsLedger == Ledger!Spec
=============================================================================
