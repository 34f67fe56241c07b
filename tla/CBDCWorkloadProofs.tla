------------------------- MODULE CBDCWorkloadProofs -------------------------
(***************************************************************************)
(* What holds of generate() for every number of wallets, coins, senders    *)
(* and receivers and every width of the coin values.                       *)
(***************************************************************************)
EXTENDS CBDCWorkload, FiniteSetTheorems, WellFoundedInduction, TLAPS

(***************************************************************************)
(* The list                                                                *)
(***************************************************************************)
(* A non-empty set of naturals has a least element, and Min returns it:    *)
(* among the finite sets "the elements up to n", one has no other inside.  *)
LEMMA MinInSet ==
  ASSUME NEW L \in SUBSET Nat, L # {}
  PROVE  Min(L) \in L
<1> DEFINE Upto(n) == {m \in L : m <= n}
           Segments == {Upto(n) : n \in L}
<1>0. \A m \in L : m \in Nat
  OBVIOUS
<1>1. ASSUME NEW n \in L
      PROVE  Upto(n) \in FiniteSubsetsOf(Nat)
  <2>1. IsFiniteSet(0..n)
    BY FS_Interval
  <2>2. ASSUME NEW m \in L, m <= n PROVE m \in 0..n
    BY <1>0, <2>2
  <2>3. Upto(n) \subseteq 0..n
    BY <2>2
  <2>4. IsFiniteSet(Upto(n))
    BY <2>1, <2>3, FS_Subset
  <2> QED
    BY <2>4 DEF FiniteSubsetsOf
<1>2. Segments \subseteq FiniteSubsetsOf(Nat) /\ Segments # {}
  BY <1>1
<1> HIDE DEF Segments
<1>3. PICK X \in Segments : \A Y \in Segments : <<Y, X>> \notin StrictSubsetOrdering(Nat)
  BY <1>2, FS_StrictSubsetOrderingWellFounded, WFMin
<1> USE DEF Segments
<1>4. PICK n \in L : X = Upto(n)
  BY <1>3
<1>5. ASSUME NEW k \in L
      PROVE  n <= k
  <2> SUFFICES ASSUME k < n PROVE FALSE
    OBVIOUS
  <2>1. n \in Nat /\ k \in Nat
    BY <1>0
  <2>2. n \in Upto(n) /\ n \notin Upto(k)
    BY <2>1
  <2>3. ASSUME NEW m \in L, m <= k PROVE m <= n
    BY <1>0, <2>1, <2>3
  <2>4. Upto(k) \subseteq Upto(n)
    BY <2>3
  <2>5. Upto(k) \subseteq Nat /\ Upto(n) \subseteq Nat
    OBVIOUS
  <2>6. Upto(k) \in Segments
    OBVIOUS
  <2> HIDE DEF Upto, Segments
  <2>7. <<Upto(k), Upto(n)>> \in StrictSubsetOrdering(Nat)
    BY <2>2, <2>4, <2>5 DEF StrictSubsetOrdering
  <2> QED
    BY <1>3, <1>4, <2>6, <2>7
<1> QED
  BY <1>5 DEF Min

(* The node after any position is a node of the list, unless it is empty.  *)
LEMMA CircularNextInList ==
  ASSUME NEW list \in SUBSET Nat, NEW n
  PROVE  IF list = {} THEN CircularNext(list, n) = End ELSE CircularNext(list, n) \in list
<1> DEFINE after == {m \in list : m > n}
<1>1. CASE after = {}
  BY <1>1, MinInSet DEF CircularNext, Begin
<1>2. CASE after # {}
  <2>1. after \in SUBSET Nat
    OBVIOUS
  <2>2. Min(after) \in after
    BY <1>2, <2>1, MinInSet
  <2> QED
    BY <1>2, <2>2 DEF CircularNext
<1> QED
  BY <1>1, <1>2

(* begin() of a list that is not empty is a node of it.                    *)
LEMMA BeginInList ==
  ASSUME NEW list \in SUBSET Nat
  PROVE  IF list = {} THEN Begin(list) = End ELSE Begin(list) \in list
BY MinInSet DEF Begin

(* The list is finite, and erasing one of its nodes makes it one shorter.  *)
LEMMA Sizes ==
  ASSUME NEW L \in SUBSET Nodes
  PROVE  /\ Nodes \in SUBSET Nat
         /\ IsFiniteSet(L)
         /\ Cardinality(L) \in Nat
         /\ Cardinality(L) > 0 => L # {}
         /\ \A n \in L : Cardinality(L \ {n}) = Cardinality(L) - 1
<1>1. IsFiniteSet(Nodes) /\ Nodes \in SUBSET Nat
  BY SizesAssumption, FS_Interval DEF Nodes
<1>2. IsFiniteSet(L) /\ Cardinality(L) \in Nat
  BY <1>1, FS_Subset, FS_CardinalityType
<1>3. Cardinality(L) > 0 => L # {}
  BY FS_EmptySet
<1>4. \A n \in L : Cardinality(L \ {n}) = Cardinality(L) - 1
  BY <1>2, FS_RemoveElement
<1> QED
  BY <1>1, <1>2, <1>3, <1>4

(***************************************************************************)
(* Coin values                                                             *)
(***************************************************************************)
LEMMA ModInValues ==
  ASSUME NEW v \in Nat
  PROVE  v % ValueModulus \in Values
BY ValuesAssumption DEF Values

(* A share of a value fits what the value fits.                            *)
LEMMA DivInValues ==
  ASSUME NEW v \in Values, NEW r \in Nat \ {0}
  PROVE  v \div r \in Values
BY ValuesAssumption DEF Values

(* What is paid, shared and minted fits a coin value.                      *)
LEMMA AmountTypes ==
  /\ TransferValuePerWallet \in Values
  /\ ValueIn \in Values
  /\ Minted \in [Wallets \X Coins -> Values]
<1>1. TransferValue * ReceiversPerTransfer \in Nat
  BY SizesAssumption, ValuesAssumption
<1>2. TransferValuePerWallet \in Values
  BY <1>1, ModInValues DEF TransferValuePerWallet
<1>3. 0 \in Values /\ CoinInitialValue \in Values
  BY ValuesAssumption DEF Values
<1>4. ValueIn \in Values
  BY <1>2, <1>3, DivInValues, SizesAssumption DEF ValueIn
<1>5. Minted \in [Wallets \X Coins -> Values]
  BY <1>3 DEF Minted
<1> QED
  BY <1>2, <1>4, <1>5

(***************************************************************************)
(* The inductive invariant                                                 *)
(***************************************************************************)
(* The cursor is on a node of the list unless the list is empty, and the   *)
(* list has a node for every wallet the transfer still needs.              *)
ListInv ==
  /\ pc \in {"next", "senders", "receivers"} =>
       IF live = {} THEN cursor = End ELSE cursor \in live
  /\ pc = "senders" =>
       /\ Len(senders) <= SendersPerTransfer
       /\ Len(receivers) = 0
       /\ Cardinality(live) >= (SendersPerTransfer - Len(senders)) + ReceiversPerTransfer
  /\ pc = "receivers" =>
       /\ Len(receivers) <= ReceiversPerTransfer
       /\ Cardinality(live) >= ReceiversPerTransfer - Len(receivers)

(* "started" is the cursor's node until the first wallet is picked, and is *)
(* never in the list after that.                                           *)
StartInv ==
  pc \in {"senders", "receivers"} =>
    IF picked = {} THEN cursor = started ELSE started \notin live

IInv == TypeOK /\ ListInv /\ StartInv

(* A list that is long enough has a node under the cursor.                 *)
LEMMA IInvImpliesCursorLive == IInv => CursorLive
<1> SUFFICES ASSUME IInv, Picking PROVE cursor \in live
  BY DEF CursorLive
<1>1. live \in SUBSET Nodes /\ Len(senders) \in Nat /\ Len(receivers) \in Nat
  BY DEF IInv, TypeOK
<1>2. Cardinality(live) > 0
  BY <1>1, Sizes, SizesAssumption DEF IInv, ListInv, Picking, PickingSender, PickingReceiver
<1> QED
  BY <1>1, <1>2, Sizes DEF IInv, ListInv, Picking, PickingSender, PickingReceiver

(* What is known of "started" after the first pick.                        *)
LEMMA IInvImpliesStartedIsErased == IInv => StartedIsErased
BY DEF IInv, StartInv, StartedIsErased, Picking, PickingSender, PickingReceiver

(* The invariant holds in the initial states.                              *)
LEMMA InitIInv == Init => IInv
<1> SUFFICES ASSUME Init PROVE IInv
  OBVIOUS
<1>1. 0 \in Values
  BY ValuesAssumption DEF Values
<1>2. TypeOK
  BY <1>1 DEF Init, TypeOK, Shuffles
<1> QED
  BY <1>2 DEF Init, IInv, ListInv, StartInv

(* What erasing the picked node does to the list and its iterators.        *)
LEMMA EraseKeepsList ==
  ASSUME IInv, Picking, EraseCursor
  PROVE  /\ live' \in SUBSET Nodes
         /\ cursor' \in Nodes \cup {End}
         /\ Cardinality(live') = Cardinality(live) - 1
         /\ IF live' = {} THEN cursor' = End ELSE cursor' \in live'
         /\ started \notin live'
<1>1. live \in SUBSET Nodes /\ cursor \in live
  BY IInvImpliesCursorLive DEF IInv, TypeOK, CursorLive
<1>2. live \ {cursor} \in SUBSET Nat
  BY <1>1, Sizes
<1>3. IF live' = {} THEN cursor' = End ELSE cursor' \in live'
  BY <1>2, CircularNextInList DEF EraseCursor
<1>4. started \notin live'
  BY <1>1 DEF EraseCursor, IInv, StartInv, Picking, PickingSender, PickingReceiver
<1> QED
  BY <1>1, <1>3, <1>4, Sizes DEF EraseCursor

(* Skipping a picked wallet moves the cursor to another node of the list.  *)
LEMMA SkipKeepsCursor ==
  ASSUME IInv, Picking, cursor' = CircularNext(live, cursor)
  PROVE  cursor' \in live
<1>1. live \in SUBSET Nat /\ live # {}
  BY IInvImpliesCursorLive, Sizes DEF IInv, TypeOK, CursorLive
<1> QED
  BY <1>1, CircularNextInList

(* The list that is built is as long as the guard of the loop needs.       *)
LEMMA PrepareIInv == IInv /\ Prepare => IInv'
<1> SUFFICES ASSUME IInv, Prepare PROVE IInv'
  OBVIOUS
<1>1. IF Nodes = {} THEN cursor' = End ELSE cursor' \in Nodes
  BY BeginInList, Sizes DEF Prepare
<1>2. TypeOK'
  BY <1>1, AmountTypes DEF IInv, TypeOK, Prepare
<1> QED
  BY <1>1, <1>2 DEF IInv, ListInv, StartInv, Prepare

(* The guard of the loop leaves enough nodes for a whole transfer.         *)
LEMMA StartTransferIInv == IInv /\ StartTransfer => IInv'
<1> SUFFICES ASSUME IInv, StartTransfer PROVE IInv'
  OBVIOUS
<1>1. TypeOK'
  BY DEF IInv, TypeOK, StartTransfer
<1>2. ListInv'
  BY SizesAssumption DEF IInv, ListInv, StartTransfer, WalletsPerTransfer
<1> QED
  BY <1>1, <1>2 DEF IInv, StartInv, StartTransfer

(* A skipped node stays in the list.                                       *)
LEMMA SkipPickedIInv == IInv /\ SkipPicked => IInv'
<1> SUFFICES ASSUME IInv, SkipPicked PROVE IInv'
  OBVIOUS
<1>1. cursor' \in live /\ live \in SUBSET Nodes
  BY SkipKeepsCursor DEF SkipPicked, IInv, TypeOK
<1>2. TypeOK'
  BY <1>1 DEF IInv, TypeOK, SkipPicked
<1>3. picked # {}
  BY DEF SkipPicked
<1> QED
  BY <1>1, <1>2, <1>3 DEF IInv, ListInv, StartInv, SkipPicked

(* A search that is given up leaves the list as it was.                    *)
LEMMA GiveUpIInv == IInv /\ GiveUp => IInv'
<1> SUFFICES ASSUME IInv, GiveUp PROVE IInv'
  OBVIOUS
<1>1. cursor' \in live /\ live \in SUBSET Nodes
  BY SkipKeepsCursor DEF GiveUp, IInv, TypeOK
<1>2. TypeOK'
  BY <1>1 DEF IInv, TypeOK, GiveUp
<1> QED
  BY <1>1, <1>2 DEF IInv, ListInv, StartInv, GiveUp

(* A sender's node is erased, and one pick less is left to do.             *)
LEMMA PickSenderIInv == IInv /\ PickSender => IInv'
<1> SUFFICES ASSUME IInv, PickSender PROVE IInv'
  OBVIOUS
<1> DEFINE w == owner[cursor]
<1>1. Picking /\ EraseCursor /\ pc = "senders" /\ Len(senders) < SendersPerTransfer
  BY DEF PickSender, Picking, PickingSender
<1>2. cursor \in Nodes /\ w \in Wallets
  BY <1>1, IInvImpliesCursorLive DEF IInv, TypeOK, CursorLive
<1>3. PICK c \in Affordable(w) :
        /\ senders' = Append(senders, [wallet |-> w, coin |-> c,
                                       value |-> TransferValuePerWallet])
        /\ expected' = [expected EXCEPT ![<<w, c>>] = @ - TransferValuePerWallet]
  BY DEF PickSender
<1>4. c \in Coins /\ expected[<<w, c>>] >= TransferValuePerWallet
  BY DEF Affordable, CoinsOf
<1>5. senders' \in Seq(Payments) /\ Len(senders') = Len(senders) + 1
  BY <1>2, <1>3, <1>4, AmountTypes DEF IInv, TypeOK, Payments
<1>6. expected[<<w, c>>] - TransferValuePerWallet \in Values
  <2>1. expected[<<w, c>>] \in Values
    BY <1>2, <1>4 DEF IInv, TypeOK
  <2> QED
    BY <1>4, <2>1, AmountTypes, ValuesAssumption DEF Values
<1>7. expected' \in [Wallets \X Coins -> Values]
  BY <1>2, <1>3, <1>4, <1>6 DEF IInv, TypeOK
<1>8. TypeOK'
  BY <1>1, <1>2, <1>5, <1>7, EraseKeepsList DEF IInv, TypeOK, PickSender
<1>9. ListInv'
  <2>1. Len(senders) \in Nat /\ live \in SUBSET Nodes
    BY DEF IInv, TypeOK
  <2>2. Cardinality(live) \in Nat
    BY <2>1, Sizes
  <2> QED
    BY <1>1, <1>5, <2>1, <2>2, EraseKeepsList, SizesAssumption DEF IInv, ListInv, PickSender
<1>10. StartInv'
  BY <1>1, EraseKeepsList DEF StartInv, PickSender
<1> QED
  BY <1>8, <1>9, <1>10 DEF IInv

(* A throw leaves the list as it was.                                      *)
LEMMA NotEnoughFundsIInv == IInv /\ NotEnoughFunds => IInv'
<1> SUFFICES ASSUME IInv, NotEnoughFunds PROVE IInv'
  OBVIOUS
<1>1. owner[cursor] \in Wallets
  BY IInvImpliesCursorLive DEF IInv, TypeOK, CursorLive, NotEnoughFunds, Picking
<1>2. TypeOK'
  BY <1>1 DEF IInv, TypeOK, NotEnoughFunds
<1> QED
  BY <1>2 DEF IInv, ListInv, StartInv, NotEnoughFunds

(* From the senders to the receivers.                                      *)
LEMMA SendersPickedIInv == IInv /\ SendersPicked => IInv'
<1> SUFFICES ASSUME IInv, SendersPicked PROVE IInv'
  OBVIOUS
<1>1. TypeOK'
  BY DEF IInv, TypeOK, SendersPicked
<1>2. ListInv'
  <2>1. Len(senders) \in Nat /\ live \in SUBSET Nodes
    BY DEF IInv, TypeOK
  <2>2. Cardinality(live) \in Nat
    BY <2>1, Sizes
  <2> QED
    BY <2>1, <2>2, SizesAssumption DEF IInv, ListInv, SendersPicked
<1> QED
  BY <1>1, <1>2 DEF IInv, StartInv, SendersPicked

(* The shares of a receiver are coins with their values.                   *)
LEMMA SharesType ==
  ASSUME IInv, PickingReceiver
  PROVE  Shares \in Seq([coin : Coins, value : Values])
<1>1. ReceiversPerTransfer \in Nat \ {0}
  BY SizesAssumption DEF IInv, TypeOK, PickingReceiver
<1>2. senders \in Seq(Payments)
  BY DEF IInv, TypeOK
<1>3. \A i \in DOMAIN senders : senders[i] \in Payments
  BY <1>2
<1>4. \A i \in DOMAIN senders :
        [coin |-> senders[i].coin, value |-> senders[i].value \div ReceiversPerTransfer]
          \in [coin : Coins, value : Values]
  BY <1>1, <1>3, DivInValues DEF Payments
<1>5. DOMAIN senders = 1..Len(senders) /\ Len(senders) \in Nat
  BY <1>2
<1> QED
  BY <1>4, <1>5 DEF Shares

(* A credit leaves every account with a coin value.                        *)
LEMMA CreditedType ==
  ASSUME IInv, NEW w
  PROVE  Credited(w) \in [Wallets \X Coins -> Values]
<1> DEFINE paidWith(c) == {i \in DOMAIN senders : senders[i].coin = c}
<1>1. ASSUME NEW a \in Wallets \X Coins
      PROVE  (expected[a] + ValueIn * Cardinality(paidWith(a[2]))) % ValueModulus \in Values
  <2>1. IsFiniteSet(DOMAIN senders)
    <3>1. DOMAIN senders = 1..Len(senders) /\ Len(senders) \in Nat
      BY DEF IInv, TypeOK
    <3> QED
      BY <3>1, FS_Interval
  <2>2. paidWith(a[2]) \subseteq DOMAIN senders
    OBVIOUS
  <2> HIDE DEF paidWith
  <2>3. Cardinality(paidWith(a[2])) \in Nat
    BY <2>1, <2>2, FS_Subset, FS_CardinalityType
  <2>4. expected[a] \in Nat /\ ValueIn \in Nat
    BY AmountTypes DEF IInv, TypeOK, Values
  <2>5. expected[a] + ValueIn * Cardinality(paidWith(a[2])) \in Nat
    BY <2>3, <2>4
  <2> QED
    BY <2>5, ModInValues
<1>2. \A a \in Wallets \X Coins : expected[a] \in Values
  BY DEF IInv, TypeOK
<1> QED
  BY <1>1, <1>2 DEF Credited

(* A receiver's node is erased, and one pick less is left to do.           *)
LEMMA PickReceiverIInv == IInv /\ PickReceiver => IInv'
<1> SUFFICES ASSUME IInv, PickReceiver PROVE IInv'
  OBVIOUS
<1> DEFINE w == owner[cursor]
<1>1. Picking /\ PickingReceiver /\ EraseCursor /\ pc = "receivers"
  BY DEF PickReceiver, Picking, PickingReceiver
<1>2. cursor \in Nodes /\ w \in Wallets
  BY <1>1, IInvImpliesCursorLive DEF IInv, TypeOK, CursorLive
<1>3. receivers' \in Seq(Receipts) /\ Len(receivers') = Len(receivers) + 1
  BY <1>1, <1>2, SharesType DEF IInv, TypeOK, Receipts, PickReceiver
<1>4. expected' \in [Wallets \X Coins -> Values]
  BY CreditedType DEF PickReceiver
<1>5. TypeOK'
  BY <1>1, <1>2, <1>3, <1>4, EraseKeepsList DEF IInv, TypeOK, PickReceiver
<1>6. ListInv'
  <2>1. Len(receivers) \in Nat /\ live \in SUBSET Nodes
    BY DEF IInv, TypeOK
  <2>2. Cardinality(live) \in Nat /\ Len(receivers) < ReceiversPerTransfer
    BY <1>1, <2>1, Sizes DEF PickingReceiver
  <2> QED
    BY <1>1, <1>3, <2>1, <2>2, EraseKeepsList, SizesAssumption DEF IInv, ListInv, PickReceiver
<1>7. StartInv'
  BY <1>1, EraseKeepsList DEF StartInv, PickReceiver
<1> QED
  BY <1>5, <1>6, <1>7 DEF IInv

(* The list is not touched when the transfer is pushed.                    *)
LEMMA PushTransferIInv == IInv /\ PushTransfer => IInv'
<1> SUFFICES ASSUME IInv, PushTransfer PROVE IInv'
  OBVIOUS
<1>1. TypeOK'
  BY DEF IInv, TypeOK, PushTransfer, Transfers
<1> QED
  BY <1>1 DEF IInv, ListInv, StartInv, PushTransfer

(* The loop ends with whatever is left in the list.                        *)
LEMMA FinishIInv == IInv /\ Finish => IInv'
BY DEF IInv, TypeOK, ListInv, StartInv, Finish

(* Every step of generate() keeps the invariant.                           *)
LEMMA NextIInv == IInv /\ [Next]_vars => IInv'
<1> SUFFICES ASSUME IInv, [Next]_vars PROVE IInv'
  OBVIOUS
<1>1. CASE UNCHANGED vars
  BY <1>1 DEF vars, IInv, TypeOK, ListInv, StartInv
<1>2. CASE Returned
  BY <1>1, <1>2 DEF Returned
<1> QED
  BY <1>1, <1>2, PrepareIInv, StartTransferIInv, SkipPickedIInv, GiveUpIInv,
     PickSenderIInv, NotEnoughFundsIInv, SendersPickedIInv, PickReceiverIInv,
     PushTransferIInv, FinishIInv DEF Next

(* The invariant holds in every state of generate().                       *)
LEMMA InvariantHolds == Spec => []IInv
BY InitIInv, NextIInv, PTL DEF Spec

(***************************************************************************)
(* The theorems                                                            *)
(***************************************************************************)
(* Every variable keeps its type; in particular no coin value underflows   *)
(* when a sender pays.                                                     *)
THEOREM TypeCorrect == Spec => []TypeOK
<1>1. IInv => TypeOK
  BY DEF IInv
<1> QED
  BY <1>1, InvariantHolds, PTL

(* generate() never dereferences an iterator to an erased node or to       *)
(* end(): lines 61, 74, 115 and 128.                                       *)
THEOREM CursorAlwaysLive == Spec => []CursorLive
BY InvariantHolds, IInvImpliesCursorLive, PTL

(* Whenever the cursor is compared with "started" (lines 69 and 123), the  *)
(* latter is an iterator to an erased node.                                *)
THEOREM StartedAlwaysErased == Spec => []StartedIsErased
BY InvariantHolds, IInvImpliesStartedIsErased, PTL

(* In a build where no live node can have the erased node's address, a     *)
(* search without a candidate never ends: the only step left is to skip    *)
(* one more picked wallet (lines 62-75 and 116-129).                       *)
THEOREM StuckIsForever ==
  ASSUME DanglingCompare = {FALSE}
  PROVE  Spec => StuckForever
<1>1. ASSUME IInv, Stuck, [Next]_vars
      PROVE  Stuck'
  <2>1. Picking /\ cursor \in live
    BY <1>1, IInvImpliesCursorLive DEF Stuck, CursorLive
  <2>2. owner[cursor] \in picked /\ picked # {}
    BY <1>1, <2>1 DEF Stuck
  <2>3. started \notin live
    BY <1>1, <2>1, <2>2, IInvImpliesStartedIsErased DEF StartedIsErased
  <2>4. ~GiveUp
    BY <1>1, <2>3 DEF GiveUp, IsStarted
  <2>5. SkipPicked \/ UNCHANGED vars
    <3>1. ~Prepare /\ ~StartTransfer /\ ~Finish /\ ~Returned
      BY <2>1 DEF Picking, PickingSender, PickingReceiver, Prepare, StartTransfer, Finish, Returned
    <3>2. ~SendersPicked /\ ~PushTransfer
      <4>1. Len(senders) \in Nat /\ Len(receivers) \in Nat
        BY <1>1 DEF IInv, TypeOK
      <4> QED
        BY <2>1, <4>1, SizesAssumption
           DEF Picking, PickingSender, PickingReceiver, SendersPicked, PushTransfer
    <3>3. ~PickSender /\ ~NotEnoughFunds /\ ~PickReceiver
      BY <2>2 DEF PickSender, NotEnoughFunds, PickReceiver
    <3> QED
      BY <1>1, <2>4, <3>1, <3>2, <3>3 DEF Next
  <2> QED
    BY <1>1, <2>5 DEF Stuck, SkipPicked, Picking, PickingSender, PickingReceiver, vars
<1>2. IInv /\ [Next]_vars => [Stuck => Stuck']_vars
  BY <1>1
<1> QED
  BY <1>2, InvariantHolds, PTL DEF Spec, StuckForever

(***************************************************************************)
(* Every transfer is well formed                                           *)
(***************************************************************************)
(* The transfer being built satisfies WellFormed for the parts it has, and *)
(* picked holds exactly the wallets that play a part in it.                *)
PartsInv ==
  /\ \A k \in DOMAIN transfers : WellFormed(transfers[k])
  /\ pc \in {"senders", "receivers"} =>
       /\ picked = Spenders(Current) \cup Recipients(Current)
       /\ Spenders(Current) \cap Recipients(Current) = {}
       /\ Cardinality(Spenders(Current)) = Len(senders)
       /\ Cardinality(SpentCoins(Current)) = Len(senders)
       /\ Cardinality(Recipients(Current)) = Len(receivers)
       /\ \A i \in DOMAIN senders : senders[i].coin \in CoinsOf(senders[i].wallet)
       /\ \A i \in DOMAIN receivers :
            {receivers[i].coins[j].coin : j \in DOMAIN receivers[i].coins} = SpentCoins(Current)
  /\ pc = "receivers" => Len(senders) = SendersPerTransfer

(* A coin is minted to one wallet.                                         *)
LEMMA CoinsDisjoint ==
  ASSUME NEW v \in Wallets, NEW w \in Wallets, NEW c \in CoinsOf(v), c \in CoinsOf(w)
  PROVE  v = w
<1>1. ASSUME NEW x \in Nat, NEW y \in Nat, x < y
      PROVE  (x + 1) * CoinsPerWallet <= y * CoinsPerWallet
  <2>1. PICK d \in Nat : y = x + 1 + d
    <3>1. y - (x + 1) \in Nat /\ y = x + 1 + (y - (x + 1))
      BY <1>1
    <3> QED
      BY <3>1
  <2>2. y * CoinsPerWallet = (x + 1) * CoinsPerWallet + d * CoinsPerWallet
    BY <2>1, SizesAssumption
  <2>3. d * CoinsPerWallet \in Nat /\ (x + 1) * CoinsPerWallet \in Nat
    BY <2>1, SizesAssumption
  <2> QED
    BY <2>2, <2>3
<1>2. v \in Nat /\ w \in Nat /\ c \in Int
  BY SizesAssumption DEF Wallets, CoinsOf, Coins
<1>3. /\ v * CoinsPerWallet <= c /\ c < (v + 1) * CoinsPerWallet
      /\ w * CoinsPerWallet <= c /\ c < (w + 1) * CoinsPerWallet
  BY DEF CoinsOf
<1>4. /\ v * CoinsPerWallet \in Int /\ (v + 1) * CoinsPerWallet \in Int
      /\ w * CoinsPerWallet \in Int /\ (w + 1) * CoinsPerWallet \in Int
  BY <1>2, SizesAssumption
<1>5. ~(v < w)
  BY <1>1, <1>2, <1>3, <1>4
<1>6. ~(w < v)
  BY <1>1, <1>2, <1>3, <1>4
<1> QED
  BY <1>2, <1>5, <1>6

(* The parts of the transfer being built are finite sets.                  *)
LEMMA PartsFinite ==
  ASSUME IInv
  PROVE  /\ Spenders(Current) \subseteq Wallets /\ IsFiniteSet(Spenders(Current))
         /\ Recipients(Current) \subseteq Wallets /\ IsFiniteSet(Recipients(Current))
         /\ SpentCoins(Current) \subseteq Coins /\ IsFiniteSet(SpentCoins(Current))
<1>1. \A i \in DOMAIN senders : senders[i] \in Payments
  BY DEF IInv, TypeOK
<1>2. \A i \in DOMAIN receivers : receivers[i] \in Receipts
  BY DEF IInv, TypeOK
<1>3. /\ Spenders(Current) \subseteq Wallets
      /\ Recipients(Current) \subseteq Wallets
      /\ SpentCoins(Current) \subseteq Coins
  BY <1>1, <1>2 DEF Spenders, Recipients, SpentCoins, Current, Payments, Receipts
<1>4. NumWallets * CoinsPerWallet \in Nat
  BY SizesAssumption
<1>5. IsFiniteSet(Wallets) /\ IsFiniteSet(Coins)
  BY <1>4, SizesAssumption, FS_Interval DEF Wallets, Coins
<1> QED
  BY <1>3, <1>5, FS_Subset

(* Appending an element to a sequence adds its image to the set of images. *)
LEMMA AppendDomain ==
  ASSUME NEW S, NEW s \in Seq(S), NEW e
  PROVE  /\ DOMAIN Append(s, e) = DOMAIN s \cup {Len(s) + 1}
         /\ Append(s, e)[Len(s) + 1] = e
         /\ \A i \in DOMAIN s : i # Len(s) + 1 /\ Append(s, e)[i] = s[i]
OBVIOUS

(* A new sender is another wallet, and pays with a coin of its own.        *)
LEMMA PickSenderParts == IInv /\ PartsInv /\ PickSender => PartsInv'
<1> SUFFICES ASSUME IInv, PartsInv, PickSender PROVE PartsInv'
  OBVIOUS
<1> DEFINE w == owner[cursor]
<1>1. pc = "senders" /\ w \notin picked /\ Len(receivers) = 0
  BY DEF PickSender, PickingSender, IInv, ListInv
<1>2. cursor \in Nodes /\ w \in Wallets
  BY IInvImpliesCursorLive DEF IInv, TypeOK, CursorLive, PickSender, Picking
<1>3. PICK c \in Affordable(w) :
        senders' = Append(senders, [wallet |-> w, coin |-> c,
                                    value |-> TransferValuePerWallet])
  BY DEF PickSender
<1> DEFINE p == [wallet |-> w, coin |-> c, value |-> TransferValuePerWallet]
<1>4. /\ DOMAIN senders' = DOMAIN senders \cup {Len(senders) + 1}
      /\ senders'[Len(senders) + 1] = p
      /\ \A i \in DOMAIN senders : senders'[i] = senders[i]
  BY <1>3, AppendDomain DEF IInv, TypeOK
<1>5. Len(senders') = Len(senders) + 1 /\ Len(senders) \in Nat
  BY <1>3 DEF IInv, TypeOK
<1>6. receivers' = receivers /\ transfers' = transfers /\ pc' = "senders"
      /\ picked' = picked \cup {w}
  BY <1>1 DEF PickSender
<1>7. DOMAIN receivers = {}
  BY <1>1 DEF IInv, TypeOK
<1>8. Spenders(Current)' = Spenders(Current) \cup {w}
  BY <1>4 DEF Spenders, Current
<1>9. SpentCoins(Current)' = SpentCoins(Current) \cup {c}
  BY <1>4 DEF SpentCoins, Current
<1>10. Recipients(Current) = {} /\ Recipients(Current)' = {}
  BY <1>6, <1>7 DEF Recipients, Current
<1>11. w \notin Spenders(Current)
  BY <1>1 DEF PartsInv
<1>12. c \notin SpentCoins(Current)
  <2> SUFFICES ASSUME NEW i \in DOMAIN senders, senders[i].coin = c PROVE FALSE
    BY DEF SpentCoins, Current
  <2>1. senders[i].wallet \in Wallets /\ senders[i].wallet \in Spenders(Current)
    BY PartsFinite DEF Spenders, Current
  <2>2. c \in CoinsOf(senders[i].wallet) /\ c \in CoinsOf(w)
    BY <1>1 DEF PartsInv, Affordable
  <2> QED
    BY <1>2, <1>11, <2>1, <2>2, CoinsDisjoint
<1>13. Cardinality(Spenders(Current)') = Len(senders')
  BY ZenonT(60), <1>1, <1>5, <1>8, <1>11, PartsFinite, FS_AddElement DEF PartsInv
<1>14. Cardinality(SpentCoins(Current)') = Len(senders')
  BY ZenonT(60), <1>1, <1>5, <1>9, <1>12, PartsFinite, FS_AddElement DEF PartsInv
<1>15. \A i \in DOMAIN senders' : senders'[i].coin \in CoinsOf(senders'[i].wallet)
  BY <1>1, <1>4 DEF PartsInv, Affordable
<1>16. picked' = (Spenders(Current) \cup Recipients(Current))'
  BY <1>1, <1>6, <1>8, <1>10 DEF PartsInv
<1>17. Cardinality(Recipients(Current)') = Len(receivers')
  BY <1>1, <1>6, <1>10, FS_EmptySet
<1>18. \A k \in DOMAIN transfers' : WellFormed(transfers'[k])
  BY <1>6 DEF PartsInv
<1> QED
  BY <1>6, <1>7, <1>10, <1>13, <1>14, <1>15, <1>16, <1>17, <1>18 DEF PartsInv

(* A new receiver is another wallet, and gets the coins of the senders.    *)
LEMMA PickReceiverParts == IInv /\ PartsInv /\ PickReceiver => PartsInv'
<1> SUFFICES ASSUME IInv, PartsInv, PickReceiver PROVE PartsInv'
  OBVIOUS
<1> DEFINE w == owner[cursor]
           r == [wallet |-> w, coins |-> Shares]
<1>1. pc = "receivers" /\ w \notin picked
  BY DEF PickReceiver, PickingReceiver
<1>2. /\ receivers' = Append(receivers, r) /\ senders' = senders
      /\ transfers' = transfers /\ pc' = "receivers" /\ picked' = picked \cup {w}
  BY <1>1 DEF PickReceiver
<1>3. /\ DOMAIN receivers' = DOMAIN receivers \cup {Len(receivers) + 1}
      /\ receivers'[Len(receivers) + 1] = r
      /\ \A i \in DOMAIN receivers : receivers'[i] = receivers[i]
  BY <1>2, AppendDomain DEF IInv, TypeOK
<1>4. Len(receivers') = Len(receivers) + 1 /\ Len(receivers) \in Nat
  BY <1>2 DEF IInv, TypeOK
<1>5. /\ Spenders(Current)' = Spenders(Current)
      /\ SpentCoins(Current)' = SpentCoins(Current)
  BY <1>2 DEF Spenders, SpentCoins, Current
<1>6. Recipients(Current)' = Recipients(Current) \cup {w}
  BY <1>3 DEF Recipients, Current
<1>7. w \notin Recipients(Current) /\ w \notin Spenders(Current)
  BY <1>1 DEF PartsInv
<1>8. Cardinality(Recipients(Current)') = Len(receivers')
  BY <1>1, <1>4, <1>6, <1>7, PartsFinite, FS_AddElement DEF PartsInv
<1>9. {r.coins[j].coin : j \in DOMAIN r.coins} = SpentCoins(Current)
  BY DEF Shares, SpentCoins, Current
<1>10. \A i \in DOMAIN receivers' :
         {receivers'[i].coins[j].coin : j \in DOMAIN receivers'[i].coins} = SpentCoins(Current)'
  BY <1>1, <1>3, <1>5, <1>9 DEF PartsInv
<1>11. picked' = (Spenders(Current) \cup Recipients(Current))'
  BY <1>1, <1>2, <1>5, <1>6 DEF PartsInv
<1>12. Spenders(Current)' \cap Recipients(Current)' = {}
  BY <1>1, <1>5, <1>6, <1>7 DEF PartsInv
<1>13. \A k \in DOMAIN transfers' : WellFormed(transfers'[k])
  BY <1>2 DEF PartsInv
<1> QED
  BY <1>1, <1>2, <1>5, <1>8, <1>10, <1>11, <1>12, <1>13 DEF PartsInv

(* The transfer that is pushed has the parts that were picked.             *)
LEMMA PushTransferParts == IInv /\ PartsInv /\ PushTransfer => PartsInv'
<1> SUFFICES ASSUME IInv, PartsInv, PushTransfer PROVE PartsInv'
  OBVIOUS
<1>1. transfers' = Append(transfers, Current) /\ pc' = "next"
  BY DEF PushTransfer, Current
<1>2. /\ DOMAIN transfers' = DOMAIN transfers \cup {Len(transfers) + 1}
      /\ transfers'[Len(transfers) + 1] = Current
      /\ \A k \in DOMAIN transfers : transfers'[k] = transfers[k]
  BY <1>1, AppendDomain DEF IInv, TypeOK
<1>3. Len(senders) = SendersPerTransfer /\ Len(receivers) = ReceiversPerTransfer
  <2>1. Len(receivers) \in Nat /\ Len(receivers) <= ReceiversPerTransfer
    BY DEF PushTransfer, IInv, TypeOK, ListInv
  <2> QED
    BY <2>1, SizesAssumption DEF PushTransfer, PartsInv
<1>4. WellFormed(Current)
  BY <1>3 DEF WellFormed, PartsInv, PushTransfer, Current
<1>5. \A k \in DOMAIN transfers' : WellFormed(transfers'[k])
  BY <1>2, <1>4 DEF PartsInv
<1> QED
  BY <1>1, <1>5 DEF PartsInv

(* Every step keeps the parts of the transfer as they should be.           *)
LEMMA NextParts == IInv /\ PartsInv /\ [Next]_vars => PartsInv'
<1> SUFFICES ASSUME IInv, PartsInv, [Next]_vars PROVE PartsInv'
  OBVIOUS
<1>1. CASE StartTransfer
  <2>1. /\ senders' = <<>> /\ receivers' = <<>> /\ picked' = {}
        /\ transfers' = transfers /\ pc' = "senders"
    BY <1>1 DEF StartTransfer
  <2>2. /\ Spenders(Current)' = {} /\ Recipients(Current)' = {} /\ SpentCoins(Current)' = {}
    BY <2>1 DEF Spenders, Recipients, SpentCoins, Current
  <2>3. Cardinality({}) = 0
    BY FS_EmptySet
  <2> QED
    BY <2>1, <2>2, <2>3 DEF PartsInv
<1>2. CASE SendersPicked
  <2>1. Len(senders) = SendersPerTransfer
    <3>1. Len(senders) \in Nat /\ Len(senders) <= SendersPerTransfer
      BY <1>2 DEF SendersPicked, IInv, TypeOK, ListInv
    <3> QED
      BY <1>2, <3>1, SizesAssumption DEF SendersPicked
  <2>2. UNCHANGED <<picked, senders, receivers, transfers>> /\ pc = "senders"
    BY <1>2 DEF SendersPicked
  <2>3. UNCHANGED <<Spenders(Current), Recipients(Current), SpentCoins(Current)>>
    BY <2>2 DEF Spenders, Recipients, SpentCoins, Current
  <2> QED
    BY <2>1, <2>2, <2>3 DEF PartsInv
<1>3. CASE Prepare \/ GiveUp \/ NotEnoughFunds \/ Finish
  <2>1. transfers' = transfers /\ pc' \in {"next", "done", "failed"}
    BY <1>3 DEF Prepare, GiveUp, NotEnoughFunds, Finish
  <2> QED
    BY <2>1 DEF PartsInv
<1>4. CASE SkipPicked \/ Returned \/ UNCHANGED vars
  <2>1. UNCHANGED <<pc, picked, senders, receivers, transfers>>
    BY <1>4 DEF SkipPicked, Returned, vars
  <2>2. UNCHANGED <<Spenders(Current), Recipients(Current), SpentCoins(Current)>>
    BY <2>1 DEF Spenders, Recipients, SpentCoins, Current
  <2> QED
    BY <2>1, <2>2 DEF PartsInv
<1> QED
  BY <1>1, <1>2, <1>3, <1>4, PickSenderParts, PickReceiverParts, PushTransferParts DEF Next

(* Every transfer generated is between distinct wallets, with the numbers  *)
(* of senders and receivers asked for, and spends coins minted to its      *)
(* senders, whatever the comparisons with "started" give.                  *)
THEOREM WellFormedTransfers == Spec => []TransfersWellFormed
<1>1. Init => PartsInv
  BY DEF Init, PartsInv
<1>2. PartsInv => TransfersWellFormed
  BY DEF PartsInv, TransfersWellFormed
<1> QED
  BY <1>1, <1>2, NextParts, InvariantHolds, PTL DEF Spec
=============================================================================
