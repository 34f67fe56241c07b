------------------------- MODULE CBDCAccountsProofs -------------------------
(***************************************************************************)
(* The expected values of generate() against the transfers it lists: the   *)
(* accounts balance, senders are funded in any order, generate() only      *)
(* throws when the funds do not suffice, and the workload is a sequence of *)
(* whole transfers on the ledger of CBDCLedger.                            *)
(***************************************************************************)
EXTENDS CBDCMoneyProofs

(***************************************************************************)
(* Sums over the parts of a transfer and over the transfers                *)
(***************************************************************************)
(* The shares of a receiver are naturals, and so is their sum.             *)
LEMMA ShareOfType ==
  ASSUME NEW coins \in Seq([coin : Coins, value : Values]), NEW c
  PROVE  ShareOf(coins, c) \in Nat
<1> DEFINE f == [j \in DOMAIN coins |-> IF coins[j].coin = c THEN coins[j].value ELSE 0]
<1>1. \A j \in DOMAIN coins : coins[j] \in [coin : Coins, value : Values]
  <2>1. \A S, q, j : q \in Seq(S) /\ j \in DOMAIN q => q[j] \in S
    OBVIOUS
  <2> QED
    BY <2>1
<1>2. \A j \in DOMAIN coins : coins[j].value \in Nat
  BY <1>1 DEF Values
<1>3. f \in [DOMAIN coins -> Nat]
  BY <1>2
<1>4. IsFiniteSet(DOMAIN coins)
  BY FS_Interval
<1> HIDE DEF f
<1>5. SumFunction(f) \in Nat
  BY <1>3, <1>4, SumNat
<1> QED
  BY <1>5 DEF ShareOf, f

(* What one more sender pays.                                              *)
LEMMA PaidInAppended ==
  ASSUME NEW s \in Seq(Payments), NEW p \in Payments, NEW r, NEW q, NEW w, NEW c
  PROVE  /\ PaidIn([senders |-> s, receivers |-> q], w, c) \in Nat
         /\ PaidIn([senders |-> Append(s, p), receivers |-> r], w, c) =
              PaidIn([senders |-> s, receivers |-> q], w, c)
                + (IF p.wallet = w /\ p.coin = c THEN p.value ELSE 0)
<1> DEFINE pays(x) == IF x.wallet = w /\ x.coin = c THEN x.value ELSE 0
           n == Len(s)
           t == Append(s, p)
           f == [i \in DOMAIN s |-> pays(s[i])]
           g == [i \in DOMAIN t |-> pays(t[i])]
<1>1. \A x \in Payments : pays(x) \in Nat
  BY DEF Payments, Values
<1>2. /\ n \in Nat /\ DOMAIN s = 1..n /\ DOMAIN t = 1..(n + 1)
      /\ t[n + 1] = p /\ \A i \in 1..n : t[i] = s[i] /\ s[i] \in Payments
  OBVIOUS
<1>3. \A i \in 1..(n + 1) : t[i] \in Payments
  OBVIOUS
<1> HIDE DEF pays, t, n
<1>4. f \in [1..n -> Nat] /\ g \in [1..(n + 1) -> Nat]
  BY <1>1, <1>2, <1>3
<1>5. g[n + 1] = pays(p) /\ \A i \in 1..n : g[i] = f[i]
  BY <1>2
<1>6. /\ PaidIn([senders |-> s, receivers |-> q], w, c) = SumFunction(f)
      /\ PaidIn([senders |-> t, receivers |-> r], w, c) = SumFunction(g)
  BY DEF PaidIn, pays
<1> HIDE DEF f, g
<1>7. SumFunction(f) \in Nat
  <2>1. IsFiniteSet(1..n)
    BY <1>2, FS_Interval
  <2> QED
    BY <1>4, <2>1, SumNat
<1>8. f \in [1..n -> Int] /\ g \in [1..(n + 1) -> Int]
  BY <1>4
<1>9. SumFunction(g) = SumFunction(f) + g[n + 1]
  BY <1>2, <1>5, <1>8, SumOneMore
<1> QED
  BY <1>5, <1>6, <1>7, <1>9 DEF pays, t

(* What one more receiver gets.                                            *)
LEMMA ReceivedInAppended ==
  ASSUME NEW s, NEW r \in Seq(Receipts), NEW p \in Receipts, NEW u, NEW w, NEW c
  PROVE  /\ ReceivedIn([senders |-> s, receivers |-> r], w, c) \in Nat
         /\ ReceivedIn([senders |-> u, receivers |-> Append(r, p)], w, c) =
              ReceivedIn([senders |-> s, receivers |-> r], w, c)
                + (IF p.wallet = w THEN ShareOf(p.coins, c) ELSE 0)
<1> DEFINE gets(x) == IF x.wallet = w THEN ShareOf(x.coins, c) ELSE 0
           n == Len(r)
           t == Append(r, p)
           f == [i \in DOMAIN r |-> gets(r[i])]
           g == [i \in DOMAIN t |-> gets(t[i])]
<1>1. ASSUME NEW x \in Receipts PROVE gets(x) \in Nat
  <2>1. x.coins \in Seq([coin : Coins, value : Values])
    BY DEF Receipts
  <2> QED
    BY <2>1, ShareOfType
<1>2. /\ n \in Nat /\ DOMAIN r = 1..n /\ DOMAIN t = 1..(n + 1)
      /\ t[n + 1] = p /\ \A i \in 1..n : t[i] = r[i] /\ r[i] \in Receipts
  OBVIOUS
<1>3. \A i \in 1..(n + 1) : t[i] \in Receipts
  OBVIOUS
<1> HIDE DEF gets, t, n
<1>4. f \in [1..n -> Nat] /\ g \in [1..(n + 1) -> Nat]
  BY <1>1, <1>2, <1>3
<1>5. g[n + 1] = gets(p) /\ \A i \in 1..n : g[i] = f[i]
  BY <1>2
<1>6. /\ ReceivedIn([senders |-> s, receivers |-> r], w, c) = SumFunction(f)
      /\ ReceivedIn([senders |-> u, receivers |-> t], w, c) = SumFunction(g)
  BY DEF ReceivedIn, gets
<1> HIDE DEF f, g
<1>7. SumFunction(f) \in Nat
  <2>1. IsFiniteSet(1..n)
    BY <1>2, FS_Interval
  <2> QED
    BY <1>4, <2>1, SumNat
<1>8. f \in [1..n -> Int] /\ g \in [1..(n + 1) -> Int]
  BY <1>4
<1>9. SumFunction(g) = SumFunction(f) + g[n + 1]
  BY <1>2, <1>5, <1>8, SumOneMore
<1> QED
  BY <1>5, <1>6, <1>7, <1>9 DEF gets, t

(* What a transfer moves is a natural.                                     *)
LEMMA MovedType ==
  ASSUME NEW t \in Transfers, NEW w, NEW c
  PROVE  PaidIn(t, w, c) \in Nat /\ ReceivedIn(t, w, c) \in Nat
<1> DEFINE pays(x) == IF x.wallet = w /\ x.coin = c THEN x.value ELSE 0
           gets(x) == IF x.wallet = w THEN ShareOf(x.coins, c) ELSE 0
           f == [i \in DOMAIN t.senders |-> pays(t.senders[i])]
           g == [i \in DOMAIN t.receivers |-> gets(t.receivers[i])]
<1>1. t.senders \in Seq(Payments) /\ t.receivers \in Seq(Receipts)
  BY DEF Transfers
<1>2. ASSUME NEW x \in Payments PROVE pays(x) \in Nat
  BY DEF Payments, Values
<1>6. ASSUME NEW x \in Receipts PROVE gets(x) \in Nat
  <2>1. x.coins \in Seq([coin : Coins, value : Values])
    BY DEF Receipts
  <2> QED
    BY <2>1, ShareOfType
<1> HIDE DEF pays, gets
<1>3. f \in [DOMAIN t.senders -> Nat] /\ g \in [DOMAIN t.receivers -> Nat]
  BY <1>1, <1>2, <1>6
<1>4. IsFiniteSet(DOMAIN t.senders) /\ IsFiniteSet(DOMAIN t.receivers)
  BY <1>1, FS_Interval
<1>5. PaidIn(t, w, c) = SumFunction(f) /\ ReceivedIn(t, w, c) = SumFunction(g)
  BY DEF PaidIn, ReceivedIn, pays, gets
<1> HIDE DEF f, g
<1> QED
  BY <1>3, <1>4, <1>5, SumNat

(* What one more transfer moves.                                           *)
LEMMA TransferAppended ==
  ASSUME NEW ts \in Seq(Transfers), NEW t \in Transfers, NEW w, NEW c
  PROVE  /\ Paid(ts, w, c) \in Nat /\ Got(ts, w, c) \in Nat
         /\ Paid(Append(ts, t), w, c) = Paid(ts, w, c) + PaidIn(t, w, c)
         /\ Got(Append(ts, t), w, c) = Got(ts, w, c) + ReceivedIn(t, w, c)
<1> DEFINE n == Len(ts)
           u == Append(ts, t)
           f == [k \in DOMAIN ts |-> PaidIn(ts[k], w, c)]
           g == [k \in DOMAIN u |-> PaidIn(u[k], w, c)]
           h == [k \in DOMAIN ts |-> ReceivedIn(ts[k], w, c)]
           j == [k \in DOMAIN u |-> ReceivedIn(u[k], w, c)]
<1>1. /\ n \in Nat /\ DOMAIN ts = 1..n /\ DOMAIN u = 1..(n + 1)
      /\ u[n + 1] = t /\ \A k \in 1..n : u[k] = ts[k] /\ ts[k] \in Transfers
  OBVIOUS
<1>2. \A k \in 1..(n + 1) : u[k] \in Transfers
  OBVIOUS
<1> HIDE DEF u, n
<1>3. /\ f \in [1..n -> Nat] /\ g \in [1..(n + 1) -> Nat]
      /\ h \in [1..n -> Nat] /\ j \in [1..(n + 1) -> Nat]
  BY <1>1, <1>2, MovedType
<1>4. /\ g[n + 1] = PaidIn(t, w, c) /\ \A k \in 1..n : g[k] = f[k]
      /\ j[n + 1] = ReceivedIn(t, w, c) /\ \A k \in 1..n : j[k] = h[k]
  BY <1>1
<1>5. /\ Paid(ts, w, c) = SumFunction(f) /\ Paid(u, w, c) = SumFunction(g)
      /\ Got(ts, w, c) = SumFunction(h) /\ Got(u, w, c) = SumFunction(j)
  BY DEF Paid, Got
<1> HIDE DEF f, g, h, j
<1>6. SumFunction(f) \in Nat /\ SumFunction(h) \in Nat
  <2>1. IsFiniteSet(1..n)
    BY <1>1, FS_Interval
  <2> QED
    BY <1>3, <2>1, SumNat
<1>7. /\ f \in [1..n -> Int] /\ g \in [1..(n + 1) -> Int]
      /\ h \in [1..n -> Int] /\ j \in [1..(n + 1) -> Int]
  BY <1>3
<1>8. SumFunction(g) = SumFunction(f) + g[n + 1]
  BY <1>1, <1>4, <1>7, SumOneMore
<1>9. SumFunction(j) = SumFunction(h) + j[n + 1]
  BY <1>1, <1>4, <1>7, SumOneMore
<1> QED
  BY <1>4, <1>5, <1>6, <1>8, <1>9 DEF u

(* No transfer moves nothing.                                              *)
LEMMA NothingMoved ==
  ASSUME NEW w, NEW c
  PROVE  /\ Paid(<<>>, w, c) = 0 /\ Got(<<>>, w, c) = 0
         /\ PaidIn([senders |-> <<>>, receivers |-> <<>>], w, c) = 0
         /\ ReceivedIn([senders |-> <<>>, receivers |-> <<>>], w, c) = 0
<1>1. \A f : DOMAIN f = {} => SumFunction(f) = 0
  BY SumEmpty DEF SumFunction
<1> QED
  BY <1>1 DEF Paid, Got, PaidIn, ReceivedIn

(***************************************************************************)
(* What the steps move                                                     *)
(***************************************************************************)
(* The types of the transfers, before and after a step.                    *)
LEMMA CurrentType ==
  /\ MoneyInv => Current \in Transfers /\ transfers \in Seq(Transfers)
  /\ MoneyInv' => Current' \in Transfers /\ transfers' \in Seq(Transfers)
<1>1. MoneyInv => Current \in Transfers /\ transfers \in Seq(Transfers)
  BY DEF MoneyInv, IInv, TypeOK, Current, Transfers
<1>2. MoneyInv' => Current' \in Transfers /\ transfers' \in Seq(Transfers)
  BY DEF MoneyInv, IInv, TypeOK, Current, Transfers
<1> QED
  BY <1>1, <1>2

(* What all the parts move, before and after a step.                       *)
LEMMA AllPartsMove ==
  ASSUME MoneyInv, MoneyInv', NEW w, NEW c
  PROVE  /\ Paid(AllParts, w, c) = Paid(transfers, w, c) + (IF InFlight THEN PaidIn(Current, w, c) ELSE 0)
         /\ Got(AllParts, w, c) = Got(transfers, w, c) + (IF InFlight THEN ReceivedIn(Current, w, c) ELSE 0)
         /\ Paid(AllParts, w, c)' =
              Paid(transfers', w, c) + (IF InFlight' THEN PaidIn(Current', w, c) ELSE 0)
         /\ Got(AllParts, w, c)' =
              Got(transfers', w, c) + (IF InFlight' THEN ReceivedIn(Current', w, c) ELSE 0)
         /\ Paid(transfers, w, c) \in Nat /\ PaidIn(Current, w, c) \in Nat
         /\ Got(transfers, w, c) \in Nat /\ ReceivedIn(Current, w, c) \in Nat
         /\ Paid(AllParts, w, c) \in Nat /\ Got(AllParts, w, c) \in Nat
<1>1. /\ Current \in Transfers /\ transfers \in Seq(Transfers)
      /\ Current' \in Transfers /\ transfers' \in Seq(Transfers)
  BY CurrentType
<1>2. /\ Paid(transfers, w, c) \in Nat /\ PaidIn(Current, w, c) \in Nat
      /\ Got(transfers, w, c) \in Nat /\ ReceivedIn(Current, w, c) \in Nat
  BY <1>1, TransferAppended, MovedType
<1>3. Paid(transfers', w, c) \in Nat /\ Got(transfers', w, c) \in Nat
  BY <1>1, TransferAppended
<1>4. /\ Paid(Append(transfers, Current), w, c) = Paid(transfers, w, c) + PaidIn(Current, w, c)
      /\ Got(Append(transfers, Current), w, c) = Got(transfers, w, c) + ReceivedIn(Current, w, c)
  BY <1>1, TransferAppended
<1>5. /\ Paid(Append(transfers', Current'), w, c) = Paid(transfers', w, c) + PaidIn(Current', w, c)
      /\ Got(Append(transfers', Current'), w, c) = Got(transfers', w, c) + ReceivedIn(Current', w, c)
  BY <1>1, TransferAppended
<1>6. /\ Paid(AllParts, w, c)' = Paid(AllParts', w, c) /\ Got(AllParts, w, c)' = Got(AllParts', w, c)
      /\ AllParts = IF InFlight THEN Append(transfers, Current) ELSE transfers
      /\ AllParts' = IF InFlight' THEN Append(transfers', Current') ELSE transfers'
  BY DEF AllParts, Paid, Got, PaidIn, ReceivedIn, ShareOf
<1>7. /\ Paid(AllParts, w, c) = Paid(transfers, w, c) + (IF InFlight THEN PaidIn(Current, w, c) ELSE 0)
      /\ Got(AllParts, w, c) = Got(transfers, w, c) + (IF InFlight THEN ReceivedIn(Current, w, c) ELSE 0)
  BY <1>2, <1>4, <1>6
<1>8. /\ Paid(AllParts, w, c)' =
           Paid(transfers', w, c) + (IF InFlight' THEN PaidIn(Current', w, c) ELSE 0)
      /\ Got(AllParts, w, c)' =
           Got(transfers', w, c) + (IF InFlight' THEN ReceivedIn(Current', w, c) ELSE 0)
  BY <1>3, <1>5, <1>6
<1>9. Paid(AllParts, w, c) \in Nat /\ Got(AllParts, w, c) \in Nat
  BY <1>2, <1>7
<1> QED
  BY <1>2, <1>7, <1>8, <1>9

(* A payment moves Debit out of the sender's account.                      *)
LEMMA PaysMoves ==
  ASSUME MoneyInv, MoneyInv', NEW w \in Wallets, NEW c \in CoinsOf(w), Pays(w, c),
         NEW v \in Wallets, NEW d \in Coins
  PROVE  LET amount == IF v = w /\ d = c THEN Debit ELSE 0 IN
         /\ InFlight /\ InFlight' /\ transfers' = transfers
         /\ PaidIn(Current', v, d) = PaidIn(Current, v, d) + amount
         /\ ReceivedIn(Current', v, d) = ReceivedIn(Current, v, d)
         /\ Paid(AllParts, v, d)' = Paid(AllParts, v, d) + amount
         /\ Got(AllParts, v, d)' = Got(AllParts, v, d)
         /\ expected'[<<v, d>>] = expected[<<v, d>>] - amount
<1> DEFINE p == [wallet |-> w, coin |-> c, value |-> Debit]
           amount == IF v = w /\ d = c THEN Debit ELSE 0
<1>1. /\ senders \in Seq(Payments) /\ receivers' = receivers /\ transfers' = transfers
      /\ senders' = Append(senders, p) /\ InFlight /\ InFlight'
  BY DEF Pays, MoneyInv, IInv, TypeOK, InFlight
<1>2. p \in Payments /\ p.value = Debit /\ p.wallet = w /\ p.coin = c /\ Debit \in Nat
  BY AmountTypes, AmountFacts, FiniteParts DEF Payments, Debit
<1>3. /\ Current = [senders |-> senders, receivers |-> receivers]
      /\ Current' = [senders |-> Append(senders, p), receivers |-> receivers]
  BY <1>1 DEF Current
<1> HIDE DEF p
<1>4. PaidIn(Current', v, d) = PaidIn(Current, v, d) + amount
  <2>1. PaidIn(Current', v, d) =
          PaidIn(Current, v, d) + (IF p.wallet = v /\ p.coin = d THEN p.value ELSE 0)
    <3>1. PaidIn([senders |-> Append(senders, p), receivers |-> receivers], v, d) =
            PaidIn([senders |-> senders, receivers |-> receivers], v, d)
              + (IF p.wallet = v /\ p.coin = d THEN p.value ELSE 0)
      BY <1>1, <1>2, PaidInAppended
    <3> QED
      BY <1>3, <3>1
  <2> QED
    BY <1>2, <2>1
<1>5. ReceivedIn(Current', v, d) = ReceivedIn(Current, v, d)
  BY <1>3 DEF ReceivedIn
<1>6. expected'[<<v, d>>] = expected[<<v, d>>] - amount
  <2>1. expected' = [expected EXCEPT ![<<w, c>>] = @ - Debit]
    BY DEF Pays
  <2>2. <<v, d>> \in DOMAIN expected /\ expected[<<v, d>>] \in Nat
    BY ExpectedTypes
  <2>3. v = w /\ d = c <=> <<v, d>> = <<w, c>>
    OBVIOUS
  <2> QED
    BY <2>1, <2>2, <2>3
<1> QED
  BY <1>1, <1>2, <1>4, <1>5, <1>6, AllPartsMove

(* A receipt moves ValueIn of every spent coin to the receiver's account.  *)
LEMMA ReceivesMoves ==
  ASSUME MoneyInv, MoneyInv', WorthInv, NEW w \in Wallets, Receives(w),
         NEW v \in Wallets, NEW d \in Coins
  PROVE  LET amount == IF v = w /\ d \in SpentCoins(Current) THEN ValueIn ELSE 0 IN
         /\ InFlight /\ InFlight' /\ transfers' = transfers
         /\ PaidIn(Current', v, d) = PaidIn(Current, v, d)
         /\ ReceivedIn(Current', v, d) = ReceivedIn(Current, v, d) + amount
         /\ Paid(AllParts, v, d)' = Paid(AllParts, v, d)
         /\ Got(AllParts, v, d)' = Got(AllParts, v, d) + amount
         /\ expected'[<<v, d>>] = expected[<<v, d>>] + amount
<1> DEFINE p == [wallet |-> w, coins |-> Shares]
           amount == IF v = w /\ d \in SpentCoins(Current) THEN ValueIn ELSE 0
<1>1. /\ receivers \in Seq(Receipts) /\ senders' = senders /\ transfers' = transfers
      /\ receivers' = Append(receivers, p) /\ InFlight /\ InFlight' /\ PickingReceiver
  BY DEF Receives, MoneyInv, IInv, TypeOK, InFlight, PickingReceiver
<1>2. p \in Receipts /\ p.wallet = w /\ p.coins = Shares
  BY <1>1, SharesType DEF Receipts, MoneyInv
<1>3. /\ Current = [senders |-> senders, receivers |-> receivers]
      /\ Current' = [senders |-> senders, receivers |-> Append(receivers, p)]
  BY <1>1 DEF Current
<1>4. ReceiversPerTransfer > 0
  BY SizesAssumption DEF Receives
<1>5. ShareOf(Shares, d) = IF d \in SpentCoins(Current) THEN ValueIn ELSE 0
  BY <1>1, <1>4, ShareIs
<1> HIDE DEF p
<1>6. ReceivedIn(Current', v, d) = ReceivedIn(Current, v, d) + (IF w = v THEN ShareOf(Shares, d) ELSE 0)
  BY <1>1, <1>2, <1>3, ReceivedInAppended
<1>7. ReceivedIn(Current', v, d) = ReceivedIn(Current, v, d) + amount
  BY <1>5, <1>6
<1>8. PaidIn(Current', v, d) = PaidIn(Current, v, d)
  BY <1>3 DEF PaidIn
<1>9. expected'[<<v, d>>] = expected[<<v, d>>] + amount
  BY CreditFits, ExpectedTypes
<1>10. amount \in Nat
  BY AmountFacts
<1> HIDE DEF amount
<1>11. /\ Paid(AllParts, v, d)' = Paid(AllParts, v, d)
       /\ Got(AllParts, v, d)' = Got(AllParts, v, d) + amount
  BY <1>1, <1>7, <1>8, <1>10, AllPartsMove
<1> QED
  BY <1>1, <1>7, <1>8, <1>9, <1>11 DEF amount

(* Starting and pushing a transfer, and the quiet steps, move nothing.     *)
LEMMA OthersMoveNothing ==
  ASSUME MoneyInv, MoneyInv', Quiet \/ StartTransfer \/ PushTransfer, NEW v, NEW d
  PROVE  /\ Paid(AllParts, v, d)' = Paid(AllParts, v, d)
         /\ Got(AllParts, v, d)' = Got(AllParts, v, d)
         /\ expected' = expected /\ owner' = owner /\ live' = live
         /\ pc = "new" <=> pc' = "new"
<1>1. CASE Quiet
  BY <1>1 DEF Quiet, AllParts, Current, Paid, Got
<1>2. CASE PushTransfer
  <2>1. AllParts' = AllParts
    BY <1>2, PushTransferAppends DEF AllParts
  <2> QED
    BY <1>2, <2>1, PushTransferAppends DEF Paid, Got
<1>3. CASE StartTransfer
  <2>1. /\ ~InFlight /\ InFlight' /\ transfers' = transfers
        /\ Current' = [senders |-> <<>>, receivers |-> <<>>]
    BY <1>3 DEF StartTransfer, InFlight, Current
  <2>2. PaidIn(Current', v, d) = 0 /\ ReceivedIn(Current', v, d) = 0
    BY <2>1, NothingMoved
  <2> QED
    BY <1>3, <2>1, <2>2, AllPartsMove DEF StartTransfer
<1> QED
  BY <1>1, <1>2, <1>3

(* Before the first transfer nothing has moved.                            *)
LEMMA PrepareMovesNothing ==
  ASSUME MoneyInv, MoneyInv', Prepare, NEW v, NEW d
  PROVE  /\ Paid(AllParts, v, d)' = 0 /\ Got(AllParts, v, d)' = 0
         /\ expected' = Minted /\ live' = Nodes /\ owner' \in Shuffles
<1>1. ~InFlight' /\ transfers' = <<>> /\ expected' = Minted /\ live' = Nodes /\ owner' \in Shuffles
  BY DEF Prepare, InFlight, MoneyInv, PaymentsInv
<1> QED
  BY <1>1, AllPartsMove, NothingMoved

(* Every step is one of these.                                             *)
LEMMA StepKinds ==
  ASSUME MoneyInv, [Next]_vars
  PROVE  \/ Quiet \/ GiveUp \/ Prepare \/ StartTransfer \/ PushTransfer
         \/ \E w \in Wallets : \E c \in CoinsOf(w) : Pays(w, c)
         \/ \E w \in Wallets : Receives(w)
BY QuietSteps, PickSenderPays, PickReceiverReceives DEF Next

(***************************************************************************)
(* The accounts                                                            *)
(***************************************************************************)
(* When no search is given up, the expected values (generate() lines 92    *)
(* and 145) are the minted coins with all the transfers listed,             *)
(* and the one being built, executed on them.                              *)
THEOREM AccountsBalance ==
  ASSUME NeverGivesUp
  PROVE  Spec => []ExpectedMatchesTransfers
<1>1. Init => ExpectedMatchesTransfers
  BY DEF Init, ExpectedMatchesTransfers
<1>2. ASSUME MoneyInv, MoneyInv', WorthInv, ExpectedMatchesTransfers, [Next]_vars
      PROVE  ExpectedMatchesTransfers'
  <2> SUFFICES ASSUME pc' # "new", NEW v \in Wallets, NEW d \in Coins
               PROVE  expected'[<<v, d>>] =
                        Minted[<<v, d>>] - Paid(AllParts, v, d)' + Got(AllParts, v, d)'
    BY DEF ExpectedMatchesTransfers
  <2>1. /\ Minted[<<v, d>>] \in Nat
        /\ Paid(AllParts, v, d) \in Nat /\ Got(AllParts, v, d) \in Nat
    BY <1>2, AmountTypes, AllPartsMove DEF Values
  <2>2. pc # "new" => expected[<<v, d>>] =
                        Minted[<<v, d>>] - Paid(AllParts, v, d) + Got(AllParts, v, d)
    BY <1>2 DEF ExpectedMatchesTransfers
  <2>3. CASE Quiet \/ StartTransfer \/ PushTransfer
    BY <1>2, <2>2, <2>3, OthersMoveNothing
  <2>4. CASE Prepare
    BY <1>2, <2>1, <2>4, PrepareMovesNothing
  <2>5. ASSUME NEW w \in Wallets, NEW c \in CoinsOf(w), Pays(w, c)
        PROVE  expected'[<<v, d>>] =
                        Minted[<<v, d>>] - Paid(AllParts, v, d)' + Got(AllParts, v, d)'
    <3>1. pc # "new" /\ Debit \in Nat
      BY <2>5, AmountFacts DEF Pays
    <3> QED
      BY <1>2, <2>1, <2>2, <2>5, <3>1, PaysMoves
  <2>6. ASSUME NEW w \in Wallets, Receives(w)
        PROVE  expected'[<<v, d>>] =
                        Minted[<<v, d>>] - Paid(AllParts, v, d)' + Got(AllParts, v, d)'
    <3>1. pc # "new" /\ ValueIn \in Nat
      BY <2>6, AmountFacts DEF Receives
    <3> QED
      BY <1>2, <2>1, <2>2, <2>6, <3>1, ReceivesMoves
  <2> QED
    BY <1>2, <2>3, <2>4, <2>5, <2>6, StepKinds, NoGivingUp DEF MoneyInv
<1> QED
  BY <1>1, <1>2, WorthHolds, MoneyInvHolds, PTL DEF Spec

(* A wallet only pays with the coins minted to it, and these it never      *)
(* receives: what it has paid of one and what it has left are at most      *)
(* what was minted.                                                        *)
FundsInv ==
  pc # "new" =>
    \A w \in Wallets, c \in Coins :
      Paid(AllParts, w, c) + (IF c \in CoinsOf(w) THEN expected[<<w, c>>] ELSE 0) <= Minted[<<w, c>>]

(* A receiver gets nothing of its own coins.                               *)
LEMMA OwnCoinsAreNotReceived ==
  ASSUME MoneyInv, NEW w \in Wallets, Receives(w), NEW c \in CoinsOf(w)
  PROVE  c \notin SpentCoins(Current)
<1> SUFFICES ASSUME NEW i \in DOMAIN senders, senders[i].coin = c PROVE FALSE
  BY DEF SpentCoins, Current
<1>1. senders[i].wallet \in Wallets /\ senders[i].wallet \in Spenders(Current)
  BY PartsFinite DEF Spenders, Current, MoneyInv
<1>2. c \in CoinsOf(senders[i].wallet)
  BY DEF Receives, MoneyInv, PartsInv
<1> QED
  BY <1>1, <1>2, CoinsDisjoint DEF Receives

(* FundsInv is kept by every step, a search given up included.             *)
LEMMA FundsStep == MoneyInv /\ MoneyInv' /\ WorthInv /\ FundsInv /\ [Next]_vars => FundsInv'
<1> SUFFICES ASSUME MoneyInv, MoneyInv', WorthInv, FundsInv, [Next]_vars, pc' # "new",
                    NEW v \in Wallets, NEW d \in Coins
             PROVE  Paid(AllParts, v, d)' + (IF d \in CoinsOf(v) THEN expected'[<<v, d>>] ELSE 0)
                      <= Minted[<<v, d>>]
  BY DEF FundsInv
<1>1. /\ Minted[<<v, d>>] \in Nat /\ expected[<<v, d>>] \in Nat
      /\ Paid(AllParts, v, d) \in Nat /\ Debit \in Nat
  <2>1. Minted[<<v, d>>] \in Nat /\ expected[<<v, d>>] \in Nat /\ Debit \in Nat
    BY AmountTypes, AmountFacts, ExpectedTypes DEF Values
  <2> QED
    BY <2>1, AllPartsMove
<1>2. pc # "new" => Paid(AllParts, v, d) + (IF d \in CoinsOf(v) THEN expected[<<v, d>>] ELSE 0)
                      <= Minted[<<v, d>>]
  BY DEF FundsInv
<1>3. CASE Quiet \/ StartTransfer \/ PushTransfer
  BY <1>2, <1>3, OthersMoveNothing
<1>4. CASE Prepare
  BY <1>1, <1>4, PrepareMovesNothing, ValuesAssumption DEF Minted
<1>5. CASE GiveUp
  <2>1. InFlight /\ ~InFlight' /\ UNCHANGED <<transfers, expected>> /\ pc # "new"
    BY <1>5, GiveUpDrops
  <2>2. Paid(AllParts, v, d)' <= Paid(AllParts, v, d) /\ Paid(AllParts, v, d)' \in Nat
    BY <2>1, AllPartsMove
  <2> QED
    BY <1>1, <1>2, <2>1, <2>2
<1>6. ASSUME NEW w \in Wallets, NEW c \in CoinsOf(w), Pays(w, c)
      PROVE  Paid(AllParts, v, d)' + (IF d \in CoinsOf(v) THEN expected'[<<v, d>>] ELSE 0)
               <= Minted[<<v, d>>]
  <2>1. pc # "new" /\ (v = w /\ d = c => d \in CoinsOf(v))
    BY <1>6 DEF Pays
  <2> QED
    BY <1>1, <1>2, <1>6, <2>1, PaysMoves
<1>7. ASSUME NEW w \in Wallets, Receives(w)
      PROVE  Paid(AllParts, v, d)' + (IF d \in CoinsOf(v) THEN expected'[<<v, d>>] ELSE 0)
               <= Minted[<<v, d>>]
  <2>1. pc # "new" /\ (d \in CoinsOf(v) => ~(v = w /\ d \in SpentCoins(Current)))
    BY <1>7, OwnCoinsAreNotReceived DEF Receives
  <2> QED
    BY <1>1, <1>2, <1>7, <2>1, ReceivesMoves
<1> QED
  BY <1>3, <1>4, <1>5, <1>6, <1>7, StepKinds

(* FundsInv is an invariant.                                               *)
LEMMA FundsHold == Spec => []FundsInv
<1>1. Init => FundsInv
  BY DEF Init, FundsInv
<1> QED
  BY <1>1, FundsStep, WorthHolds, MoneyInvHolds, PTL DEF Spec

(* What all the transfers together take from an account was minted to it   *)
(* (generate() lines 83-96): in whatever order a benchmark executes them,  *)
(* no sender's coin falls short.                                           *)
THEOREM FundsCoverEveryOrder == Spec => []FundedInAnyOrder
<1>1. MoneyInv /\ FundsInv => FundedInAnyOrder
  <2> SUFFICES ASSUME MoneyInv, FundsInv, NEW w \in Wallets, NEW c \in Coins
               PROVE  Paid(AllParts, w, c) <= Minted[<<w, c>>]
    BY DEF FundedInAnyOrder
  <2>1. Minted[<<w, c>>] \in Nat /\ expected[<<w, c>>] \in Nat
    BY AmountTypes, ExpectedTypes DEF Values
  <2>2. Current \in Transfers /\ transfers \in Seq(Transfers)
    BY CurrentType
  <2>3. Paid(AllParts, w, c) \in Nat
    BY <2>2, TransferAppended, MovedType DEF AllParts
  <2>4. CASE pc = "new"
    <3>1. AllParts = <<>>
      BY <2>4 DEF AllParts, InFlight, MoneyInv, PaymentsInv
    <3> QED
      BY <2>1, <3>1, NothingMoved
  <2>5. CASE pc # "new"
    BY <2>1, <2>3, <2>5 DEF FundsInv
  <2> QED
    BY <2>4, <2>5
<1> QED
  BY <1>1, FundsHold, MoneyInvHolds, PTL

(***************************************************************************)
(* Appearances                                                             *)
(***************************************************************************)
(* The parts of a transfer, one by one.                                    *)
PlaysIn(t, w) == IF w \in Spenders(t) \cup Recipients(t) THEN 1 ELSE 0

(* The nodes of a wallet still in the list, and those erased.              *)
Left(w)   == {n \in live : owner[n] = w}
Erased(w) == {n \in Nodes \ live : owner[n] = w}

(* One more transfer is one more appearance of its wallets.                *)
LEMMA AppearanceAppended ==
  ASSUME NEW ts \in Seq(Transfers), NEW t, NEW w
  PROVE  /\ Appearances(ts, w) \in Nat
         /\ Appearances(Append(ts, t), w) = Appearances(ts, w) + PlaysIn(t, w)
<1> DEFINE n == Len(ts)
           u == Append(ts, t)
           plays(x) == w \in Spenders(x) \cup Recipients(x)
           K == {k \in DOMAIN ts : plays(ts[k])}
           M == {k \in DOMAIN u : plays(u[k])}
<1>1. /\ n \in Nat /\ DOMAIN ts = 1..n /\ DOMAIN u = 1..(n + 1)
      /\ u[n + 1] = t /\ \A k \in 1..n : u[k] = ts[k]
  OBVIOUS
<1>2. Appearances(ts, w) = Cardinality(K) /\ Appearances(u, w) = Cardinality(M)
  BY DEF Appearances
<1>3. PlaysIn(t, w) = IF plays(t) THEN 1 ELSE 0
  BY DEF PlaysIn
<1> HIDE DEF u, plays, n
<1>4. M = IF plays(t) THEN K \cup {n + 1} ELSE K
  BY <1>1
<1>5. IsFiniteSet(K) /\ n + 1 \notin K
  <2>1. IsFiniteSet(1..n)
    BY <1>1, FS_Interval
  <2> QED
    BY <1>1, <2>1, FS_Subset
<1>6. Cardinality(K) \in Nat
  BY <1>5, FS_CardinalityType
<1>7. Cardinality(K \cup {n + 1}) = Cardinality(K) + 1
  BY <1>5, FS_AddElement
<1> HIDE DEF K, M
<1> QED
  BY <1>2, <1>3, <1>4, <1>6, <1>7 DEF u

(* Every wallet has TransfersPerWallet nodes.                              *)
LEMMA LeftAndErased ==
  ASSUME MoneyInv, NEW w \in Wallets
  PROVE  /\ IsFiniteSet(Left(w)) /\ IsFiniteSet(Erased(w))
         /\ Cardinality(Left(w)) \in Nat /\ Cardinality(Erased(w)) \in Nat
         /\ Cardinality(Left(w)) + Cardinality(Erased(w)) = TransfersPerWallet
<1>1. IsFiniteSet(Nodes) /\ live \subseteq Nodes
  BY Sizes DEF MoneyInv, IInv, TypeOK
<1>2. Left(w) \in SUBSET Nodes /\ Erased(w) \in SUBSET Nodes /\ Left(w) \cap Erased(w) = {}
  BY <1>1 DEF Left, Erased
<1>3. IsFiniteSet(Left(w)) /\ IsFiniteSet(Erased(w))
  BY <1>1, <1>2, FS_Subset
<1>4. Left(w) \cup Erased(w) = {n \in Nodes : owner[n] = w}
  BY <1>1 DEF Left, Erased
<1>5. Cardinality(Left(w) \cup Erased(w)) = TransfersPerWallet
  BY <1>4 DEF MoneyInv, PaymentsInv, Shuffles
<1>6. Cardinality(Left(w)) \in Nat /\ Cardinality(Erased(w)) \in Nat
  BY <1>3, FS_CardinalityType
<1>7. Cardinality(Left(w) \cap Erased(w)) = 0
  BY <1>2, FS_EmptySet
<1>8. Cardinality(Left(w) \cup Erased(w)) =
        Cardinality(Left(w)) + Cardinality(Erased(w)) - Cardinality(Left(w) \cap Erased(w))
  BY <1>3, FS_Union
<1> QED
  BY <1>3, <1>5, <1>6, <1>7, <1>8

(* Erasing the node under the cursor counts for the wallet that owned it.  *)
LEMMA EraseCounts ==
  ASSUME MoneyInv, cursor \in live, live' = live \ {cursor}, owner' = owner, NEW v \in Wallets
  PROVE  /\ Cardinality(Left(v))' = Cardinality(Left(v)) - (IF v = owner[cursor] THEN 1 ELSE 0)
         /\ Cardinality(Erased(v))' = Cardinality(Erased(v)) + (IF v = owner[cursor] THEN 1 ELSE 0)
<1>1. /\ IsFiniteSet(Left(v)) /\ IsFiniteSet(Erased(v))
      /\ Cardinality(Left(v)) \in Nat /\ Cardinality(Erased(v)) \in Nat
      /\ cursor \in Nodes
  BY LeftAndErased DEF MoneyInv, IInv, TypeOK
<1>2. CASE v = owner[cursor]
  <2>1. /\ Left(v)' = Left(v) \ {cursor} /\ cursor \in Left(v)
        /\ Erased(v)' = Erased(v) \cup {cursor} /\ cursor \notin Erased(v)
    BY <1>1, <1>2 DEF Left, Erased
  <2>2. Cardinality(Left(v) \ {cursor}) = Cardinality(Left(v)) - 1
    BY <1>1, <2>1, FS_RemoveElement
  <2>3. Cardinality(Erased(v) \cup {cursor}) = Cardinality(Erased(v)) + 1
    BY <1>1, <2>1, FS_AddElement
  <2> QED
    BY <1>2, <2>1, <2>2, <2>3
<1>3. CASE v # owner[cursor]
  <2>1. Left(v)' = Left(v) /\ Erased(v)' = Erased(v)
    BY <1>3 DEF Left, Erased
  <2> QED
    BY <1>1, <1>3, <2>1
<1> QED
  BY <1>2, <1>3

(* When no search is given up, every node erased from the list (generate() *)
(* lines 102 and 150) is a part its wallet plays in a transfer that        *)
(* is listed or being built, and no wallet plays a part without one.       *)
THEOREM AppearancesAreAccounted ==
  ASSUME NeverGivesUp
  PROVE  Spec => []AppearancesAccounted
<1>1. Init => AppearancesAccounted
  BY DEF Init, AppearancesAccounted
<1>2. ASSUME MoneyInv, MoneyInv', AppearancesAccounted, [Next]_vars
      PROVE  AppearancesAccounted'
  <2> SUFFICES ASSUME pc' # "new", NEW v \in Wallets
               PROVE  Appearances(AllParts, v)' + Cardinality(Left(v))' = TransfersPerWallet
    BY DEF AppearancesAccounted, Left
  <2>1. pc # "new" => Appearances(AllParts, v) + Cardinality(Left(v)) = TransfersPerWallet
    BY <1>2 DEF AppearancesAccounted, Left
  <2>2. /\ Current \in Transfers /\ transfers \in Seq(Transfers)
        /\ Current' \in Transfers /\ transfers' \in Seq(Transfers)
    BY <1>2, CurrentType
  <2>3. /\ Appearances(transfers, v) \in Nat
        /\ InFlight => Appearances(AllParts, v) = Appearances(transfers, v) + PlaysIn(Current, v)
        /\ InFlight' => Appearances(AllParts, v)' = Appearances(transfers', v) + PlaysIn(Current', v)
    <3>1. /\ Appearances(transfers, v) \in Nat
          /\ Appearances(Append(transfers, Current), v) = Appearances(transfers, v) + PlaysIn(Current, v)
      BY <2>2, AppearanceAppended
    <3>2. Appearances(Append(transfers', Current'), v) = Appearances(transfers', v) + PlaysIn(Current', v)
      BY <2>2, AppearanceAppended
    <3>3. /\ InFlight => AllParts = Append(transfers, Current)
          /\ InFlight' => AllParts' = Append(transfers', Current')
      BY DEF AllParts
    <3> QED
      BY <3>1, <3>2, <3>3
  <2>4. Cardinality(Left(v)) \in Nat
    BY <1>2, LeftAndErased
  <2>5. CASE Quiet
    BY <2>1, <2>5 DEF Quiet, AllParts, Current, Appearances, Left
  <2>6. CASE PushTransfer
    <3>1. AllParts' = AllParts /\ Left(v)' = Left(v) /\ pc # "new"
      BY <1>2, <2>6, PushTransferAppends DEF AllParts, Left
    <3> QED
      BY <2>1, <3>1 DEF Appearances
  <2>7. CASE StartTransfer
    <3>1. /\ ~InFlight /\ InFlight' /\ transfers' = transfers /\ pc # "new" /\ Left(v)' = Left(v)
          /\ senders' = <<>> /\ receivers' = <<>>
      BY <2>7 DEF StartTransfer, InFlight, Left
    <3>2. PlaysIn(Current', v) = 0
      BY <3>1 DEF PlaysIn, Spenders, Recipients, Current
    <3>3. AllParts = transfers
      BY <3>1 DEF AllParts
    <3> QED
      BY <2>1, <2>3, <3>1, <3>2, <3>3
  <2>8. CASE Prepare
    <3>1. AllParts' = <<>> /\ Left(v)' = {n \in Nodes : owner'[n] = v} /\ owner' \in Shuffles
      BY <1>2, <2>8 DEF Prepare, AllParts, InFlight, MoneyInv, PaymentsInv, Left
    <3>2. Cardinality(Left(v))' = TransfersPerWallet
      BY <3>1 DEF Shuffles
    <3>3. Appearances(AllParts, v)' = 0
      <4>1. {k \in DOMAIN AllParts' : v \in Spenders(AllParts'[k]) \cup Recipients(AllParts'[k])} = {}
        BY <3>1
      <4> QED
        BY <4>1, FS_EmptySet DEF Appearances
    <3> QED
      BY <3>2, <3>3, SizesAssumption
  <2>9. ASSUME NEW w \in Wallets, NEW c \in CoinsOf(w), Pays(w, c)
        PROVE  Appearances(AllParts, v)' + Cardinality(Left(v))' = TransfersPerWallet
    <3>1. /\ InFlight /\ InFlight' /\ pc # "new" /\ transfers' = transfers
          /\ receivers = <<>> /\ receivers' = <<>> /\ w \notin Spenders(Current)
      BY <1>2, <2>9 DEF Pays, InFlight, MoneyInv, PaymentsInv
    <3>2. Spenders(Current') = Spenders(Current) \cup {w}
      BY <2>9 DEF Pays, Spenders, Current
    <3>3. Recipients(Current) = {} /\ Recipients(Current') = {}
      BY <3>1 DEF Recipients, Current
    <3>4. PlaysIn(Current', v) = PlaysIn(Current, v) + (IF v = w THEN 1 ELSE 0)
      BY <3>1, <3>2, <3>3 DEF PlaysIn
    <3>5. Cardinality(Left(v))' = Cardinality(Left(v)) - (IF v = w THEN 1 ELSE 0)
      BY <1>2, <2>9, EraseCounts DEF Pays
    <3>6. PlaysIn(Current, v) \in Nat
      BY DEF PlaysIn
    <3> QED
      BY <2>1, <2>3, <2>4, <3>1, <3>4, <3>5, <3>6
  <2>10. ASSUME NEW w \in Wallets, Receives(w)
         PROVE  Appearances(AllParts, v)' + Cardinality(Left(v))' = TransfersPerWallet
    <3>1. /\ InFlight /\ InFlight' /\ pc # "new" /\ transfers' = transfers
          /\ w \notin Spenders(Current) /\ w \notin Recipients(Current)
      BY <2>10 DEF Receives, InFlight
    <3>2. Recipients(Current') = Recipients(Current) \cup {w}
      BY <2>10 DEF Receives, Recipients, Current
    <3>3. Spenders(Current') = Spenders(Current)
      BY <2>10 DEF Receives, Spenders, Current
    <3>4. PlaysIn(Current', v) = PlaysIn(Current, v) + (IF v = w THEN 1 ELSE 0)
      BY <3>1, <3>2, <3>3 DEF PlaysIn
    <3>5. Cardinality(Left(v))' = Cardinality(Left(v)) - (IF v = w THEN 1 ELSE 0)
      BY <1>2, <2>10, EraseCounts DEF Receives
    <3>6. PlaysIn(Current, v) \in Nat
      BY DEF PlaysIn
    <3> QED
      BY <2>1, <2>3, <2>4, <3>1, <3>4, <3>5, <3>6
  <2> QED
    BY <1>2, <2>5, <2>6, <2>7, <2>8, <2>9, <2>10, StepKinds, NoGivingUp DEF MoneyInv
<1> QED
  BY <1>1, <1>2, MoneyInvHolds, PTL DEF Spec

(***************************************************************************)
(* Enough funds                                                            *)
(***************************************************************************)
(* A wallet has paid Debit at most once for each of its erased nodes, and  *)
(* always a whole Debit from one coin.                                     *)
Spent(w) == [c \in CoinsOf(w) |-> CoinInitialValue - expected[<<w, c>>]]
SpendingInv ==
  pc # "new" =>
    \A w \in Wallets :
      /\ SumFunction(Spent(w)) <= Debit * Cardinality(Erased(w))
      /\ \A c \in CoinsOf(w) : \E k \in Nat : Spent(w)[c] = k * Debit

(* What a wallet has spent of each coin and of all.                        *)
LEMMA SpentType ==
  ASSUME MoneyInv, NEW w \in Wallets
  PROVE  /\ IsFiniteSet(CoinsOf(w)) /\ Spent(w) \in [CoinsOf(w) -> Int]
         /\ SumFunction(Spent(w)) \in Int
         /\ Cardinality(Erased(w)) \in Nat /\ Debit * Cardinality(Erased(w)) \in Nat
<1>1. IsFiniteSet(CoinsOf(w)) /\ CoinsOf(w) \subseteq Coins
  BY FiniteParts
<1>2. \A c \in CoinsOf(w) : expected[<<w, c>>] \in Nat
  BY <1>1, ExpectedTypes
<1>3. Spent(w) \in [CoinsOf(w) -> Int]
  BY <1>2, ValuesAssumption DEF Spent
<1>4. SumFunction(Spent(w)) \in Int
  BY <1>1, <1>3, SumFunctionType
<1>5. Cardinality(Erased(w)) \in Nat /\ Debit \in Nat
  BY LeftAndErased, AmountFacts
<1> QED
  BY <1>1, <1>3, <1>4, <1>5

(* A payment spends one more Debit for one more erased node.               *)
LEMMA PaySpends ==
  ASSUME MoneyInv, MoneyInv', SpendingInv, NEW w \in Wallets, NEW c \in CoinsOf(w), Pays(w, c)
  PROVE  /\ SumFunction(Spent(w))' <= Debit * Cardinality(Erased(w))'
         /\ \A d \in CoinsOf(w) : \E k \in Nat : Spent(w)'[d] = k * Debit
<1> DEFINE f == Spent(w)
           g == [d \in CoinsOf(w) |-> CoinInitialValue - expected'[<<w, d>>]]
           n == Cardinality(Erased(w))
<1>1. /\ IsFiniteSet(CoinsOf(w)) /\ CoinsOf(w) \subseteq Coins
      /\ \A d \in CoinsOf(w) : expected[<<w, d>>] \in Nat
      /\ CoinInitialValue \in Nat /\ Debit \in Nat
  BY FiniteParts, ExpectedTypes, ValuesAssumption, AmountFacts
<1>2. \A d \in CoinsOf(w) : expected'[<<w, d>>] = expected[<<w, d>>] - (IF d = c THEN Debit ELSE 0)
  BY <1>1, PaysMoves
<1>3. /\ f \in [CoinsOf(w) -> Int] /\ g \in [CoinsOf(w) -> Int]
      /\ g[c] = f[c] + Debit /\ \A d \in CoinsOf(w) \ {c} : g[d] = f[d]
  BY <1>1, <1>2 DEF Spent
<1>4. g = Spent(w)'
  BY DEF Spent
<1>5. pc # "new" /\ n \in Nat /\ SumFunction(f) \in Int
  BY SpentType DEF Pays
<1>6. SumFunction(f) <= Debit * n /\ \A d \in CoinsOf(w) : \E k \in Nat : f[d] = k * Debit
  BY <1>5 DEF SpendingInv
<1>7. Cardinality(Erased(w))' = n + 1
  BY EraseCounts DEF Pays
<1> HIDE DEF f, g, n
<1>8. SumFunction(g) = SumFunction(f) + (g[c] - f[c])
  BY <1>1, <1>3, SumChange
<1>9. SumFunction(g) <= Debit * (n + 1)
  <2>1. Debit * (n + 1) = Debit * n + Debit /\ Debit * n \in Nat
    BY <1>1, <1>5
  <2>2. g[c] - f[c] = Debit
    BY <1>1, <1>3
  <2> QED
    BY <1>1, <1>5, <1>6, <1>8, <2>1, <2>2
<1>10. ASSUME NEW d \in CoinsOf(w) PROVE \E k \in Nat : g[d] = k * Debit
  <2>1. PICK k \in Nat : f[d] = k * Debit
    BY <1>6
  <2>2. g[d] = IF d = c THEN k * Debit + Debit ELSE k * Debit
    BY <1>3, <2>1
  <2>3. k * Debit + Debit = (k + 1) * Debit /\ k + 1 \in Nat
    BY <1>1
  <2> QED
    BY <2>2, <2>3
<1> QED
  BY <1>4, <1>7, <1>9, <1>10

(* SpendingInv is kept by every step.                                      *)
LEMMA SpendingStep ==
  MoneyInv /\ MoneyInv' /\ WorthInv /\ SpendingInv /\ [Next]_vars => SpendingInv'
<1> SUFFICES ASSUME MoneyInv, MoneyInv', WorthInv, SpendingInv, [Next]_vars, pc' # "new",
                    NEW v \in Wallets
             PROVE  /\ SumFunction(Spent(v))' <= Debit * Cardinality(Erased(v))'
                    /\ \A d \in CoinsOf(v) : \E k \in Nat : Spent(v)'[d] = k * Debit
  BY DEF SpendingInv
<1>1. pc # "new" => /\ SumFunction(Spent(v)) <= Debit * Cardinality(Erased(v))
                    /\ \A d \in CoinsOf(v) : \E k \in Nat : Spent(v)[d] = k * Debit
  BY DEF SpendingInv
<1>2. /\ SumFunction(Spent(v)) \in Int /\ Debit \in Nat
      /\ Cardinality(Erased(v)) \in Nat /\ Debit * Cardinality(Erased(v)) \in Nat
  BY SpentType, AmountFacts
<1>3. CASE Quiet \/ StartTransfer \/ PushTransfer \/ GiveUp
  <2>1. expected' = expected /\ live' = live /\ owner' = owner /\ pc # "new"
    BY <1>3, OthersMoveNothing, GiveUpDrops
  <2>2. Spent(v)' = Spent(v) /\ Erased(v)' = Erased(v)
    BY <2>1 DEF Spent, Erased
  <2> QED
    BY <1>1, <2>1, <2>2
<1>4. CASE Prepare
  <2>1. expected' = Minted /\ live' = Nodes
    BY <1>4 DEF Prepare
  <2>2. Erased(v)' = {} /\ Cardinality(Erased(v)') = 0
    BY <2>1, FS_EmptySet DEF Erased
  <2>3. CoinsOf(v) \subseteq Coins /\ IsFiniteSet(CoinsOf(v)) /\ CoinInitialValue \in Nat
    BY FiniteParts, ValuesAssumption
  <2>4. \A d \in CoinsOf(v) : expected'[<<v, d>>] = CoinInitialValue
    BY <2>1, <2>3 DEF Minted
  <2>5. DOMAIN Spent(v)' = CoinsOf(v) /\ \A d \in CoinsOf(v) : Spent(v)'[d] = 0
    BY <2>3, <2>4 DEF Spent
  <2>6. SumFunction(Spent(v)') = 0
    BY <2>3, <2>5, SumOfNone
  <2>7. 0 = 0 * Debit /\ Debit * 0 = 0
    BY <1>2
  <2> QED
    BY <2>2, <2>5, <2>6, <2>7
<1>5. ASSUME NEW w \in Wallets, NEW c \in CoinsOf(w), Pays(w, c)
      PROVE  /\ SumFunction(Spent(v))' <= Debit * Cardinality(Erased(v))'
             /\ \A d \in CoinsOf(v) : \E k \in Nat : Spent(v)'[d] = k * Debit
  <2>1. CASE v = w
    BY <1>5, <2>1, PaySpends
  <2>2. CASE v # w
    <3>1. CoinsOf(v) \subseteq Coins
      BY FiniteParts
    <3>2. \A d \in CoinsOf(v) : expected'[<<v, d>>] = expected[<<v, d>>]
      BY <1>5, <2>2, <3>1, PaysMoves, ExpectedTypes
    <3>3. Spent(v)' = Spent(v)
      BY <3>2 DEF Spent
    <3>4. Cardinality(Erased(v))' = Cardinality(Erased(v)) /\ pc # "new"
      BY <1>2, <1>5, <2>2, EraseCounts DEF Pays
    <3> QED
      BY <1>1, <3>3, <3>4
  <2> QED
    BY <2>1, <2>2
<1>6. ASSUME NEW w \in Wallets, Receives(w)
      PROVE  /\ SumFunction(Spent(v))' <= Debit * Cardinality(Erased(v))'
             /\ \A d \in CoinsOf(v) : \E k \in Nat : Spent(v)'[d] = k * Debit
  <2>1. CoinsOf(v) \subseteq Coins
    BY FiniteParts
  <2>2. \A d \in CoinsOf(v) : ~(v = w /\ d \in SpentCoins(Current))
    BY <1>6, OwnCoinsAreNotReceived
  <2>3. \A d \in CoinsOf(v) : expected'[<<v, d>>] = expected[<<v, d>>]
    BY <1>6, <2>1, <2>2, ReceivesMoves, ExpectedTypes
  <2>4. Spent(v)' = Spent(v)
    BY <2>3 DEF Spent
  <2>5. pc # "new" /\ \/ Cardinality(Erased(v))' = Cardinality(Erased(v))
                      \/ Cardinality(Erased(v))' = Cardinality(Erased(v)) + 1
    BY <1>2, <1>6, EraseCounts DEF Receives
  <2>6. Debit * (Cardinality(Erased(v)) + 1) = Debit * Cardinality(Erased(v)) + Debit
    BY <1>2
  <2> QED
    BY <1>1, <1>2, <2>4, <2>5, <2>6
<1> QED
  BY <1>3, <1>4, <1>5, <1>6, StepKinds

(* A wallet has CoinsPerWallet coins.                                      *)
LEMMA CoinCount ==
  ASSUME NEW w \in Wallets
  PROVE  Cardinality(CoinsOf(w)) = CoinsPerWallet
<1> DEFINE a == w * CoinsPerWallet
           b == NumWallets * CoinsPerWallet
<1>1. /\ NumWallets \in Nat /\ CoinsPerWallet \in Nat /\ w \in Nat /\ w + 1 <= NumWallets
  BY SizesAssumption DEF Wallets
<1>2. \A x, y, z \in Nat : x <= y => x * z <= y * z
  OBVIOUS
<1>3. (w + 1) * CoinsPerWallet = a + CoinsPerWallet /\ a \in Nat /\ b \in Nat
  BY <1>1
<1>4. a + CoinsPerWallet <= b
  BY <1>1, <1>2, <1>3
<1> HIDE DEF a, b
<1>5. {c \in 0..(b - 1) : a <= c /\ c < a + CoinsPerWallet} = a..(a + CoinsPerWallet - 1)
  BY <1>1, <1>3, <1>4
<1>6. CoinsOf(w) = a..(a + CoinsPerWallet - 1)
  BY <1>3, <1>5 DEF CoinsOf, Coins, a, b
<1>7. Cardinality(a..(a + CoinsPerWallet - 1)) = CoinsPerWallet
  BY <1>1, <1>3, FS_Interval
<1> QED
  BY <1>6, <1>7

(* When no coin of a wallet is worth Debit any more, it has spent what     *)
(* EnoughFunds counts on.                                                  *)
LEMMA SpentOut ==
  ASSUME MoneyInv, NEW w \in Wallets, Debit > 0,
         \A c \in CoinsOf(w) : expected[<<w, c>>] < Debit,
         \A c \in CoinsOf(w) : \E k \in Nat : Spent(w)[c] = k * Debit
  PROVE  CoinsPerWallet * (CoinInitialValue \div Debit) * Debit <= SumFunction(Spent(w))
<1> DEFINE q == CoinInitialValue \div Debit
           all == [c \in CoinsOf(w) |-> q * Debit]
<1>1. Debit \in Nat /\ CoinInitialValue \in Nat /\ CoinsPerWallet \in Nat
  BY AmountFacts, ValuesAssumption, SizesAssumption
<1>2. \A x, y \in Nat : y > 0 => x \div y \in Nat /\ (x \div y) * y <= x
  OBVIOUS
<1>3. q \in Nat /\ q * Debit <= CoinInitialValue /\ q * Debit \in Nat
  BY <1>1, <1>2
<1> HIDE DEF q
<1>4. ASSUME NEW c \in CoinsOf(w) PROVE q * Debit <= Spent(w)[c]
  <2>1. PICK k \in Nat : Spent(w)[c] = k * Debit
    OBVIOUS
  <2>2. Spent(w)[c] = CoinInitialValue - expected[<<w, c>>] /\ expected[<<w, c>>] \in Nat
    BY ExpectedTypes, FiniteParts DEF Spent
  <2>3. CoinInitialValue - k * Debit < Debit
    BY <1>1, <2>1, <2>2
  <2>4. \A x, y, z \in Nat : x <= y => x * z <= y * z
    OBVIOUS
  <2>5. CASE k + 1 <= q
    <3>1. (k + 1) * Debit <= q * Debit /\ (k + 1) * Debit = k * Debit + Debit /\ k * Debit \in Nat
      BY <1>1, <1>3, <2>4, <2>5
    <3> QED
      BY <1>1, <1>3, <2>3, <3>1
  <2>6. CASE q <= k
    BY <1>1, <1>3, <2>1, <2>4, <2>6
  <2> QED
    BY <1>3, <2>5, <2>6
<1>5. IsFiniteSet(CoinsOf(w)) /\ Spent(w) \in [CoinsOf(w) -> Int]
  BY SpentType
<1>6. \A c \in CoinsOf(w) : all[c] = q * Debit
  OBVIOUS
<1> HIDE DEF all
<1>7. SumFunctionOnSet(all, CoinsOf(w)) = q * Debit * CoinsPerWallet
  BY <1>3, <1>5, <1>6, CoinCount, SumConstant
<1>8. \A c \in CoinsOf(w) : all[c] \in Int /\ Spent(w)[c] \in Int /\ all[c] <= Spent(w)[c]
  BY <1>3, <1>4, <1>5, <1>6
<1>9. SumFunctionOnSet(all, CoinsOf(w)) <= SumFunctionOnSet(Spent(w), CoinsOf(w))
  BY <1>5, <1>8, SumMonotonic
<1>10. SumFunction(Spent(w)) = SumFunctionOnSet(Spent(w), CoinsOf(w))
  BY <1>5 DEF SumFunction
<1>11. \A x, y, z \in Nat : x * y * z = y * z * x
  OBVIOUS
<1>12. CoinsPerWallet * q * Debit = q * Debit * CoinsPerWallet
  BY <1>1, <1>3, <1>11
<1> QED
  BY <1>7, <1>9, <1>10, <1>12 DEF q

(* A wallet that is about to pay has a coin left that can.                 *)
LEMMA SomeCoinAffordable ==
  ASSUME MoneyInv, SpendingInv, EnoughFunds, TransferValuePerWallet > 0 \/ CoinsPerWallet > 0
  PROVE  ~NotEnoughFunds
<1> SUFFICES ASSUME NotEnoughFunds PROVE FALSE
  OBVIOUS
<1> DEFINE w == owner[cursor]
           n == Cardinality(Erased(w))
<1>1. pc = "senders" /\ Affordable(w) = {}
  BY DEF NotEnoughFunds, PickingSender
<1>2. w \in Wallets /\ cursor \in live
  BY IInvImpliesCursorLive DEF MoneyInv, IInv, TypeOK, CursorLive, NotEnoughFunds, Picking
<1>3. CoinsOf(w) \subseteq Coins /\ \A c \in CoinsOf(w) : expected[<<w, c>>] \in Nat
  BY <1>2, FiniteParts, ExpectedTypes
<1>4. Debit \in Nat /\ CoinsPerWallet \in Nat /\ TransfersPerWallet \in Nat
  BY AmountFacts, SizesAssumption
<1>5. \A c \in CoinsOf(w) : expected[<<w, c>>] < Debit
  BY <1>1, <1>3, <1>4 DEF Affordable, Debit
<1>6. Debit > 0
  <2> SUFFICES ASSUME Debit = 0 PROVE FALSE
    BY <1>4
  <2>1. CoinsOf(w) = {}
    <3>1. ASSUME NEW c \in CoinsOf(w) PROVE FALSE
      <4>1. expected[<<w, c>>] \in Nat /\ expected[<<w, c>>] < 0
        BY <1>3, <1>5
      <4> QED
        BY <4>1
    <3> QED
      BY <3>1
  <2>2. CoinsPerWallet = 0
    BY <1>2, <2>1, CoinCount, FS_EmptySet
  <2> QED
    BY <2>2 DEF Debit
<1>7. /\ SumFunction(Spent(w)) <= Debit * n /\ SumFunction(Spent(w)) \in Int /\ Debit * n \in Nat
      /\ \A c \in CoinsOf(w) : \E k \in Nat : Spent(w)[c] = k * Debit
  BY <1>1, <1>2, SpentType DEF SpendingInv
<1>8. n \in Nat /\ n + 1 <= TransfersPerWallet
  <2>1. cursor \in Left(w)
    BY <1>2 DEF Left
  <2>2. IsFiniteSet(Left(w)) /\ Cardinality(Left(w)) \in Nat /\ n \in Nat
        /\ Cardinality(Left(w)) + n = TransfersPerWallet
    BY <1>2, LeftAndErased
  <2>3. Cardinality(Left(w)) # 0
    BY <2>1, <2>2, FS_EmptySet
  <2> HIDE DEF w, n
  <2> QED
    BY <1>4, <2>2, <2>3
<1>9. CoinsPerWallet * (CoinInitialValue \div Debit) * Debit <= SumFunction(Spent(w))
  BY <1>2, <1>5, <1>6, <1>7, SpentOut
<1>10. CoinInitialValue \div Debit \in Nat
  BY <1>4, <1>6, ValuesAssumption
<1> DEFINE m == CoinsPerWallet * (CoinInitialValue \div Debit)
<1>11. m \in Nat /\ TransfersPerWallet <= m
  BY <1>4, <1>10 DEF EnoughFunds, Debit
<1> HIDE DEF w, n, m
<1>12. (n + 1) * Debit <= m * Debit
  <2>1. \A x, y, z \in Nat : x <= y => x * z <= y * z
    OBVIOUS
  <2>2. n + 1 <= m
    BY <1>4, <1>8, <1>11
  <2> QED
    BY <1>4, <1>8, <1>11, <2>1, <2>2
<1>13. (n + 1) * Debit = Debit * n + Debit /\ m * Debit \in Nat
  BY <1>4, <1>8, <1>11
<1>14. m * Debit <= SumFunction(Spent(w))
  BY <1>9 DEF m
<1> QED
  BY <1>4, <1>6, <1>7, <1>12, <1>13, <1>14

(* With enough coins for a wallet to be a sender every time it appears,    *)
(* generate() never throws (lines 98-100), even when searches are given up *)
(* and their payments lost.  EnoughFunds has no meaning when nothing is    *)
(* paid and there are no coins.                                            *)
THEOREM FundsSuffice ==
  ASSUME TransferValuePerWallet > 0 \/ CoinsPerWallet > 0
  PROVE  Spec => []NeverShortOfFunds
<1>1. Init => NeverShortOfFunds /\ SpendingInv
  BY DEF Init, NeverShortOfFunds, SpendingInv
<1>2. ASSUME MoneyInv, SpendingInv, NeverShortOfFunds, [Next]_vars
      PROVE  NeverShortOfFunds'
  <2> SUFFICES ASSUME EnoughFunds, pc' = "failed" PROVE FALSE
    BY DEF NeverShortOfFunds, EnoughFunds
  <2>1. pc # "failed"
    BY <1>2 DEF NeverShortOfFunds
  <2>2. ~NotEnoughFunds
    BY <1>2, SomeCoinAffordable
  <2> QED
    BY <1>2, <2>1, <2>2 DEF Next, vars, Prepare, StartTransfer, SkipPicked, GiveUp, PickSender,
       PickingSender, SendersPicked, PickReceiver, PickingReceiver, PushTransfer, Finish, Returned
<1> QED
  BY <1>1, <1>2, SpendingStep, WorthHolds, MoneyInvHolds, PTL DEF Spec

(***************************************************************************)
(* The ledger                                                              *)
(***************************************************************************)
(* A transfer takes Debit from each account it spends, and gives ValueIn   *)
(* of every spent coin to each of its recipients: no wallet is a recipient *)
(* twice.                                                                  *)
Spent1(w, c) == IF <<w, c>> \in LedgerTransfer(Current).from THEN Debit ELSE 0
Got1(w, c)   == IF w \in Recipients(Current) /\ c \in SpentCoins(Current) THEN ValueIn ELSE 0

(* What a whole transfer takes from an account.                            *)
LEMMA PaidOnce ==
  ASSUME MoneyInv, InFlight, NEW w, NEW c
  PROVE  PaidIn(Current, w, c) = Spent1(w, c)
<1> DEFINE D == DOMAIN senders
           f == [i \in D |-> IF senders[i].wallet = w /\ senders[i].coin = c THEN senders[i].value ELSE 0]
<1>1. IsFiniteSet(D) /\ Debit \in Nat
  BY ExpectedTypes, AmountFacts
<1>2. \A i \in D : f[i] = IF senders[i].wallet = w /\ senders[i].coin = c THEN Debit ELSE 0
  BY DEF MoneyInv, PaymentsInv
<1>3. DOMAIN f = D /\ f \in [D -> Int]
  BY <1>1, <1>2
<1>4. PaidIn(Current, w, c) = SumFunction(f)
  BY DEF PaidIn, Current
<1>5. <<w, c>> \in LedgerTransfer(Current).from <=>
        \E i \in D : senders[i].wallet = w /\ senders[i].coin = c
  BY DEF LedgerTransfer, Current
<1> HIDE DEF f
<1>6. CASE \E i \in D : senders[i].wallet = w /\ senders[i].coin = c
  <2>1. PICK i \in D : senders[i].wallet = w /\ senders[i].coin = c
    BY <1>6
  <2>2. \A j \in D : senders[j].coin = c => j = i
    BY <2>1 DEF MoneyInv, PaymentsInv
  <2>3. f[i] = Debit /\ \A j \in D \ {i} : f[j] = 0
    BY <1>2, <2>1, <2>2
  <2> HIDE DEF D
  <2>4. SumFunction(f) = f[i]
    BY <1>1, <1>3, <2>3, SumOfOne
  <2> QED
    BY <1>4, <1>5, <1>6, <2>3, <2>4 DEF Spent1
<1>7. CASE ~\E i \in D : senders[i].wallet = w /\ senders[i].coin = c
  <2>1. \A i \in D : f[i] = 0
    BY <1>2, <1>7
  <2> HIDE DEF D
  <2>2. SumFunction(f) = 0
    BY <1>1, <1>3, <2>1, SumOfNone
  <2> QED
    BY <1>4, <1>5, <1>7, <2>2 DEF Spent1
<1> QED
  BY <1>6, <1>7

(* No wallet is a recipient twice.                                         *)
LEMMA ReceiversDiffer ==
  ASSUME MoneyInv, pc = "receivers"
  PROVE  \A i, j \in DOMAIN receivers : receivers[i].wallet = receivers[j].wallet => i = j
<1> DEFINE D == DOMAIN receivers
           f == [i \in D |-> receivers[i].wallet]
           T == Recipients(Current)
<1>1. T = {receivers[i].wallet : i \in D}
  BY DEF Recipients, Current
<1>2. f \in Surjection(D, T)
  BY <1>1 DEF Surjection
<1>3. IsFiniteSet(D) /\ Cardinality(D) = Len(receivers)
  <2>1. D = 1..Len(receivers) /\ Len(receivers) \in Nat
    BY ExpectedTypes
  <2>2. \A n \in Nat : IsFiniteSet(1..n) /\ Cardinality(1..n) = n
    BY FS_Interval
  <2> HIDE DEF D
  <2> QED
    BY <2>1, <2>2
<1>4. Cardinality(T) = Cardinality(D)
  BY <1>3 DEF MoneyInv, PartsInv
<1>5. f \in Injection(D, T)
  BY <1>2, <1>3, <1>4, FS_Surjection
<1>6. \A i, j \in D : f[i] = f[j] => i = j
  BY <1>5 DEF Injection, IsInjective
<1> QED
  BY <1>6

(* What a whole transfer gives to an account.                              *)
LEMMA ReceivedOnce ==
  ASSUME MoneyInv, pc = "receivers", NEW w, NEW c
  PROVE  ReceivedIn(Current, w, c) = Got1(w, c)
<1> DEFINE D == DOMAIN receivers
           share == IF c \in SpentCoins(Current) THEN ValueIn ELSE 0
           f == [i \in D |-> IF receivers[i].wallet = w THEN ShareOf(receivers[i].coins, c) ELSE 0]
<1>1. InFlight /\ IsFiniteSet(D) /\ share \in Nat
  BY ExpectedTypes, AmountFacts DEF InFlight
<1>2. ASSUME NEW i \in D
      PROVE  f[i] = IF receivers[i].wallet = w THEN share ELSE 0
  <2>1. ReceiversPerTransfer > 0
    <3>1. i \in 1..Len(receivers) /\ Len(receivers) <= ReceiversPerTransfer /\ Len(receivers) \in Nat
      BY ExpectedTypes DEF MoneyInv, IInv, ListInv
    <3> QED
      BY <3>1, SizesAssumption
  <2> QED
    BY <1>1, <2>1, ShareIs DEF MoneyInv, PaymentsInv
<1> HIDE DEF share
<1>3. DOMAIN f = D /\ f \in [D -> Int]
  BY <1>1, <1>2
<1>4. ReceivedIn(Current, w, c) = SumFunction(f)
  BY DEF ReceivedIn, Current
<1>5. w \in Recipients(Current) <=> \E i \in D : receivers[i].wallet = w
  BY DEF Recipients, Current
<1> HIDE DEF f
<1>6. CASE w \in Recipients(Current)
  <2>1. PICK i \in D : receivers[i].wallet = w
    BY <1>5, <1>6
  <2>2. f[i] = share /\ \A j \in D \ {i} : f[j] = 0
    BY <1>2, <2>1, ReceiversDiffer
  <2> HIDE DEF D
  <2>3. SumFunction(f) = f[i]
    BY <1>1, <1>3, <2>2, SumOfOne
  <2> QED
    BY <1>4, <1>6, <2>2, <2>3 DEF Got1, share
<1>7. CASE w \notin Recipients(Current)
  <2>1. \A i \in D : f[i] = 0
    BY <1>2, <1>5, <1>7
  <2> HIDE DEF D
  <2>2. SumFunction(f) = 0
    BY <1>1, <1>3, <2>1, SumOfNone
  <2> QED
    BY <1>4, <1>7, <2>2 DEF Got1
<1> QED
  BY <1>6, <1>7

(* A spent coin is spent from one account.                                 *)
LEMMA SpentAccounts ==
  ASSUME MoneyInv, InFlight, NEW c
  PROVE  Cardinality({p \in LedgerTransfer(Current).from : p[2] = c}) =
           IF c \in SpentCoins(Current) THEN 1 ELSE 0
<1> DEFINE D == DOMAIN senders
           P == {p \in LedgerTransfer(Current).from : p[2] = c}
<1>1. LedgerTransfer(Current).from = {<<senders[i].wallet, senders[i].coin>> : i \in D}
  BY DEF LedgerTransfer, Current
<1>2. \A p \in P : \E i \in D : p = <<senders[i].wallet, senders[i].coin>> /\ senders[i].coin = c
  BY <1>1
<1>3. CASE c \in SpentCoins(Current)
  <2>1. PICK i \in D : senders[i].coin = c /\ \A j \in D : senders[j].coin = c => j = i
    BY <1>3, SpenderOfCoin
  <2>2. P = {<<senders[i].wallet, senders[i].coin>>}
    BY <1>1, <1>2, <2>1
  <2> HIDE DEF P
  <2> QED
    BY <1>3, <2>2, FS_Singleton DEF P
<1>4. CASE c \notin SpentCoins(Current)
  <2>1. P = {}
    BY <1>2, <1>4, SpenderOfCoin
  <2> HIDE DEF P
  <2> QED
    BY <1>4, <2>1, FS_EmptySet DEF P
<1> QED
  BY <1>3, <1>4

(* What the ledger holds, before and after a step.                         *)
LEMMA SettledIs ==
  ASSUME MoneyInv, MoneyInv', NEW v \in Wallets, NEW d \in Coins
  PROVE  /\ Settled[<<v, d>>] =
              IF pc = "new" THEN Minted[<<v, d>>]
              ELSE IF ~InFlight THEN expected[<<v, d>>]
              ELSE expected[<<v, d>>] + PaidIn(Current, v, d) - ReceivedIn(Current, v, d)
         /\ Settled'[<<v, d>>] =
              IF pc' = "new" THEN Minted[<<v, d>>]
              ELSE IF ~InFlight' THEN expected'[<<v, d>>]
              ELSE expected'[<<v, d>>] + PaidIn(Current', v, d) - ReceivedIn(Current', v, d)
<1>1. ASSUME NEW t \in Transfers
      PROVE  Paid(<<t>>, v, d) = PaidIn(t, v, d) /\ Got(<<t>>, v, d) = ReceivedIn(t, v, d)
  <2>1. <<>> \in Seq(Transfers) /\ Append(<<>>, t) = <<t>>
    OBVIOUS
  <2>4. PICK e : e = <<>>
    OBVIOUS
  <2>5. e \in Seq(Transfers) /\ Append(e, t) = <<t>>
    BY <2>1, <2>4
  <2>6. /\ Paid(Append(e, t), v, d) = Paid(e, v, d) + PaidIn(t, v, d)
        /\ Got(Append(e, t), v, d) = Got(e, v, d) + ReceivedIn(t, v, d)
    BY <2>5, TransferAppended, ZenonT(60)
  <2>2. Paid(<<t>>, v, d) = Paid(<<>>, v, d) + PaidIn(t, v, d)
    BY <2>4, <2>5, <2>6
  <2>3. Got(<<t>>, v, d) = Got(<<>>, v, d) + ReceivedIn(t, v, d)
    BY <2>4, <2>5, <2>6
  <2> QED
    BY <2>2, <2>3, NothingMoved, MovedType
<1>2. Current \in Transfers /\ Current' \in Transfers
  BY CurrentType
<1>3. /\ Paid(<<Current>>, v, d) = PaidIn(Current, v, d)
      /\ Got(<<Current>>, v, d) = ReceivedIn(Current, v, d)
      /\ Paid(<<Current'>>, v, d) = PaidIn(Current', v, d)
      /\ Got(<<Current'>>, v, d) = ReceivedIn(Current', v, d)
  BY <1>1, <1>2
<1>4. Settled[<<v, d>>] = IF pc = "new" THEN Minted[<<v, d>>]
                          ELSE IF ~InFlight THEN expected[<<v, d>>]
                          ELSE expected[<<v, d>>] + Paid(<<Current>>, v, d) - Got(<<Current>>, v, d)
  BY DEF Settled
<1>5. Settled'[<<v, d>>] = IF pc' = "new" THEN Minted[<<v, d>>]
                           ELSE IF ~InFlight' THEN expected'[<<v, d>>]
                           ELSE expected'[<<v, d>>] + Paid(<<Current'>>, v, d) - Got(<<Current'>>, v, d)
  BY DEF Settled
<1> QED
  BY <1>3, <1>4, <1>5

(* Every step but PushTransfer leaves the ledger as it is.                 *)
LEMMA SettledStays ==
  ASSUME NeverGivesUp, MoneyInv, MoneyInv', WorthInv, [Next]_vars, ~PushTransfer
  PROVE  Settled' = Settled /\ transfers' = transfers
<1>1. ASSUME NEW v \in Wallets, NEW d \in Coins
      PROVE  Settled'[<<v, d>>] = Settled[<<v, d>>] /\ transfers' = transfers
  <2>1. /\ expected[<<v, d>>] \in Nat /\ PaidIn(Current, v, d) \in Nat
        /\ ReceivedIn(Current, v, d) \in Nat /\ Debit \in Nat /\ ValueIn \in Nat
    BY ExpectedTypes, AllPartsMove, AmountFacts
  <2>2. CASE Quiet
    BY <2>2, SettledIs DEF Quiet, Current
  <2>3. CASE Prepare
    <3>1. pc = "new" /\ pc' # "new" /\ ~InFlight' /\ expected' = Minted /\ transfers' = transfers
      BY <2>3 DEF Prepare, InFlight
    <3> QED
      BY <3>1, SettledIs
  <2>4. CASE StartTransfer
    <3>1. /\ ~InFlight /\ InFlight' /\ transfers' = transfers /\ expected' = expected
          /\ Current' = [senders |-> <<>>, receivers |-> <<>>] /\ pc # "new" /\ pc' # "new"
      BY <2>4 DEF StartTransfer, InFlight, Current
    <3>2. PaidIn(Current', v, d) = 0 /\ ReceivedIn(Current', v, d) = 0
      BY <3>1, NothingMoved
    <3> QED
      BY <2>1, <3>1, <3>2, SettledIs
  <2>5. ASSUME NEW w \in Wallets, NEW c \in CoinsOf(w), Pays(w, c)
        PROVE  Settled'[<<v, d>>] = Settled[<<v, d>>] /\ transfers' = transfers
    <3>1. pc # "new" /\ pc' # "new"
      BY <2>5 DEF Pays
    <3> QED
      BY <2>1, <2>5, <3>1, PaysMoves, SettledIs
  <2>6. ASSUME NEW w \in Wallets, Receives(w)
        PROVE  Settled'[<<v, d>>] = Settled[<<v, d>>] /\ transfers' = transfers
    <3>1. pc # "new" /\ pc' # "new"
      BY <2>6 DEF Receives
    <3> QED
      BY <2>1, <2>6, <3>1, ReceivesMoves, SettledIs
  <2> QED
    BY <2>2, <2>3, <2>4, <2>5, <2>6, StepKinds, NoGivingUp DEF MoneyInv
<1>2. transfers' = transfers
  BY DEF Next, vars, Prepare, StartTransfer, SkipPicked, GiveUp, PickSender, NotEnoughFunds,
     SendersPicked, PickReceiver, Finish, Returned
<1>3. Settled = [a \in Wallets \X Coins |-> Settled[a]]
  BY DEF Settled
<1>4. Settled' = [a \in Wallets \X Coins |-> Settled'[a]]
  BY DEF Settled
<1>5. \A a \in Wallets \X Coins : Settled'[a] = Settled[a]
  BY <1>1
<1> QED
  BY <1>2, <1>3, <1>4, <1>5

(* An element of a sequence.                                               *)
LEMMA InSequence ==
  ASSUME NEW S, NEW q \in Seq(S), NEW j \in DOMAIN q
  PROVE  q[j] \in S
OBVIOUS

(* A sequence is a function.                                               *)
LEMMA SequenceIsFunction ==
  ASSUME NEW S, NEW q \in Seq(S)
  PROVE  q = [k \in DOMAIN q |-> q[k]]
<1>1. q \in [1..Len(q) -> S]
  OBVIOUS
<1> QED
  BY <1>1

(* The ledger's library operators are those used here.                     *)
LEMMA SameOperators ==
  /\ \A S : Ledger!Cardinality(S) = Cardinality(S)
  /\ \A f : Ledger!Range(f) = Range(f)
<1>1. \A S : Ledger!Cardinality(S) = Cardinality(S)
  BY DEF Ledger!Cardinality, Cardinality
<1>2. \A f : Ledger!Range(f) = Range(f)
  BY DEF Ledger!Range, Range
<1> QED
  BY <1>1, <1>2

(* PushTransfer executes the transfer it appends.                          *)
LEMMA PushExecutes ==
  ASSUME MoneyInv, MoneyInv', PushTransfer
  PROVE  Ledger!Next
<1> DEFINE t    == LedgerTransfer(Current)
           acct == [i \in 1..SendersPerTransfer |-> <<senders[i].wallet, senders[i].coin>>]
           dest == [i \in 1..ReceiversPerTransfer |-> receivers[i].wallet]
<1>1. /\ transfers' = Append(transfers, Current) /\ expected' = expected
      /\ pc = "receivers" /\ pc' = "next" /\ InFlight /\ ~InFlight'
      /\ Len(receivers) = ReceiversPerTransfer /\ Len(senders) = SendersPerTransfer
  BY PushTransferAppends DEF MoneyInv, PartsInv
<1>2. /\ DOMAIN senders = 1..SendersPerTransfer /\ DOMAIN receivers = 1..ReceiversPerTransfer
      /\ senders \in Seq(Payments) /\ receivers \in Seq(Receipts)
  BY <1>1, ExpectedTypes DEF MoneyInv, IInv, TypeOK
<1>3. /\ \A i \in 1..SendersPerTransfer : senders[i].wallet \in Wallets /\ senders[i].coin \in Coins
      /\ \A i \in 1..ReceiversPerTransfer : receivers[i].wallet \in Wallets
  <2>1. \A i \in DOMAIN senders : senders[i] \in Payments
    BY <1>2, InSequence
  <2>2. \A i \in DOMAIN receivers : receivers[i] \in Receipts
    BY <1>2, InSequence
  <2> QED
    BY <1>2, <2>1, <2>2 DEF Payments, Receipts
<1>4. /\ acct \in [1..SendersPerTransfer -> Wallets \X Coins]
      /\ dest \in [1..ReceiversPerTransfer -> Wallets]
  BY <1>3
<1>5. t.from = Range(acct) /\ t.to = Range(dest) /\ t.to = Recipients(Current)
  BY <1>2 DEF LedgerTransfer, Recipients, Current, Range
<1>6. t = [from |-> t.from, to |-> t.to]
  BY DEF LedgerTransfer
<1>7. {a[1] : a \in t.from} = Spenders(Current)
  <2>1. t.from = {<<senders[i].wallet, senders[i].coin>> : i \in DOMAIN senders}
    BY DEF LedgerTransfer, Current
  <2>2. Spenders(Current) = {senders[i].wallet : i \in DOMAIN senders}
    BY DEF Spenders, Current
  <2>3. \A x : x \in {a[1] : a \in t.from} <=> \E i \in DOMAIN senders : x = senders[i].wallet
    <3> HIDE DEF t
    <3>1. ASSUME NEW i \in DOMAIN senders PROVE senders[i].wallet \in {a[1] : a \in t.from}
      <4>1. <<senders[i].wallet, senders[i].coin>> \in t.from
        BY <2>1
      <4>2. <<senders[i].wallet, senders[i].coin>>[1] = senders[i].wallet
        OBVIOUS
      <4> QED
        BY <4>1, <4>2
    <3>2. ASSUME NEW a \in t.from PROVE \E i \in DOMAIN senders : a[1] = senders[i].wallet
      BY <2>1
    <3> QED
      BY <3>1, <3>2
  <2> HIDE DEF t
  <2> QED
    BY <2>2, <2>3
<1>8. /\ Cardinality({a[1] : a \in t.from}) = SendersPerTransfer
      /\ Cardinality(t.to) = ReceiversPerTransfer
      /\ t.to \cap {a[1] : a \in t.from} = {}
  BY <1>1, <1>5, <1>7 DEF MoneyInv, PartsInv
<1>9. ASSUME NEW v \in Wallets, NEW d \in Coins
      PROVE  /\ Settled[<<v, d>>] = expected[<<v, d>>] + Spent1(v, d) - Got1(v, d)
             /\ Settled'[<<v, d>>] = expected[<<v, d>>]
             /\ expected[<<v, d>>] \in Nat /\ Spent1(v, d) \in Nat /\ Got1(v, d) \in Nat
  <2>1. Spent1(v, d) \in Nat /\ Got1(v, d) \in Nat /\ expected[<<v, d>>] \in Nat
    BY AmountFacts, ExpectedTypes DEF Spent1, Got1
  <2> QED
    BY <1>1, <2>1, SettledIs, PaidOnce, ReceivedOnce
<1>10. ASSUME NEW a \in t.from PROVE Settled[a] >= TransferValuePerWallet
  <2>1. PICK i \in 1..SendersPerTransfer : a = <<senders[i].wallet, senders[i].coin>>
    BY <1>2 DEF LedgerTransfer, Current
  <2>2. senders[i].wallet \in Spenders(Current)
    BY <1>2 DEF Spenders, Current
  <2>3. senders[i].wallet \notin Recipients(Current)
    BY <1>1, <2>2 DEF MoneyInv, PartsInv
  <2>4. Got1(senders[i].wallet, senders[i].coin) = 0 /\ Spent1(senders[i].wallet, senders[i].coin) = Debit
    BY <2>1, <2>3 DEF Got1, Spent1
  <2>5. Debit \in Nat
    BY AmountFacts
  <2> QED
    BY <1>3, <1>9, <2>1, <2>4, <2>5 DEF Debit
<1>11. Settled' = Ledger!After(Settled, t.from, t.to)
  <2> DEFINE after == Ledger!After(Settled, t.from, t.to)
  <2>1. ASSUME NEW v \in Wallets, NEW d \in Coins
        PROVE  after[<<v, d>>] = Settled'[<<v, d>>]
    <3>1. Cardinality({p \in t.from : p[2] = d}) = IF d \in SpentCoins(Current) THEN 1 ELSE 0
      BY <1>1, SpentAccounts
    <3>2. after[<<v, d>>] = Settled[<<v, d>>] - (IF <<v, d>> \in t.from THEN TransferValuePerWallet ELSE 0)
                           + (IF v \in t.to
                              THEN ValueIn * Cardinality({p \in t.from : p[2] = d}) ELSE 0)
      BY SameOperators DEF Ledger!After, Ledger!Accounts
    <3>3. (IF <<v, d>> \in t.from THEN TransferValuePerWallet ELSE 0) = Spent1(v, d)
      BY DEF Spent1, Debit
    <3>4. ValueIn * 1 = ValueIn /\ ValueIn * 0 = 0
      BY AmountFacts
    <3>5. (IF v \in t.to THEN ValueIn * Cardinality({p \in t.from : p[2] = d}) ELSE 0) = Got1(v, d)
      BY <1>5, <3>1, <3>4 DEF Got1
    <3> HIDE DEF after, t
    <3> QED
      BY <1>9, <3>2, <3>3, <3>5
  <2>3. Settled' = [a \in Wallets \X Coins |-> Settled'[a]]
    BY DEF Settled
  <2>4. after = [a \in Wallets \X Coins |-> after[a]]
    BY DEF Ledger!After, Ledger!Accounts
  <2> HIDE DEF after
  <2>5. \A a \in Wallets \X Coins : after[a] = Settled'[a]
    BY <2>1
  <2>6. after = Settled'
    BY <2>3, <2>4, <2>5
  <2> QED
    BY <2>6 DEF after
<1>12. [k \in DOMAIN transfers' |-> LedgerTransfer(transfers'[k])] =
         Append([k \in DOMAIN transfers |-> LedgerTransfer(transfers[k])], t)
  <2> DEFINE n == Len(transfers)
             lt(x) == LedgerTransfer(x)
             old == [k \in DOMAIN transfers |-> lt(transfers[k])]
             new == [k \in DOMAIN transfers' |-> lt(transfers'[k])]
  <2>1. transfers \in Seq(Transfers)
    BY CurrentType
  <2>2. /\ n \in Nat /\ DOMAIN transfers = 1..n /\ DOMAIN transfers' = 1..(n + 1)
        /\ transfers'[n + 1] = Current /\ \A k \in 1..n : transfers'[k] = transfers[k]
    BY <1>1, <2>1
  <2>3. t = lt(Current)
    OBVIOUS
  <2> HIDE DEF lt, n, t
  <2>4. old \in Seq({old[k] : k \in 1..n}) /\ Len(old) = n
    BY <2>2
  <2>5. new = [k \in 1..(n + 1) |-> IF k = n + 1 THEN t ELSE old[k]]
    BY <2>2, <2>3
  <2> HIDE DEF old, new
  <2>6. Append(old, t) = [k \in 1..(n + 1) |-> IF k = n + 1 THEN t ELSE old[k]]
    <3> DEFINE S == {old[k] : k \in 1..n} \cup {t}
               longer == Append(old, t)
    <3>1. old \in Seq(S) /\ t \in S
      BY <2>2, <2>4
    <3>2. longer \in Seq(S)
      BY <3>1
    <3>3. longer = [k \in DOMAIN longer |-> longer[k]]
      BY <3>2, SequenceIsFunction
    <3>4. DOMAIN longer = 1..(n + 1) /\ longer[n + 1] = t /\ \A k \in 1..n : longer[k] = old[k]
      BY <2>2, <2>4, <3>1
    <3> HIDE DEF longer, S
    <3>5. \A k \in 1..(n + 1) : longer[k] = IF k = n + 1 THEN t ELSE old[k]
      BY <2>2, <3>4
    <3>6. longer = [k \in 1..(n + 1) |-> IF k = n + 1 THEN t ELSE old[k]]
      BY <3>3, <3>4, <3>5
    <3> QED
      BY <3>6 DEF longer
  <2>7. new = Append(old, t)
    BY <2>5, <2>6
  <2> QED
    BY <2>7 DEF new, old, lt
<1> HIDE DEF t, acct, dest
<1>13. Ledger!Execute(t.from, t.to)
  <2>1. [k \in DOMAIN transfers' |-> LedgerTransfer(transfers'[k])] =
          Append([k \in DOMAIN transfers |-> LedgerTransfer(transfers[k])], [from |-> t.from, to |-> t.to])
    BY <1>6, <1>12
  <2>2. /\ Ledger!Cardinality(Ledger!WalletsOf(t.from)) = SendersPerTransfer
        /\ Ledger!Cardinality(t.to) = ReceiversPerTransfer
        /\ t.to \cap Ledger!WalletsOf(t.from) = {}
    BY <1>8, SameOperators DEF Ledger!WalletsOf
  <2> QED
    BY <1>10, <1>11, <2>1, <2>2 DEF Ledger!Execute
<1>14. Ledger!Execute(Ledger!Range(acct), Ledger!Range(dest))
  BY <1>5, <1>13, SameOperators
<1> QED
  BY <1>4, <1>14 DEF Ledger!Next, Ledger!Accounts

(* When no search is given up, generate() executes whole, funded transfers *)
(* over distinct wallets, one at a time: it implements CBDCLedger!Spec.    *)
THEOREM LedgerImplemented ==
  ASSUME NeverGivesUp
  PROVE  Spec => ImplementsLedger
<1>1. Init => Ledger!Init
  <2> SUFFICES ASSUME Init PROVE Ledger!Init
    OBVIOUS
  <2>1. pc = "new" /\ transfers = <<>>
    BY DEF Init
  <2>2. Settled = [a \in Wallets \X Coins |-> Minted[a]]
    BY <2>1 DEF Settled
  <2>3. Settled = Minted
    BY <2>2 DEF Minted
  <2>4. [k \in DOMAIN transfers |-> LedgerTransfer(transfers[k])] = <<>>
    BY <2>1
  <2> QED
    BY <2>3, <2>4 DEF Ledger!Init
<1>2. MoneyInv /\ MoneyInv' /\ WorthInv /\ [Next]_vars => 
      [Ledger!Next]_<<Settled, [k \in DOMAIN transfers |-> LedgerTransfer(transfers[k])]>>
  BY PushExecutes, SettledStays
<1> QED
  BY <1>1, <1>2, WorthHolds, MoneyInvHolds, PTL DEF Spec, ImplementsLedger, Ledger!Spec
=============================================================================
