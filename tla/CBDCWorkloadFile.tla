-------------------------- MODULE CBDCWorkloadFile --------------------------
(***************************************************************************)
(* generate_workload and the file it leaves: the program generates a       *)
(* workload and saves it, and from_file() loads what is in the file.       *)
(*                                                                         *)
(* The file is the sequence of the numbers in it.  to_file() never looks   *)
(* at the state of its stream, so the disk may fill up anywhere, inside a  *)
(* number too, and the program still reports "done".  from_file() never    *)
(* looks at its stream either: behind the end of the file a read leaves    *)
(* its variable as it was, which is what the last read put there, or       *)
(* anything (Leftovers) when there was none.                               *)
(***************************************************************************)
EXTENDS CBDCWorkload, SequencesExt

CONSTANTS RandomSeed,   \* -g
          Radix,        \* 10 in the code: a number cut short loses digits
          FullAt,       \* numbers written before the disk is full
          Leftovers     \* what a variable may hold that was never written

ASSUME FileAssumption ==
  /\ RandomSeed \in Nat
  /\ Radix \in Nat \ {0, 1}
  /\ FullAt \subseteq Nat
  /\ Leftovers \subseteq Nat

(***************************************************************************)
(* to_file()                                                               *)
(***************************************************************************)
Parameters == <<NumWallets, CoinsPerWallet, TransfersPerWallet, SendersPerTransfer,
                ReceiversPerTransfer, CoinInitialValue, TransferValue, RandomSeed>>

(* The accounts in expected_final_values in the order of the map; one      *)
(* that holds nothing and was not minted there is left out.                *)
Accounts ==
  LET size == NumWallets * CoinsPerWallet
      Account(n) == <<(n - 1) \div size, (n - 1) % size>>
      Listed(a)  == expected[a] > 0 \/ a[2] \in CoinsOf(a[1])
  IN  FlattenSeq([n \in 1..(NumWallets * size) |->
                    IF Listed(Account(n)) THEN <<Account(n)>> ELSE <<>>])

HeaderText == Parameters \o <<Len(transfers), Len(Accounts)>>

WalletText ==
  FlattenSeq([n \in 1..(NumWallets * CoinsPerWallet) |->
                <<(n - 1) \div CoinsPerWallet, n - 1, CoinInitialValue>>])

(* A wallet with its coins: one coin for a sender.                         *)
PartyText(wallet, list) ==
  <<wallet, Len(list)>> \o FlattenSeq([i \in DOMAIN list |-> <<list[i].coin, list[i].value>>])

SendersText(t) == FlattenSeq([i \in DOMAIN t.senders |->
                                PartyText(t.senders[i].wallet, <<t.senders[i]>>)])

TransferTextSlip(t) ==
  SendersText(t) \o FlattenSeq([i \in DOMAIN t.receivers |->
                                  PartyText(t.receivers[i].wallet, <<t.receivers[i].coins[1]>>)])

TransferText(t) ==
  SendersText(t) \o FlattenSeq([i \in DOMAIN t.receivers |->
                                  PartyText(t.receivers[i].wallet, t.receivers[i].coins)])

TransfersText == FlattenSeq([k \in DOMAIN transfers |-> TransferText(transfers[k])])

ExpectedText ==
  FlattenSeq([n \in DOMAIN Accounts |->
                <<Accounts[n][1], Accounts[n][2], expected[Accounts[n]]>>])

Text == HeaderText \o WalletText \o TransfersText \o ExpectedText

(* What a disk takes of a text when it is full after n numbers, or inside  *)
(* the number that follows them.                                           *)
Fitting(text, n) ==
  IF n >= Len(text) THEN {text}
  ELSE {SubSeq(text, 1, n)}
         \cup {Append(SubSeq(text, 1, n), d) : d \in {text[n + 1] \div Radix} \ {0}}

(* What may be in the file after to_file().                                *)
ToFile == UNION {Fitting(Text, n) : n \in FullAt \cup {Len(Text)}}

(***************************************************************************)
(* from_file(): r is where it is in the file (at), the variables it reads  *)
(* into (header, entry, party, coin) and what it has built.                *)
(***************************************************************************)
Opened(file, left) ==
  [file   |-> file,
   at     |-> 0,
   header |-> [k \in 1..10 |-> left],
   entry  |-> <<left, left, left>>, party |-> <<left, left>>, coin |-> <<left, left>>,
   coins  |-> <<>>, parties |-> <<>>,
   wallets |-> <<>>, transfers |-> <<>>, expected |-> <<>>]

NumbersLeft(r) == Len(r.file) - r.at

(* fin >> ...: what the file has no number for stays as it is.             *)
Read(r, slot) ==
  [r EXCEPT ![slot] = [k \in DOMAIN r[slot] |->
                         IF k <= NumbersLeft(r) THEN r.file[r.at + k] ELSE r[slot][k]],
            !.at = IF NumbersLeft(r) < Len(r[slot]) THEN Len(r.file) ELSE @ + Len(r[slot])]

Repeat(Step(_), n, r) == FoldLeft(LAMBDA now, i : Step(now), r, [i \in 1..n |-> i])

(* m[key] = value, whether or not the map has the key.                     *)
Put(m, key, value) == [x \in DOMAIN m \cup {key} |-> IF x = key THEN value ELSE m[x]]

(* wallets[wid].push_back(...), where wallets[wid] may be new.             *)
ReadWallet(old) ==
  LET r    == Read(old, "entry")
      e    == r.entry
      held == IF e[1] \in DOMAIN r.wallets THEN r.wallets[e[1]] ELSE <<>>
  IN  [r EXCEPT !.wallets = Put(@, e[1], Append(held, [coin |-> e[2], value |-> e[3]]))]

ReadCoin(old) ==
  LET r == Read(old, "coin")
  IN  [r EXCEPT !.coins = Append(@, [coin |-> r.coin[1], value |-> r.coin[2]])]

(* A sender or a receiver.                                                 *)
ReadParty(old) ==
  LET head == Read([old EXCEPT !.coins = <<>>], "party")
      r    == Repeat(ReadCoin, head.party[2], head)
  IN  [r EXCEPT !.parties = Append(@, [wallet |-> r.party[1], coins |-> r.coins])]

PartiesPerTransfer(r) == r.header[4] + r.header[5]

ReadTransferSlip(old) ==
  LET r == Repeat(ReadParty, PartiesPerTransfer(old), old)
  IN  [r EXCEPT !.transfers = Append(@, r.parties)]

ReadTransfer(old) ==
  LET r == Repeat(ReadParty, PartiesPerTransfer(old), [old EXCEPT !.parties = <<>>])
  IN  [r EXCEPT !.transfers = Append(@, r.parties)]

ReadExpected(old) ==
  LET r == Read(old, "entry")
      e == r.entry
  IN  [r EXCEPT !.expected = Put(@, <<e[1], e[2]>>, e[3])]

FromFile(file, left) ==
  LET start     == Read(Opened(file, left), "header")
      counted   == start.header
      filled    == Repeat(ReadWallet, counted[1] * counted[2], start)
      pushed    == Repeat(ReadTransfer, counted[9], filled)
  IN  Repeat(ReadExpected, counted[10], pushed)

(***************************************************************************)
(* What a benchmark gets                                                   *)
(***************************************************************************)
(* The senders and receivers of a generated transfer, as from_file() has   *)
(* them.                                                                   *)
PartiesOf(t) ==
  [i \in DOMAIN t.senders |->
     [wallet |-> t.senders[i].wallet,
      coins  |-> <<[coin |-> t.senders[i].coin, value |-> t.senders[i].value]>>]]
  \o t.receivers

MintedIn(w) == [i \in 1..CoinsPerWallet |->
                  [coin |-> w * CoinsPerWallet + i - 1, value |-> CoinInitialValue]]

(* A file that was written completely loads as the workload that was       *)
(* generated: every count that from_file() relies on is the one to_file()  *)
(* wrote that many things for, and nothing of the file is left over.       *)
LoadsWhatWasGenerated ==
  pc = "done" =>
    \A left \in Leftovers :
      LET got == FromFile(Text, left)
      IN  /\ SubSeq(got.header, 1, 8) = Parameters
          /\ got.wallets = [w \in {v \in Wallets : CoinsPerWallet > 0} |-> MintedIn(w)]
          /\ got.transfers = [k \in DOMAIN transfers |-> PartiesOf(transfers[k])]
          /\ got.expected = [a \in ToSet(Accounts) |-> expected[a]]
          /\ NumbersLeft(got) = 0

(* The numbers in the file up to the end of the k-th transfer.             *)
EndOfTransfer(k) ==
  Len(HeaderText) + Len(WalletText)
    + Len(FlattenSeq([j \in 1..k |-> TransferText(transfers[j])]))

(* A file that was cut short loads without an error, and everything the    *)
(* header promises is there; what precedes the cut is as generated, so     *)
(* that a benchmark goes wrong only where it reaches the cut.              *)
BeforeTheCutAsGenerated ==
  pc = "done" =>
    \A file \in {f \in ToFile : Len(f) > Len(HeaderText)}, left \in Leftovers :
      LET got == FromFile(file, left)
      IN  /\ Len(got.transfers) = Len(transfers)
          /\ \A k \in DOMAIN transfers :
               EndOfTransfer(k) < Len(file) => got.transfers[k] = PartiesOf(transfers[k])
=============================================================================
