\* The whole of generate_workload and a load of its file.  The comparison with
\* the erased node may give either result; two senders and two receivers, a
\* product that wraps around, funds that run out, and a disk that is full among
\* the wallets, inside a transfer, between two, or after them.
SPECIFICATION Spec
CONSTANTS
  NumWallets = 4
  CoinsPerWallet = 1
  TransfersPerWallet = 2
  SendersPerTransfer = 2
  ReceiversPerTransfer = 2
  CoinInitialValue = 3
  TransferValue = 5
  ValueModulus = 8
  DanglingCompare = {TRUE, FALSE}
  RandomSeed = 6
  Radix = 2
  FullAt = {12, 17, 25, 37, 42, 50, 63}
  Leftovers = {0, 2}
INVARIANTS
  CursorLive
  TransfersWellFormed
  NoMoneyCreated
  LoadsWhatWasGenerated
  BeforeTheCutAsGenerated
