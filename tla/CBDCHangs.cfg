\* The smallest workload that can hang: generate_workload -w 3 -t 2.
SPECIFICATION FairSpec
CONSTANTS
  NumWallets = 3
  CoinsPerWallet = 1
  TransfersPerWallet = 2
  SendersPerTransfer = 1
  ReceiversPerTransfer = 1
  CoinInitialValue = 7
  TransferValue = 1
  ValueModulus = 8
  DanglingCompare = {FALSE}
PROPERTY Terminates
