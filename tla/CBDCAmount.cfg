\* Two senders pay one receiver: generate_workload -w 3 -s 2.
SPECIFICATION Spec
CONSTANTS
  NumWallets = 3
  CoinsPerWallet = 1
  TransfersPerWallet = 1
  SendersPerTransfer = 2
  ReceiversPerTransfer = 1
  CoinInitialValue = 7
  TransferValue = 1
  ValueModulus = 8
  DanglingCompare = {FALSE}
INVARIANT ReceiverGetsTransferValue
