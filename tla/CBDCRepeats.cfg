\* Every wallet appears twice; two coins, each worth one transfer: the funds are
\* just enough. The build's comparison with the erased node is always false.
SPECIFICATION FairSpec
CONSTANTS
  NumWallets = 4
  CoinsPerWallet = 2
  TransfersPerWallet = 2
  SendersPerTransfer = 1
  ReceiversPerTransfer = 1
  CoinInitialValue = 5
  TransferValue = 3
  ValueModulus = 8
  DanglingCompare = {FALSE}
INVARIANTS
  TypeOK
  StartedIsErased
  AppearancesAccounted
  ExpectedMatchesTransfers
  NoMoneyLost
  FundedInAnyOrder
  NeverShortOfFunds
PROPERTIES
  StuckForever
  TransferCompletes
  ImplementsLedger
