\* A stream is cancelled in the name of another mint.
SPECIFICATION Spec
CONSTANTS
  alice = alice
  bob = bob
  fred = fred
  s1 = s1
  s2 = s2
  usdc = usdc
  zbc = zbc
  SenderTokens = 2
  MaxU64 = 15
  FeeScale = 2
  RentExemptMin = 2
  Users <- MCUsers
  FeeOwners <- MCFeeOwners
  FeePercentages = {1}
  Senders <- MCSenders
  Receivers <- MCReceivers
  Streams <- TwoStreams
  Mints <- TwoMints
  MaxTime = 1
  InitialWallet <- MCWallet
  InitialTokens <- MCTokens
  StreamTimes <- TimesTo1
  StreamAmounts = {2}
  DepositAmounts = {2}
  TransferAmounts = {2}
  CanCancel = {TRUE}
  CanUpdate = {FALSE}
SYMMETRY Symmetry
\* The clock stops at MaxTime.
CHECK_DEADLOCK FALSE
PROPERTIES
  WithdrawalLeavesOwed
