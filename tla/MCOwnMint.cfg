\* Two streams in two mints; cancellations name the stream's own mint.
SPECIFICATION CarefulSpec
CONSTANTS
  alice = alice
  bob = bob
  fred = fred
  s1 = s1
  s2 = s2
  usdc = usdc
  zbc = zbc
  SenderTokens = 3
  MaxU64 = 15
  FeeScale = 2
  RentExemptMin = 2
  Users <- MCUsers
  FeeOwners <- MCFeeOwners
  FeePercentages = {1}
  Senders <- MCSenders
  Receivers <- MCReceivers
  Streams <- TwoStreams
  Mints <- TwoMints
  MaxTime = 3
  InitialWallet <- MCWallet
  InitialTokens <- MCTokens
  StreamTimes <- TimesTo2
  StreamAmounts = {3}
  DepositAmounts = {3}
  TransferAmounts = {1}
  CanCancel = {TRUE}
  CanUpdate = {TRUE}
SYMMETRY Symmetry
\* The clock stops at MaxTime.
CHECK_DEADLOCK FALSE
INVARIANTS
  ReserveOfMintExact
  BackedPays
PROPERTIES
  BackedStaysBacked
  PromiseKept
