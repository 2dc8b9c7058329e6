\* Two streams in two mints; cancellations may name either mint.
SPECIFICATION Spec
CONSTANTS
  alice = alice
  bob = bob
  fred = fred
  s1 = s1
  s2 = s2
  usdc = usdc
  zbc = zbc
  SenderTokens = 2
  MaxU64 = 15
  FeeScale = 2
  RentExemptMin = 2
  Users <- MCUsers
  FeeOwners <- MCFeeOwners
  FeePercentages = {1, 3}
  Senders <- MCSenders
  Receivers <- MCReceivers
  Streams <- TwoStreams
  Mints <- TwoMints
  MaxTime = 2
  InitialWallet <- MCWallet
  InitialTokens <- MCTokens
  StreamTimes <- TimesTo2
  StreamAmounts = {2}
  DepositAmounts = {2}
  TransferAmounts = {1}
  CanCancel = {TRUE}
  CanUpdate = {TRUE}
SYMMETRY Symmetry
\* The clock stops at MaxTime.
CHECK_DEADLOCK FALSE
INVARIANTS
  TypeOK
  ReservesAddUp
  TokensConserved
