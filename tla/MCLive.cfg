\* Two streams on one vault, with a clock that moves and receivers who claim; their
\* amounts add up to more than the largest u64.
SPECIFICATION FairSpec
CONSTANTS
  alice = alice
  bob = bob
  fred = fred
  s1 = s1
  s2 = s2
  MaxU64 = 9
  FeeScale = 2
  RentExemptMin = 1
  Users <- MCUsers
  FeeOwners <- MCFeeOwners
  FeePercentages = {1}
  Senders <- MCSenders
  Receivers <- MCReceivers
  Streams <- TwoStreams
  MaxTime = 4
  InitialWallet <- MCWallet
  StreamTimes <- TimesOfLive
  StreamAmounts = {5}
  DepositAmounts = {7}
  TransferAmounts = {}
  CanCancel = {TRUE}
  CanUpdate = {FALSE}
\* The clock stops at MaxTime.
CHECK_DEADLOCK FALSE
INVARIANTS
  FundedPays
PROPERTIES
  FundedStreamCloses
