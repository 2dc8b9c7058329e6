\* One stream that is updated, paused and resumed several times.
SPECIFICATION CarefulSpec
CONSTANTS
  alice = alice
  bob = bob
  fred = fred
  s1 = s1
  s2 = s2
  MaxU64 = 15
  FeeScale = 2
  RentExemptMin = 2
  Users <- MCUsers
  FeeOwners <- MCFeeOwners
  FeePercentages = {1}
  Senders <- MCSenders
  Receivers <- MCReceivers
  Streams <- OneStream
  MaxTime = 5
  InitialWallet <- MCWallet
  StreamTimes <- TimesTo4
  StreamAmounts = {2, 3}
  DepositAmounts = {3}
  TransferAmounts = {1}
  CanCancel = {TRUE, FALSE}
  CanUpdate = {TRUE}
\* The clock stops at MaxTime.
CHECK_DEADLOCK FALSE
INVARIANTS
  PausedResumes
PROPERTIES
  PromiseKept
