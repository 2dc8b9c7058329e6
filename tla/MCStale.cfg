\* A stream that was paused at its start time is updated.
SPECIFICATION Spec
CONSTANTS
  alice = alice
  bob = bob
  fred = fred
  s1 = s1
  s2 = s2
  MaxU64 = 15
  FeeScale = 2
  RentExemptMin = 2
  Users <- MCUsers
  FeeOwners <- MCFeeOwners
  FeePercentages = {1}
  Senders <- MCSenders
  Receivers <- MCReceivers
  Streams <- OneStream
  MaxTime = 3
  InitialWallet <- MCWallet
  StreamTimes <- TimesTo2
  StreamAmounts = {3}
  DepositAmounts = {3}
  TransferAmounts = {}
  CanCancel = {TRUE}
  CanUpdate = {TRUE}
\* The clock stops at MaxTime.
CHECK_DEADLOCK FALSE
INVARIANTS
  PausedResumes
