\* Two streams of one sender share a vault; a stream may be updated whenever the
\* code allows it.
SPECIFICATION Spec
CONSTANTS
  alice = alice
  bob = bob
  fred = fred
  s1 = s1
  s2 = s2
  MaxU64 = 15
  FeeScale = 2
  RentExemptMin = 2
  Users <- MCUsers
  FeeOwners <- MCFeeOwners
  FeePercentages = {1, 3}
  Senders <- MCSenders
  Receivers <- MCReceivers
  Streams <- TwoStreams
  MaxTime = 3
  InitialWallet <- MCWallet
  StreamTimes <- TimesTo2
  StreamAmounts = {2, 3}
  DepositAmounts = {3}
  TransferAmounts = {1}
  CanCancel = {TRUE, FALSE}
  CanUpdate = {TRUE}
SYMMETRY StreamSymmetry
\* The clock stops at MaxTime.
CHECK_DEADLOCK FALSE
INVARIANTS
  TypeOK
  ReserveExact
  SettlementFits
  FundedPays
  LamportsConserved
PROPERTIES
  FundedStaysFunded
  NonCancellableRunsItsTerm
  TermsFixedOnceUsed
