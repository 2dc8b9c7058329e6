\* An amount whose commission product is no u64.
SPECIFICATION OwnMintSpec
CONSTANTS
  alice = alice
  bob = bob
  fred = fred
  s1 = s1
  s2 = s2
  usdc = usdc
  zbc = zbc
  SenderTokens = 8
  MaxU64 = 15
  FeeScale = 2
  RentExemptMin = 2
  Users <- MCUsers
  FeeOwners <- MCFeeOwners
  FeePercentages = {2}
  Senders <- MCSenders
  Receivers <- MCReceivers
  Streams <- OneStream
  Mints <- OneMint
  MaxTime = 1
  InitialWallet <- MCWallet
  InitialTokens <- MCTokens
  StreamTimes <- TimesTo1
  StreamAmounts = {8}
  DepositAmounts = {8}
  TransferAmounts = {}
  CanCancel = {TRUE}
  CanUpdate = {FALSE}
\* The clock stops at MaxTime.
CHECK_DEADLOCK FALSE
INVARIANTS
  EndedStreamPays
