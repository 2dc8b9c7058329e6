\* A multisig of two owners that sends one stream of SOL, and whose owners may change.
SPECIFICATION SenderSpec
CONSTANTS
  ann = ann
  ben = ben
  m1 = m1
  t1 = t1
  t2 = t2
  t3 = t3
  signer = signer
  bob = bob
  fred = fred
  s1 = s1
  Owners <- MCOwners
  Multisigs <- MCMultisigs
  Txs <- MCTxs
  OwnerLists <- MCOwnerLists
  Thresholds = {2}
  Nonces = {1}
  PdaNonces = {1}
  Calls <- MCCalls
  MaxSeqno = 3
  MaxHeight = 2
  MaxU64 = 15
  FeeScale = 2
  RentExemptMin = 2
  Users <- MCUsers
  FeeOwners <- MCFeeOwners
  FeePercentages = {1}
  Senders <- MCSenders
  Receivers <- MCReceivers
  Streams <- MCStreams
  MaxTime = 3
  InitialWallet <- MCWallet
  StreamTimes <- MCTimes
  StreamAmounts = {2, 3}
  DepositAmounts = {4}
  TransferAmounts = {2}
  CanCancel = {TRUE}
  CanUpdate = {TRUE}
  MultisigSigner <- MCSigner
SYMMETRY MCSymmetry
\* The clock stops at MaxTime, and every transaction account is used.
CHECK_DEADLOCK FALSE
INVARIANTS
  SpentAsDecided
PROPERTIES
  StreamsByDecision
