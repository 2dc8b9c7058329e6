\* Three owners who approve what was proposed; two stored instructions.
SPECIFICATION FairMultisigSpec
CONSTANTS
  ann = ann
  ben = ben
  cat = cat
  m1 = m1
  t1 = t1
  t2 = t2
  pay = pay
  Owners <- ThreeOwners
  Multisigs <- OneMultisig
  Txs <- TwoTxs
  OwnerLists <- ListsOfThree
  Thresholds = {0, 1, 2, 3}
  Nonces = {0, 1}
  PdaNonces = {1}
  Calls <- OneCall
  MaxSeqno = 3
  MaxHeight = 3
\* In the end every transaction account is used.
CHECK_DEADLOCK FALSE
INVARIANTS
  MultisigTypeOK
  ThresholdReachable
PROPERTIES
  GovernedByOwners
  GovernanceKept
  ProposalDecided
