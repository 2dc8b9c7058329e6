\* Nested executions of two stored instructions, call by call.
SPECIFICATION CallsSpec
CONSTANTS
  ann = ann
  ben = ben
  m1 = m1
  t1 = t1
  t2 = t2
  t3 = t3
  pay = pay
  Owners <- TwoOwners
  Multisigs <- OneMultisig
  Txs <- ThreeTxs
  OwnerLists <- OneList
  Thresholds = {1, 2}
  Nonces = {1}
  PdaNonces = {1}
  Calls <- OneCall
  MaxSeqno = 3
  MaxHeight = 3
SYMMETRY TxSymmetry
\* In the end every transaction account is used.
CHECK_DEADLOCK FALSE
INVARIANTS
  PerformedOnce
PROPERTIES
  CallsAreAtomic
