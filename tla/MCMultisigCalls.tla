-------------------------- MODULE MCMultisigCalls ---------------------------
(***************************************************************************)
(* Values for the constants of MultisigCalls: three stored instructions    *)
(* leave room for a cycle of executions and for the call they end in.      *)
(***************************************************************************)
EXTENDS MultisigCalls, TLC

CONSTANTS ann, ben, m1, t1, t2, t3, pay

TwoOwners == {ann, ben}
OneMultisig == {m1}
ThreeTxs == {t1, t2, t3}
OneCall == {pay}
OneList == {<<ann, ben>>}
TxSymmetry == Permutations(Txs)
=============================================================================
