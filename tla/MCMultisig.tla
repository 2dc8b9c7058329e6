----------------------------- MODULE MCMultisig -----------------------------
(***************************************************************************)
(* Values for the constants of Multisig: owners join, leave and take each  *)
(* other's place; one list has an owner twice, and one is empty.           *)
(***************************************************************************)
EXTENDS MultisigCouncil

CONSTANTS ann, ben, cat, m1, t1, t2, pay

ThreeOwners == {ann, ben, cat}
OneMultisig == {m1}
TwoTxs == {t1, t2}
OneCall == {pay}

ListsOfThree == {<<ann, ben, cat>>, <<cat, ben>>, <<ann, ann>>, <<>>}
=============================================================================
