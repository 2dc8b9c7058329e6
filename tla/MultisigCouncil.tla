--------------------------- MODULE MultisigCouncil --------------------------
(***************************************************************************)
(* The multisig implements module Council: a sequence number that is no    *)
(* longer the multisig's stands for a void motion, and a flag in signers   *)
(* for the approval of the owner at its index.                             *)
(***************************************************************************)
EXTENDS Multisig

(* The owners in force whose flags are set.                                *)
Approvers(tx) ==
  {multisig[tx.multisig].owners[i] :
     i \in {i \in DOMAIN tx.signers : tx.signers[i]}}

State(tx) ==
  IF tx.did_execute THEN "enacted" ELSE IF Current(tx) THEN "open" ELSE "void"

CouncilOf ==
  [m \in DOMAIN multisig |->
     [members |-> Range(multisig[m].owners), quorum |-> multisig[m].threshold]]

MotionOf ==
  [t \in DOMAIN transaction |->
     LET tx == transaction[t]
     IN  [council |-> tx.multisig, state |-> State(tx),
          approvers |-> IF State(tx) = "open" THEN Approvers(tx) ELSE {}]]

Governance ==
  INSTANCE Council
    WITH Councils <- Multisigs, Motions <- Txs, council <- CouncilOf, motion <- MotionOf

(* Every step of the program is a step of the council or leaves it alone:  *)
(* whatever was executed had the approval of enough of the owners in force *)
(* at that time, approvals given under other owners count for nothing, and *)
(* nothing voided or executed is executed later.                           *)
GovernanceKept == Governance!Spec
=============================================================================
