-------------------------- MODULE Multisig_proofs ---------------------------
(***************************************************************************)
(* Proofs about the multisig program: type correctness, the inductive      *)
(* invariant that ties approvals to the owners in force, and what follows  *)
(* from it for every set of owners, multisigs and transaction accounts.    *)
(***************************************************************************)
EXTENDS MultisigCouncil, FiniteSetTheorems, TLAPS

-----------------------------------------------------------------------------
(* The inductive invariant                                                 *)

Executed == {t \in DOMAIN transaction : transaction[t].did_execute}

(* A transaction account names a multisig that exists.                     *)
Belong == \A t \in DOMAIN transaction : transaction[t].multisig \in DOMAIN multisig

(* Each change of the owners burnt a transaction account of its own, so    *)
(* that a sequence number never reaches the point where it would wrap.     *)
FewChanges ==
  \A m \in DOMAIN multisig : multisig[m].owner_set_seqno <= Cardinality(Executed)

(* No transaction is ahead of its multisig, and one that is level with it  *)
(* has a flag for each of the owners in force.                             *)
FlagsOfOwners ==
  \A t \in DOMAIN transaction :
    LET tx == transaction[t]
        ms == multisig[tx.multisig]
    IN  /\ tx.owner_set_seqno <= ms.owner_set_seqno
        /\ Current(tx) => DOMAIN tx.signers = DOMAIN ms.owners

(* The flags of a current transaction are those of the owners in force who *)
(* gave their approval themselves: no owner took another one's place.      *)
ApprovalsOfOwners ==
  \A t \in DOMAIN transaction :
    Current(transaction[t]) => approved[t] = Approvers(transaction[t])

MultisigInv ==
  /\ MultisigTypeOK /\ ThresholdReachable /\ PerformedOnce
  /\ Belong /\ FewChanges /\ FlagsOfOwners /\ ApprovalsOfOwners

-----------------------------------------------------------------------------
(* What an instruction does to the multisigs                               *)

LEMMA InstructionFields ==
  ASSUME NEW ix \in Instructions
  PROVE  /\ ix.op \in {"set_owners", "set_owners_and_change_threshold"}
              => ix.owners \in OwnerLists /\ Len(ix.owners) \in Nat
         /\ ix.op \in {"change_threshold", "set_owners_and_change_threshold"}
              => ix.threshold \in Nat
<1>1. ix.op \in {"set_owners", "set_owners_and_change_threshold"} => ix.owners \in OwnerLists
  BY DEF Instructions, SetOwnersIx, ChangeThresholdIx, BothIx, ExecuteIx, CallIx
<1>2. ix.op \in {"change_threshold", "set_owners_and_change_threshold"}
        => ix.threshold \in Nat
  BY MultisigAssumption
  DEF Instructions, SetOwnersIx, ChangeThresholdIx, BothIx, ExecuteIx, CallIx
<1> QED
  BY <1>1, <1>2, MultisigAssumption

(* A sound multisig: its owners are distinct and can reach the threshold.  *)
Sound(ms) == AssertUniqueOwners(ms.owners) /\ ms.threshold \in 1 .. Len(ms.owners)

LEMMA SetOwnersSound ==
  ASSUME NEW ms \in MultisigRecord, NEW owners \in OwnerLists, SetOwnersFits(owners)
  PROVE  /\ SetOwners(ms, owners) \in MultisigRecord
         /\ Sound(SetOwners(ms, owners))
         /\ SetOwners(ms, owners).owner_set_seqno = NextSeqno(ms.owner_set_seqno)
<1>1. owners \in Seq(Owners) /\ Len(owners) \in Nat \ {0}
  BY MultisigAssumption DEF SetOwnersFits
<1>2. Clamp(ms.threshold, owners) \in 1 .. Len(owners)
  BY <1>1 DEF Clamp, MultisigRecord
<1>3. NextSeqno(ms.owner_set_seqno) \in 0 .. MaxSeqno
  BY MultisigAssumption DEF NextSeqno, MultisigRecord
<1> DEFINE th == Clamp(ms.threshold, owners)
           no == NextSeqno(ms.owner_set_seqno)
<1>4. SetOwners(ms, owners) =
        [ms EXCEPT !.owners = owners, !.threshold = th, !.owner_set_seqno = no]
  BY DEF SetOwners
<1> HIDE DEF th, no
<1>5. SetOwners(ms, owners) =
        [owners |-> owners, threshold |-> th, nonce |-> ms.nonce, owner_set_seqno |-> no]
  BY <1>4 DEF MultisigRecord
<1> QED
  BY <1>1, <1>2, <1>3, <1>5 DEF MultisigRecord, Sound, SetOwnersFits, th, no

LEMMA ChangeThresholdSound ==
  ASSUME NEW ms \in MultisigRecord, NEW threshold \in Nat,
         AssertUniqueOwners(ms.owners), ChangeThresholdFits(ms, threshold)
  PROVE  /\ ChangeThreshold(ms, threshold) \in MultisigRecord
         /\ Sound(ChangeThreshold(ms, threshold))
         /\ ChangeThreshold(ms, threshold).owners = ms.owners
         /\ ChangeThreshold(ms, threshold).owner_set_seqno = ms.owner_set_seqno
<1>1. ChangeThreshold(ms, threshold) =
        [owners |-> ms.owners, threshold |-> threshold, nonce |-> ms.nonce,
         owner_set_seqno |-> ms.owner_set_seqno]
  BY DEF ChangeThreshold, MultisigRecord
<1>2. Len(ms.owners) \in Nat
  BY MultisigAssumption DEF MultisigRecord
<1> QED
  BY <1>1, <1>2 DEF MultisigRecord, Sound, ChangeThresholdFits

(* The step an executed instruction makes: at most one multisig changes,   *)
(* one that signed; either its owners are set and its sequence number goes *)
(* up, or only its threshold is.                                           *)
Organised(signed) ==
  \/ multisig' = multisig
  \/ \E m \in DOMAIN multisig \cap signed, ms \in MultisigRecord :
       /\ multisig' = [multisig EXCEPT ![m] = ms]
       /\ Sound(ms)
       /\ \/ ms.owner_set_seqno = NextSeqno(multisig[m].owner_set_seqno)
          \/ /\ ms.owners = multisig[m].owners
             /\ ms.owner_set_seqno = multisig[m].owner_set_seqno

LEMMA EffectOrganises ==
  ASSUME MultisigTypeOK, ThresholdReachable, NEW ix \in Instructions, NEW signed, Effect(ix, signed)
  PROVE  Organised(signed)
<1>1. CASE ix.op = "call"
  BY <1>1 DEF Effect, Organised
<1> DEFINE m == ix.multisig
           ms == multisig[m]
           new == multisig'[m]
<1>2. CASE ix.op \in {"set_owners", "change_threshold", "set_owners_and_change_threshold"}
  <2>1. m \in DOMAIN multisig \cap signed
    BY <1>2 DEF Effect
  <2>2. ms \in MultisigRecord /\ Sound(ms)
    BY <2>1 DEF MultisigTypeOK, ThresholdReachable, Sound
  <2>3. CASE ix.op = "set_owners"
    <3>1. ix.owners \in OwnerLists /\ SetOwnersFits(ix.owners)
      BY <2>3, InstructionFields DEF Effect
    <3>2. multisig' = [multisig EXCEPT ![m] = SetOwners(ms, ix.owners)]
      BY <2>3 DEF Effect
    <3> QED
      BY <2>1, <2>2, <3>1, <3>2, SetOwnersSound DEF Organised
  <2>4. CASE ix.op = "change_threshold"
    <3>1. ix.threshold \in Nat /\ ChangeThresholdFits(ms, ix.threshold)
      BY <2>4, InstructionFields DEF Effect
    <3>2. multisig' = [multisig EXCEPT ![m] = ChangeThreshold(ms, ix.threshold)]
      BY <2>4 DEF Effect
    <3> QED
      BY <2>1, <2>2, <3>1, <3>2, ChangeThresholdSound DEF Organised, Sound
  <2>5. CASE ix.op = "set_owners_and_change_threshold"
    <3> DEFINE ns == SetOwners(ms, ix.owners)
    <3>1. ix.owners \in OwnerLists /\ SetOwnersFits(ix.owners)
      BY <2>5, InstructionFields DEF Effect
    <3>2. ix.threshold \in Nat /\ ChangeThresholdFits(ns, ix.threshold)
      BY <2>5, InstructionFields DEF Effect
    <3>3. ns \in MultisigRecord /\ Sound(ns)
          /\ ns.owner_set_seqno = NextSeqno(ms.owner_set_seqno)
      BY <2>2, <3>1, SetOwnersSound
    <3>4. multisig' = [multisig EXCEPT ![m] = ChangeThreshold(ns, ix.threshold)]
      BY <2>5 DEF Effect
    <3> HIDE DEF ns
    <3>5. /\ ChangeThreshold(ns, ix.threshold) \in MultisigRecord
          /\ Sound(ChangeThreshold(ns, ix.threshold))
          /\ ChangeThreshold(ns, ix.threshold).owner_set_seqno
               = NextSeqno(ms.owner_set_seqno)
      BY <3>2, <3>3, ChangeThresholdSound DEF Sound
    <3> QED
      BY <2>1, <3>4, <3>5 DEF Organised
  <2> QED
    BY <1>2, <2>3, <2>4, <2>5
<1> QED
  BY <1>1, <1>2 DEF Effect

-----------------------------------------------------------------------------
(* What an execution does                                                  *)

(* Each of the transactions executed passed the checks, and is burnt.      *)
LEMMA Execution ==
  ASSUME MultisigTypeOK, ThresholdReachable, NEW c \in Chains, ExecuteTransaction(c)
  PROVE  /\ Range(c) # {} /\ Range(c) \subseteq DOMAIN transaction
         /\ \A t \in Range(c) : Executable(transaction[t])
         /\ Organised({transaction[t].multisig : t \in Range(c)})
         /\ transaction' = [t \in DOMAIN transaction |->
              IF t \in Range(c) THEN [transaction[t] EXCEPT !.did_execute = TRUE]
                                ELSE transaction[t]]
         /\ performed' = [t \in Txs |-> IF t \in Range(c) THEN performed[t] + 1
                                                          ELSE performed[t]]
         /\ approved' = approved
<1> DEFINE last == c[Len(c)]
<1>1. PICK n \in 1 .. MaxHeight : c \in [1 .. n -> Txs]
  BY DEF Chains
<1>2. c \in Seq(Txs) /\ Len(c) = n
  BY <1>1, MultisigAssumption
<1>3. last \in Range(c)
  BY <1>1, <1>2 DEF Range
<1>4. Range(c) \subseteq DOMAIN transaction
  BY DEF ExecuteTransaction
<1>5. transaction[last].instruction \in Instructions
  BY <1>3, <1>4 DEF MultisigTypeOK, TransactionRecord
<1>6. Effect(transaction[last].instruction, {transaction[t].multisig : t \in Range(c)})
  BY DEF ExecuteTransaction
<1>7. Organised({transaction[t].multisig : t \in Range(c)})
  BY <1>5, <1>6, EffectOrganises
<1> QED
  BY <1>3, <1>4, <1>7 DEF ExecuteTransaction, Burn

LEMMA ExecutedFinite ==
  ASSUME DOMAIN transaction \subseteq Txs
  PROVE  /\ IsFiniteSet(Executed)
         /\ Cardinality(Executed) \in Nat
         /\ Cardinality(Executed) <= MaxSeqno
<1>1. Executed \subseteq Txs /\ IsFiniteSet(Txs)
  BY FewTransactions DEF Executed
<1>2. IsFiniteSet(Executed) /\ Cardinality(Executed) <= Cardinality(Txs)
  BY <1>1, FS_Subset
<1>3. Cardinality(Executed) \in Nat /\ Cardinality(Txs) \in Nat
  BY <1>1, <1>2, FS_CardinalityType
<1> QED
  BY <1>2, <1>3, FewTransactions, MultisigAssumption

(* An execution burns a transaction that was not executed before, so the   *)
(* sequence numbers have room for one more change of the owners.           *)
LEMMA ExecutionRoom ==
  ASSUME MultisigInv, NEW c \in Chains, ExecuteTransaction(c)
  PROVE  /\ Cardinality(Executed') >= Cardinality(Executed) + 1
         /\ \A m \in DOMAIN multisig :
              NextSeqno(multisig[m].owner_set_seqno) = multisig[m].owner_set_seqno + 1
<1>1. Range(c) # {} /\ Range(c) \subseteq DOMAIN transaction
  BY Execution DEF MultisigInv
<1>2. \A t \in Range(c) : ~ transaction[t].did_execute
  BY Execution DEF MultisigInv, Executable
<1>3. transaction' = [t \in DOMAIN transaction |->
        IF t \in Range(c) THEN [transaction[t] EXCEPT !.did_execute = TRUE]
                          ELSE transaction[t]]
  BY Execution DEF MultisigInv
<1>4. PICK t \in Range(c) : t \in DOMAIN transaction
  BY <1>1
<1>5. transaction[t] \in TransactionRecord
  BY <1>4 DEF MultisigInv, MultisigTypeOK
<1>6. t \notin Executed /\ t \in Executed'
  BY <1>2, <1>3, <1>4, <1>5 DEF Executed, TransactionRecord
<1>7. Executed \subseteq Executed'
  BY <1>2, <1>3 DEF Executed
<1>8. DOMAIN transaction' = DOMAIN transaction /\ DOMAIN transaction \subseteq Txs
  BY <1>3 DEF MultisigInv, MultisigTypeOK
<1>9. /\ IsFiniteSet(Executed) /\ Cardinality(Executed) \in Nat
      /\ IsFiniteSet(Executed') /\ Cardinality(Executed') \in Nat
      /\ Cardinality(Executed') <= MaxSeqno
  <2>1. Executed' \subseteq Txs /\ IsFiniteSet(Txs)
    BY <1>8, FewTransactions DEF Executed
  <2>2. IsFiniteSet(Executed') /\ Cardinality(Executed') <= Cardinality(Txs)
    BY <2>1, FS_Subset
  <2>3. Cardinality(Executed') \in Nat /\ Cardinality(Txs) \in Nat
    BY <2>1, <2>2, FS_CardinalityType
  <2> QED
    BY <1>8, <2>2, <2>3, ExecutedFinite, FewTransactions, MultisigAssumption
<1>10. Cardinality(Executed \cup {t}) = Cardinality(Executed) + 1
  BY <1>6, <1>9, FS_AddElement
<1>11. Cardinality(Executed \cup {t}) <= Cardinality(Executed')
  BY <1>6, <1>7, <1>9, FS_Subset
<1>12. Cardinality(Executed') >= Cardinality(Executed) + 1
  BY <1>9, <1>10, <1>11
<1>13. ASSUME NEW m \in DOMAIN multisig
       PROVE  NextSeqno(multisig[m].owner_set_seqno) = multisig[m].owner_set_seqno + 1
  <2>1. multisig[m].owner_set_seqno \in 0 .. MaxSeqno
    BY DEF MultisigInv, MultisigTypeOK, MultisigRecord
  <2>2. multisig[m].owner_set_seqno + 1 <= MaxSeqno
    BY <1>9, <1>12, <2>1, MultisigAssumption DEF MultisigInv, FewChanges
  <2> QED
    BY <2>1, <2>2, MultisigAssumption DEF NextSeqno
<1> QED
  BY <1>12, <1>13

-----------------------------------------------------------------------------
(* The invariant is inductive                                              *)

LEMMA InitInv == MultisigInit => MultisigInv
<1> SUFFICES ASSUME MultisigInit PROVE MultisigInv
  OBVIOUS
<1>1. MultisigTypeOK
  BY DEF MultisigInit, MultisigTypeOK
<1>2. ThresholdReachable /\ PerformedOnce /\ Belong /\ FlagsOfOwners /\ ApprovalsOfOwners
  BY DEF MultisigInit, ThresholdReachable, PerformedOnce, Belong, FlagsOfOwners,
         ApprovalsOfOwners
<1>3. FewChanges
  BY DEF MultisigInit, FewChanges
<1> QED
  BY <1>1, <1>2, <1>3 DEF MultisigInv

LEMMA CreateMultisigInv ==
  ASSUME MultisigInv, NEW m \in Multisigs, NEW l \in OwnerLists, NEW th \in Thresholds,
         NEW n \in Nonces, CreateMultisig(m, l, th, n)
  PROVE  MultisigInv'
<1> DEFINE new == [owners |-> l, threshold |-> th, nonce |-> n, owner_set_seqno |-> 0]
<1>1. /\ m \notin DOMAIN multisig
      /\ multisig' = [x \in DOMAIN multisig \cup {m} |-> IF x # m THEN multisig[x] ELSE new]
      /\ transaction' = transaction /\ performed' = performed /\ approved' = approved
  BY DEF CreateMultisig
<1>2. th \in Nat /\ Len(l) \in Nat
  BY MultisigAssumption
<1>3. new \in MultisigRecord /\ Sound(new)
  BY <1>2, MultisigAssumption DEF CreateMultisig, MultisigRecord, Sound
<1> HIDE DEF new
<1>4. MultisigTypeOK'
  BY <1>1, <1>3 DEF MultisigInv, MultisigTypeOK
<1>5. ThresholdReachable'
  BY <1>1, <1>3 DEF MultisigInv, ThresholdReachable, Sound
<1>6. Executed' = Executed /\ Cardinality(Executed) \in Nat
  BY <1>1, ExecutedFinite DEF MultisigInv, MultisigTypeOK, Executed
<1>7. FewChanges'
  BY <1>1, <1>6 DEF MultisigInv, FewChanges, new
<1>8. Belong' /\ FlagsOfOwners'
  BY <1>1 DEF MultisigInv, Belong, FlagsOfOwners, Current
<1>9. PerformedOnce'
  BY <1>1 DEF MultisigInv, PerformedOnce
<1>10. ApprovalsOfOwners'
  <2> SUFFICES ASSUME NEW t \in DOMAIN transaction, Current(transaction[t])'
               PROVE  approved[t] = Approvers(transaction[t])'
    BY <1>1 DEF ApprovalsOfOwners
  <2>1. multisig'[transaction[t].multisig] = multisig[transaction[t].multisig]
    BY <1>1 DEF MultisigInv, Belong
  <2>2. Current(transaction[t]) /\ Approvers(transaction[t])' = Approvers(transaction[t])
    BY <1>1, <2>1 DEF Current, Approvers
  <2> QED
    BY <2>2 DEF MultisigInv, ApprovalsOfOwners
<1> QED
  BY <1>4, <1>5, <1>7, <1>8, <1>9, <1>10 DEF MultisigInv

LEMMA CreateTransactionInv ==
  ASSUME MultisigInv, NEW t \in Txs, NEW m \in Multisigs, NEW p \in Owners,
         NEW ix \in Instructions, CreateTransaction(t, m, p, ix)
  PROVE  MultisigInv'
<1> DEFINE ms == multisig[m]
<1>1. PICK i \in DOMAIN ms.owners :
        /\ ms.owners[i] = p
        /\ transaction' = [x \in DOMAIN transaction \cup {t} |->
             IF x # t THEN transaction[x] ELSE
             [multisig |-> m, instruction |-> ix,
              signers |-> [j \in DOMAIN ms.owners |-> j = i],
              did_execute |-> FALSE, owner_set_seqno |-> ms.owner_set_seqno]]
  BY DEF CreateTransaction
<1> DEFINE new == [multisig |-> m, instruction |-> ix,
                   signers |-> [j \in DOMAIN ms.owners |-> j = i],
                   did_execute |-> FALSE, owner_set_seqno |-> ms.owner_set_seqno]
<1>2. /\ t \notin DOMAIN transaction /\ m \in DOMAIN multisig
      /\ multisig' = multisig /\ performed' = performed
      /\ approved' = [approved EXCEPT ![t] = {p}]
  BY DEF CreateTransaction
<1>3. ms \in MultisigRecord
  BY <1>2 DEF MultisigInv, MultisigTypeOK
<1>4. ms.owners \in Seq(Owners)
  BY <1>3, MultisigAssumption DEF MultisigRecord
<1>5. [j \in DOMAIN ms.owners |-> j = i] \in Seq(BOOLEAN)
  <2> DEFINE flags == [j \in DOMAIN ms.owners |-> j = i]
  <2>1. PICK k \in Nat : DOMAIN ms.owners = 1 .. k
    BY <1>4
  <2>2. flags \in [DOMAIN ms.owners -> BOOLEAN]
    BY Zenon
  <2> HIDE DEF flags
  <2> QED
    BY <2>1, <2>2 DEF flags
<1>6. new \in TransactionRecord
  BY <1>3, <1>5 DEF MultisigRecord, TransactionRecord
<1>7. /\ new.multisig = m /\ ~ new.did_execute
      /\ new.owner_set_seqno = ms.owner_set_seqno
      /\ new.signers = [j \in DOMAIN ms.owners |-> j = i]
  OBVIOUS
<1>8. transaction' = [x \in DOMAIN transaction \cup {t} |->
                        IF x # t THEN transaction[x] ELSE new]
  BY <1>1
<1> HIDE DEF new
<1>9. MultisigTypeOK'
  BY <1>2, <1>6, <1>8 DEF MultisigInv, MultisigTypeOK
<1>10. ThresholdReachable'
  BY <1>2 DEF MultisigInv, ThresholdReachable
<1>11. Executed' = Executed
  BY <1>2, <1>7, <1>8 DEF Executed
<1>12. FewChanges'
  BY <1>2, <1>11 DEF MultisigInv, FewChanges
<1>13. Belong'
  BY <1>2, <1>7, <1>8 DEF MultisigInv, Belong
<1>14. FlagsOfOwners'
  BY <1>2, <1>3, <1>7, <1>8 DEF MultisigInv, FlagsOfOwners, Current, MultisigRecord
<1>15. PerformedOnce'
  BY <1>2, <1>7, <1>8 DEF MultisigInv, PerformedOnce
<1>16. ApprovalsOfOwners'
  <2> SUFFICES ASSUME NEW x \in DOMAIN transaction \cup {t}, Current(transaction[x])'
               PROVE  approved'[x] = Approvers(transaction[x])'
    BY <1>8 DEF ApprovalsOfOwners
  <2>1. CASE x # t
    <3>1. x \in DOMAIN transaction /\ transaction'[x] = transaction[x]
      BY <1>8, <2>1
    <3>2. Current(transaction[x]) /\ Approvers(transaction[x])' = Approvers(transaction[x])
      BY <1>2, <3>1 DEF Current, Approvers
    <3>3. approved'[x] = approved[x]
      BY <1>2, <2>1, <3>1 DEF MultisigInv, MultisigTypeOK
    <3> QED
      BY <3>1, <3>2, <3>3 DEF MultisigInv, ApprovalsOfOwners
  <2>2. CASE x = t
    <3>1. approved'[x] = {p}
      BY <1>2, <2>2 DEF MultisigInv, MultisigTypeOK
    <3>2. transaction'[x] = new
      BY <1>8, <2>2
    <3>3. {j \in DOMAIN new.signers : new.signers[j]} = {i}
      BY <1>7
    <3>4. Approvers(transaction[x])'
            = {ms.owners[j] : j \in {j \in DOMAIN new.signers : new.signers[j]}}
      BY <1>2, <1>7, <3>2 DEF Approvers
    <3> QED
      BY <1>1, <3>1, <3>3, <3>4
  <2> QED
    BY <2>1, <2>2
<1> QED
  BY <1>9, <1>10, <1>12, <1>13, <1>14, <1>15, <1>16 DEF MultisigInv

LEMMA ApproveInv ==
  ASSUME MultisigInv, NEW t \in Txs, NEW p \in Owners, Approve(t, p)
  PROVE  MultisigInv'
<1> DEFINE tx == transaction[t]
<1>1. PICK i \in DOMAIN tx.signers :
        /\ multisig[tx.multisig].owners[i] = p
        /\ transaction' = [transaction EXCEPT ![t].signers[i] = TRUE]
  BY DEF Approve
<1>2. /\ t \in DOMAIN transaction /\ multisig' = multisig /\ performed' = performed
      /\ approved' = [approved EXCEPT ![t] = approved[t] \cup {p}]
  BY DEF Approve
<1>3. tx \in TransactionRecord
  BY <1>2 DEF MultisigInv, MultisigTypeOK
<1> DEFINE signers == [tx.signers EXCEPT ![i] = TRUE]
           new == [tx EXCEPT !.signers = signers]
<1>4. signers \in Seq(BOOLEAN) /\ DOMAIN signers = DOMAIN tx.signers
  BY <1>3 DEF TransactionRecord
<1>5. transaction' = [transaction EXCEPT ![t] = new]
  BY <1>1
<1> HIDE DEF signers
<1>6. /\ new \in TransactionRecord
      /\ new.multisig = tx.multisig /\ new.did_execute = tx.did_execute
      /\ new.owner_set_seqno = tx.owner_set_seqno
      /\ new.signers = signers
  BY <1>3, <1>4 DEF TransactionRecord
<1> HIDE DEF new
<1>7. MultisigTypeOK'
  BY <1>2, <1>5, <1>6 DEF MultisigInv, MultisigTypeOK
<1>8. ThresholdReachable'
  BY <1>2 DEF MultisigInv, ThresholdReachable
<1>9. Executed' = Executed
  BY <1>2, <1>5, <1>6 DEF Executed
<1>10. FewChanges'
  BY <1>2, <1>9 DEF MultisigInv, FewChanges
<1>11. Belong'
  BY <1>2, <1>5, <1>6 DEF MultisigInv, Belong
<1>12. FlagsOfOwners'
  BY <1>2, <1>4, <1>5, <1>6 DEF MultisigInv, FlagsOfOwners, Current
<1>13. PerformedOnce'
  BY <1>2, <1>5, <1>6 DEF MultisigInv, PerformedOnce
<1>14. ApprovalsOfOwners'
  <2> SUFFICES ASSUME NEW x \in DOMAIN transaction, Current(transaction[x])'
               PROVE  approved'[x] = Approvers(transaction[x])'
    BY <1>5 DEF ApprovalsOfOwners
  <2>1. Current(transaction[x]) /\ approved[x] = Approvers(transaction[x])
    <3>1. Current(transaction[x])
      BY <1>2, <1>5, <1>6 DEF Current
    <3> QED
      BY <3>1 DEF MultisigInv, ApprovalsOfOwners
  <2>2. CASE x # t
    <3>1. transaction'[x] = transaction[x] /\ approved'[x] = approved[x]
      BY <1>2, <1>5, <2>2 DEF MultisigInv, MultisigTypeOK
    <3> QED
      BY <1>2, <2>1, <3>1 DEF Approvers
  <2>3. CASE x = t
    <3>1. approved'[x] = approved[x] \cup {p}
      BY <1>2, <2>3 DEF MultisigInv, MultisigTypeOK
    <3>2. transaction'[x] = new
      BY <1>2, <1>5, <2>3
    <3>3. {j \in DOMAIN signers : signers[j]} = {j \in DOMAIN tx.signers : tx.signers[j]} \cup {i}
      BY <1>3, <1>4 DEF signers, TransactionRecord
    <3> DEFINE owners == multisig[tx.multisig].owners
    <3>4. Approvers(transaction[x])' = {owners[j] : j \in {j \in DOMAIN signers : signers[j]}}
      BY <1>2, <1>6, <3>2 DEF Approvers
    <3>5. Approvers(transaction[x]) = {owners[j] : j \in {j \in DOMAIN tx.signers : tx.signers[j]}}
      BY <2>3 DEF Approvers
    <3>6. owners[i] = p
      BY <1>1
    <3> HIDE DEF owners
    <3>7. Approvers(transaction[x])' = Approvers(transaction[x]) \cup {p}
      BY <3>3, <3>4, <3>5, <3>6
    <3> QED
      BY <2>1, <3>1, <3>7
  <2> QED
    BY <2>2, <2>3
<1> QED
  BY <1>7, <1>8, <1>10, <1>11, <1>12, <1>13, <1>14 DEF MultisigInv

LEMMA ExecuteInv ==
  ASSUME MultisigInv, NEW c \in Chains, ExecuteTransaction(c)
  PROVE  MultisigInv'
<1>1. /\ Range(c) \subseteq DOMAIN transaction
      /\ \A t \in Range(c) : ~ transaction[t].did_execute
      /\ transaction' = [t \in DOMAIN transaction |->
           IF t \in Range(c) THEN [transaction[t] EXCEPT !.did_execute = TRUE]
                             ELSE transaction[t]]
      /\ performed' = [t \in Txs |-> IF t \in Range(c) THEN performed[t] + 1
                                                       ELSE performed[t]]
      /\ approved' = approved
  BY Execution DEF MultisigInv, Executable
<1>2. DOMAIN transaction' = DOMAIN transaction
  BY <1>1
<1>3. ASSUME NEW t \in DOMAIN transaction
      PROVE  /\ transaction[t] \in TransactionRecord
             /\ transaction'[t] \in TransactionRecord
             /\ transaction'[t].multisig = transaction[t].multisig
             /\ transaction'[t].signers = transaction[t].signers
             /\ transaction'[t].owner_set_seqno = transaction[t].owner_set_seqno
             /\ transaction'[t].did_execute = (t \in Range(c) \/ transaction[t].did_execute)
  <2>1. transaction[t] \in TransactionRecord
    BY DEF MultisigInv, MultisigTypeOK
  <2> QED
    BY <1>1, <2>1 DEF TransactionRecord
<1>4. transaction' \in [DOMAIN transaction -> TransactionRecord]
  BY <1>1, <1>2, <1>3
<1>5. performed' \in [Txs -> Nat]
  BY <1>1 DEF MultisigInv, MultisigTypeOK
<1>6. PerformedOnce'
  <2> SUFFICES ASSUME NEW t \in Txs
               PROVE  performed'[t] = IF t \in DOMAIN transaction' /\ transaction'[t].did_execute
                                        THEN 1 ELSE 0
    BY DEF PerformedOnce
  <2>1. CASE t \in Range(c)
    BY <1>1, <1>2, <1>3, <2>1 DEF MultisigInv, PerformedOnce
  <2>2. CASE t \notin Range(c)
    BY <1>1, <1>2, <1>3, <2>2 DEF MultisigInv, PerformedOnce
  <2> QED
    BY <2>1, <2>2
<1>7. /\ Cardinality(Executed) \in Nat /\ Cardinality(Executed') >= Cardinality(Executed) + 1
      /\ \A m \in DOMAIN multisig :
           NextSeqno(multisig[m].owner_set_seqno) = multisig[m].owner_set_seqno + 1
  BY ExecutionRoom, ExecutedFinite DEF MultisigInv, MultisigTypeOK
<1>8. Cardinality(Executed') \in Nat
  <2>1. Executed' \subseteq Txs /\ IsFiniteSet(Txs)
    BY <1>2, FewTransactions DEF Executed, MultisigInv, MultisigTypeOK
  <2> QED
    BY <2>1, FS_Subset, FS_CardinalityType
<1>9. CASE multisig' = multisig
  <2>1. MultisigTypeOK' /\ ThresholdReachable'
    BY <1>1, <1>2, <1>4, <1>5, <1>9 DEF MultisigInv, MultisigTypeOK, ThresholdReachable
  <2>2. Belong' /\ FlagsOfOwners'
    BY <1>2, <1>3, <1>9 DEF MultisigInv, Belong, FlagsOfOwners, Current
  <2>3. FewChanges'
    BY <1>7, <1>8, <1>9 DEF MultisigInv, FewChanges, MultisigTypeOK, MultisigRecord
  <2>4. ApprovalsOfOwners'
    BY <1>1, <1>2, <1>3, <1>9 DEF MultisigInv, ApprovalsOfOwners, Current, Approvers
  <2> QED
    BY <1>6, <2>1, <2>2, <2>3, <2>4 DEF MultisigInv
<1>10. ASSUME NEW m \in DOMAIN multisig, NEW ms \in MultisigRecord,
              multisig' = [multisig EXCEPT ![m] = ms], Sound(ms),
              \/ ms.owner_set_seqno = NextSeqno(multisig[m].owner_set_seqno)
              \/ /\ ms.owners = multisig[m].owners
                 /\ ms.owner_set_seqno = multisig[m].owner_set_seqno
       PROVE  MultisigInv'
  <2>1. \A x \in DOMAIN multisig : multisig[x].owner_set_seqno \in Nat
    BY DEF MultisigInv, MultisigTypeOK, MultisigRecord
  <2>2. MultisigTypeOK'
    BY <1>1, <1>2, <1>4, <1>5, <1>10 DEF MultisigInv, MultisigTypeOK
  <2>3. ThresholdReachable'
    BY <1>10 DEF MultisigInv, ThresholdReachable, Sound
  <2>4. Belong'
    BY <1>2, <1>3, <1>10 DEF MultisigInv, Belong
  <2>5. \A x \in DOMAIN multisig' :
          multisig'[x].owner_set_seqno <= multisig[x].owner_set_seqno + 1
    BY <1>7, <1>10, <2>1
  <2>6. FewChanges'
    BY <1>7, <1>8, <1>10, <2>1, <2>2, <2>5 DEF MultisigInv, FewChanges, MultisigTypeOK, MultisigRecord
  <2>7. FlagsOfOwners'
    <3> SUFFICES ASSUME NEW t \in DOMAIN transaction
                 PROVE  LET tx == transaction'[t]
                            mx == multisig'[tx.multisig]
                        IN  /\ tx.owner_set_seqno <= mx.owner_set_seqno
                            /\ mx.owner_set_seqno = tx.owner_set_seqno
                                 => DOMAIN tx.signers = DOMAIN mx.owners
      BY <1>2 DEF FlagsOfOwners, Current
    <3>1. /\ transaction[t].owner_set_seqno \in Nat
          /\ transaction[t].multisig \in DOMAIN multisig
      BY <1>3 DEF MultisigInv, Belong, TransactionRecord
    <3>2. CASE transaction[t].multisig = m
      BY <1>3, <1>7, <1>10, <2>1, <3>1, <3>2 DEF MultisigInv, FlagsOfOwners, Current
    <3>3. CASE transaction[t].multisig # m
      BY <1>3, <1>10, <3>1, <3>3 DEF MultisigInv, FlagsOfOwners, Current
    <3> QED
      BY <3>2, <3>3
  <2>8. ApprovalsOfOwners'
    <3> SUFFICES ASSUME NEW t \in DOMAIN transaction, Current(transaction[t])'
                 PROVE  approved[t] = Approvers(transaction[t])'
      BY <1>1, <1>2 DEF ApprovalsOfOwners
    <3> DEFINE x == transaction[t].multisig
    <3>1. /\ transaction[t].owner_set_seqno \in Nat /\ x \in DOMAIN multisig
          /\ transaction[t].owner_set_seqno <= multisig[x].owner_set_seqno
      BY <1>3 DEF MultisigInv, Belong, FlagsOfOwners, TransactionRecord
    <3>2. multisig'[x].owner_set_seqno = transaction[t].owner_set_seqno
      BY <1>3 DEF Current
    <3> HIDE DEF x
    <3>3. multisig'[x].owners = multisig[x].owners
          /\ multisig[x].owner_set_seqno = transaction[t].owner_set_seqno
      <4>1. CASE x = m
        BY <1>7, <1>10, <2>1, <3>1, <3>2, <4>1
      <4>2. CASE x # m
        BY <1>10, <3>1, <3>2, <4>2
      <4> QED
        BY <4>1, <4>2
    <3>4. Current(transaction[t]) /\ Approvers(transaction[t])' = Approvers(transaction[t])
      BY <1>3, <3>3 DEF Current, Approvers, x
    <3> QED
      BY <3>4 DEF MultisigInv, ApprovalsOfOwners
  <2> QED
    BY <1>6, <2>2, <2>3, <2>4, <2>6, <2>7, <2>8 DEF MultisigInv
<1>11. Organised({transaction[t].multisig : t \in Range(c)})
  BY Execution DEF MultisigInv
<1> QED
  BY <1>9, <1>10, <1>11 DEF Organised

LEMMA StepInv == MultisigInv /\ [MultisigNext]_multisigVars => MultisigInv'
<1> SUFFICES ASSUME MultisigInv, [MultisigNext]_multisigVars PROVE MultisigInv'
  OBVIOUS
<1>1. CASE UNCHANGED multisigVars
  <2>1. /\ multisig' = multisig /\ transaction' = transaction
        /\ performed' = performed /\ approved' = approved
    BY <1>1 DEF multisigVars
  <2>2. Executed' = Executed
    BY <2>1 DEF Executed
  <2> QED
    BY <2>1, <2>2 DEF MultisigInv, MultisigTypeOK, ThresholdReachable, PerformedOnce, Belong,
                      FewChanges, FlagsOfOwners, ApprovalsOfOwners, Approvers, Current
<1>2. ASSUME NEW m \in Multisigs, NEW l \in OwnerLists, NEW th \in Thresholds,
             NEW n \in Nonces, CreateMultisig(m, l, th, n)
      PROVE  MultisigInv'
  BY <1>2, CreateMultisigInv
<1>3. ASSUME NEW t \in Txs, NEW m \in Multisigs, NEW p \in Owners,
             NEW ix \in Instructions, CreateTransaction(t, m, p, ix)
      PROVE  MultisigInv'
  BY <1>3, CreateTransactionInv
<1>4. ASSUME NEW t \in Txs, NEW p \in Owners, Approve(t, p)
      PROVE  MultisigInv'
  BY <1>4, ApproveInv
<1>5. ASSUME NEW c \in Chains, ExecuteTransaction(c)
      PROVE  MultisigInv'
  BY <1>5, ExecuteInv
<1> QED
  BY <1>1, <1>2, <1>3, <1>4, <1>5 DEF MultisigNext

LEMMA Invariant == MultisigSpec => []MultisigInv
  BY InitInv, StepInv, PTL DEF MultisigSpec

-----------------------------------------------------------------------------
(* Who approved                                                            *)

(* The flags of a current transaction stand for as many owners in force.   *)
LEMMA ApproversCounted ==
  ASSUME MultisigInv, NEW t \in DOMAIN transaction, Current(transaction[t])
  PROVE  LET tx == transaction[t]
         IN  /\ Approvers(tx) \subseteq Range(multisig[tx.multisig].owners)
             /\ Cardinality(Approvers(tx)) = SigCount(tx)
             /\ SigCount(tx) \in Nat
<1> DEFINE tx == transaction[t]
           owners == multisig[tx.multisig].owners
           I == {i \in DOMAIN tx.signers : tx.signers[i]}
           f == [i \in I |-> owners[i]]
<1>1. tx.multisig \in DOMAIN multisig
  BY DEF MultisigInv, Belong
<1>2. DOMAIN tx.signers = DOMAIN owners
  BY DEF MultisigInv, FlagsOfOwners
<1>3. PICK k \in Nat : DOMAIN tx.signers = 1 .. k
  BY DEF MultisigInv, MultisigTypeOK, TransactionRecord
<1>4. IsFiniteSet(I)
  <2>1. IsFiniteSet(1 .. k)
    BY FS_Interval
  <2> QED
    BY <1>3, <2>1, FS_Subset
<1>5. IsInjective(owners)
  BY <1>1 DEF MultisigInv, ThresholdReachable, AssertUniqueOwners
<1>6. f \in Bijection(I, Approvers(tx))
  BY <1>2, <1>5 DEF Bijection, Injection, Surjection, IsInjective, Approvers
<1>7. ExistsBijection(I, Approvers(tx))
  BY <1>6 DEF ExistsBijection
<1>8. Cardinality(Approvers(tx)) = Cardinality(I) /\ Cardinality(I) \in Nat
  BY <1>4, <1>7, FS_Bijection, FS_CardinalityType
<1>9. Approvers(tx) \subseteq Range(owners)
  BY <1>2 DEF Approvers, Range
<1> QED
  BY <1>8, <1>9 DEF SigCount

(* Who passes the checks of execute_transaction has the approval of as     *)
(* many owners in force as the threshold in force asks.                    *)
LEMMA ExecutableApproved ==
  ASSUME MultisigInv, NEW t \in DOMAIN transaction, Executable(transaction[t])
  PROVE  LET tx == transaction[t]
         IN  /\ Approvers(tx) \subseteq Range(multisig[tx.multisig].owners)
             /\ Cardinality(Approvers(tx)) >= multisig[tx.multisig].threshold
  BY ApproversCounted DEF Executable, EnoughSigners

(* They approved it themselves, and it is marked.                          *)
LEMMA ExecutedCarried ==
  ASSUME MultisigInv, NEW c \in Chains, ExecuteTransaction(c), NEW t \in Range(c)
  PROVE  /\ t \in DOMAIN transaction
         /\ ~ transaction[t].did_execute /\ transaction'[t].did_execute
         /\ Carried(t)
<1> DEFINE owners == multisig[transaction[t].multisig].owners
<1>1. t \in DOMAIN transaction /\ Executable(transaction[t])
  BY Execution DEF MultisigInv
<1>2. ~ transaction[t].did_execute /\ transaction'[t].did_execute
  <2>1. transaction[t] \in TransactionRecord
    BY <1>1 DEF MultisigInv, MultisigTypeOK
  <2>2. transaction'[t] = [transaction[t] EXCEPT !.did_execute = TRUE]
    BY <1>1, Execution DEF MultisigInv
  <2> QED
    BY <1>1, <2>1, <2>2 DEF TransactionRecord, Executable
<1>3. approved[t] = Approvers(transaction[t])
  BY <1>1 DEF MultisigInv, ApprovalsOfOwners, Executable
<1>4. approved[t] \cap Range(owners) = Approvers(transaction[t])
  BY <1>1, <1>3, ExecutableApproved
<1> QED
  BY <1>1, <1>2, <1>4, ExecutableApproved DEF Carried

LEMMA ExecuteGoverned ==
  ASSUME MultisigInv, NEW c \in Chains, ExecuteTransaction(c),
         NEW m \in DOMAIN multisig, multisig'[m] # multisig[m]
  PROVE  \E t \in DOMAIN transaction :
           /\ transaction[t].multisig = m
           /\ ~ transaction[t].did_execute /\ transaction'[t].did_execute
           /\ Carried(t)
<1>1. Organised({transaction[t].multisig : t \in Range(c)})
  BY Execution DEF MultisigInv
<1>2. multisig \in [DOMAIN multisig -> MultisigRecord]
  BY DEF MultisigInv, MultisigTypeOK
<1>3. m \in {transaction[t].multisig : t \in Range(c)}
  BY <1>1, <1>2 DEF Organised
<1>4. PICK t \in Range(c) : transaction[t].multisig = m
  BY <1>3
<1> QED
  BY <1>4, ExecutedCarried

-----------------------------------------------------------------------------
(* The theorems                                                            *)

(* The accounts hold what their fields can hold: thresholds are never      *)
(* zero and sequence numbers stay in their width.                          *)
THEOREM MultisigTypeCorrect == MultisigSpec => []MultisigTypeOK
<1>1. MultisigInv => MultisigTypeOK
  BY DEF MultisigInv
<1> QED
  BY Invariant, <1>1, PTL

(* Whatever changes of owners and threshold are executed, in any order and *)
(* nested, the owners stay distinct and able to reach the threshold.       *)
THEOREM ThresholdSafe == MultisigSpec => []ThresholdReachable
<1>1. MultisigInv => ThresholdReachable
  BY DEF MultisigInv
<1> QED
  BY Invariant, <1>1, PTL

(* No stored instruction takes effect twice, whichever others execute it.  *)
THEOREM OnceSafe == MultisigSpec => []PerformedOnce
<1>1. MultisigInv => PerformedOnce
  BY DEF MultisigInv
<1> QED
  BY Invariant, <1>1, PTL

(* A multisig changes only by a transaction of its own that enough of the  *)
(* owners in force approved.                                               *)
THEOREM GovernedSafe == MultisigSpec => GovernedByOwners
<1> DEFINE Governed ==
      \A m \in DOMAIN multisig : multisig'[m] # multisig[m] =>
        \E t \in DOMAIN transaction :
          /\ transaction[t].multisig = m
          /\ ~ transaction[t].did_execute /\ transaction'[t].did_execute
          /\ Carried(t)
<1>1. MultisigInv /\ [MultisigNext]_multisigVars => [Governed]_multisigVars
  <2> SUFFICES ASSUME MultisigInv, MultisigNext PROVE Governed
    OBVIOUS
  <2>1. ASSUME NEW m \in Multisigs, NEW l \in OwnerLists, NEW th \in Thresholds,
               NEW n \in Nonces, CreateMultisig(m, l, th, n)
        PROVE  Governed
    BY <2>1 DEF CreateMultisig
  <2>2. ASSUME NEW t \in Txs, NEW m \in Multisigs, NEW p \in Owners,
               NEW ix \in Instructions, CreateTransaction(t, m, p, ix)
        PROVE  Governed
    BY <2>2 DEF CreateTransaction
  <2>3. ASSUME NEW t \in Txs, NEW p \in Owners, Approve(t, p)
        PROVE  Governed
    BY <2>3 DEF Approve
  <2>4. ASSUME NEW c \in Chains, ExecuteTransaction(c)
        PROVE  Governed
    BY <2>4, ExecuteGoverned
  <2> QED
    BY <2>1, <2>2, <2>3, <2>4 DEF MultisigNext
<1> QED
  BY Invariant, <1>1, PTL DEF MultisigSpec, GovernedByOwners

-----------------------------------------------------------------------------
(* The multisig implements the council                                     *)

(* An injective list has as many members as entries.                       *)
LEMMA MembersCounted ==
  ASSUME NEW owners \in Seq(Owners), IsInjective(owners)
  PROVE  Cardinality(Range(owners)) = Len(owners)
<1>1. IsFiniteSet(1 .. Len(owners)) /\ Cardinality(1 .. Len(owners)) = Len(owners)
  <2>1. Len(owners) \in Nat
    OBVIOUS
  <2> QED
    BY <2>1, FS_Interval
<1>2. owners \in Bijection(1 .. Len(owners), Range(owners))
  BY DEF Bijection, Injection, Surjection, Range
<1> QED
  BY <1>1, <1>2, FS_Bijection DEF ExistsBijection

(* The council counts with the same operator.                              *)
LEMMA SameCardinality == \A S : Governance!Cardinality(S) = Cardinality(S)
  BY Zenon DEF Governance!Cardinality, Cardinality

LEMMA SoundCouncil ==
  ASSUME NEW ms \in MultisigRecord, Sound(ms)
  PROVE  Governance!Sound([members |-> Range(ms.owners), quorum |-> ms.threshold])
<1>1. ms.owners \in Seq(Owners) /\ IsInjective(ms.owners)
  BY MultisigAssumption DEF MultisigRecord, Sound, AssertUniqueOwners
<1> QED
  BY <1>1, MembersCounted, SameCardinality DEF Sound, Governance!Sound

(* Closing a motion, whatever its fields.                                  *)
LEMMA ClosedMotion ==
  ASSUME NEW m, NEW old, NEW people, NEW new
  PROVE  Governance!Close([council |-> m, state |-> old, approvers |-> people], new)
           = [council |-> m, state |-> new, approvers |-> {}]
  BY DEF Governance!Close

LEMMA CreateMultisigFounds ==
  ASSUME MultisigInv, MultisigInv', NEW m \in Multisigs, NEW l \in OwnerLists, NEW th \in Thresholds,
         NEW n \in Nonces, CreateMultisig(m, l, th, n)
  PROVE  Governance!Found(m)
<1>1. /\ m \notin DOMAIN multisig /\ DOMAIN multisig' = DOMAIN multisig \cup {m}
      /\ \A x \in DOMAIN multisig : multisig'[x] = multisig[x]
      /\ transaction' = transaction
  BY DEF CreateMultisig
<1>2. /\ m \notin DOMAIN CouncilOf /\ DOMAIN CouncilOf' = DOMAIN CouncilOf \cup {m}
      /\ \A x \in DOMAIN CouncilOf : CouncilOf'[x] = CouncilOf[x]
  BY <1>1 DEF CouncilOf
<1>3. Governance!Sound(CouncilOf'[m])
  <2>1. multisig'[m] \in MultisigRecord /\ Sound(multisig'[m])
    BY <1>1 DEF MultisigInv, MultisigTypeOK, ThresholdReachable, Sound
  <2>2. CouncilOf'[m] = [members |-> Range(multisig'[m].owners),
                         quorum |-> multisig'[m].threshold]
    BY <1>1 DEF CouncilOf
  <2> QED
    BY <2>1, <2>2, SoundCouncil
<1>4. MotionOf' = MotionOf
  <2>1. ASSUME NEW t \in DOMAIN transaction
        PROVE  (MotionOf[t])' = MotionOf[t]
    <3>1. t \in DOMAIN transaction' /\ transaction'[t] = transaction[t]
      BY <1>1
    <3>2. multisig'[transaction[t].multisig] = multisig[transaction[t].multisig]
      BY <1>1 DEF MultisigInv, Belong
    <3> QED
      BY <3>1, <3>2 DEF MotionOf, State, Current, Approvers
  <2> QED
    BY <1>1, <2>1 DEF MotionOf
<1> QED
  BY <1>2, <1>3, <1>4 DEF Governance!Found

LEMMA CreateTransactionProposes ==
  ASSUME MultisigInv, NEW t \in Txs, NEW m \in Multisigs, NEW p \in Owners,
         NEW ix \in Instructions, CreateTransaction(t, m, p, ix)
  PROVE  Governance!Propose(t)
<1> DEFINE owners == multisig[m].owners
<1>1. PICK i \in DOMAIN owners :
        /\ owners[i] = p
        /\ transaction' = [x \in DOMAIN transaction \cup {t} |->
             IF x # t THEN transaction[x] ELSE
             [multisig |-> m, instruction |-> ix,
              signers |-> [j \in DOMAIN owners |-> j = i],
              did_execute |-> FALSE, owner_set_seqno |-> multisig[m].owner_set_seqno]]
  BY DEF CreateTransaction
<1>2. t \notin DOMAIN transaction /\ m \in DOMAIN multisig /\ multisig' = multisig
  BY DEF CreateTransaction
<1>3. /\ DOMAIN transaction' = DOMAIN transaction \cup {t}
      /\ \A x \in DOMAIN transaction : transaction'[x] = transaction[x]
  BY <1>1, <1>2
<1>4. CouncilOf' = CouncilOf
  BY <1>2 DEF CouncilOf
<1>5. /\ t \notin DOMAIN MotionOf /\ DOMAIN MotionOf' = DOMAIN MotionOf \cup {t}
      /\ \A x \in DOMAIN MotionOf : MotionOf'[x] = MotionOf[x]
  BY <1>2, <1>3 DEF MotionOf, State, Current, Approvers
<1>6. /\ transaction'[t].multisig = m /\ ~ transaction'[t].did_execute
      /\ transaction'[t].owner_set_seqno = multisig'[m].owner_set_seqno
      /\ transaction'[t].signers = [j \in DOMAIN owners |-> j = i]
  BY <1>1, <1>2
<1>7. State(transaction[t])' = "open"
  BY <1>6 DEF State, Current
<1>8. Approvers(transaction[t])' = {p}
  <2>1. Approvers(transaction[t])'
          = {owners[j] : j \in {j \in DOMAIN transaction'[t].signers : transaction'[t].signers[j]}}
    BY <1>2, <1>6 DEF Approvers
  <2>2. {j \in DOMAIN transaction'[t].signers : transaction'[t].signers[j]} = {i}
    BY <1>6
  <2> QED
    BY <1>1, <2>1, <2>2
<1>9. (MotionOf[t])' = [council |-> m, state |-> "open", approvers |-> {p}]
  BY <1>3, <1>6, <1>7, <1>8 DEF MotionOf
<1>10. p \in CouncilOf[m].members /\ m \in DOMAIN CouncilOf
  BY <1>1, <1>2 DEF CouncilOf, Range
<1>11. MotionOf'[t].council = m
  BY <1>9
<1>12. MotionOf'[t] = [council |-> MotionOf'[t].council, state |-> "open", approvers |-> {p}]
  BY <1>9
<1> QED
  BY <1>4, <1>5, <1>10, <1>11, <1>12 DEF Governance!Propose

LEMMA ApproveApproves ==
  ASSUME MultisigInv, NEW t \in Txs, NEW p \in Owners, Approve(t, p)
  PROVE  Governance!Approve(t) \/ UNCHANGED Governance!vars
<1> DEFINE tx == transaction[t]
           new == transaction'[t]
           owners == multisig[tx.multisig].owners
<1>1. PICK i \in DOMAIN owners \cap DOMAIN tx.signers :
        /\ owners[i] = p
        /\ transaction' = [transaction EXCEPT ![t].signers[i] = TRUE]
  BY DEF Approve
<1>2. t \in DOMAIN transaction /\ multisig' = multisig /\ Current(tx)
  BY DEF Approve
<1>3. tx \in TransactionRecord
  BY <1>2 DEF MultisigInv, MultisigTypeOK
<1>4. /\ new.multisig = tx.multisig /\ new.did_execute = tx.did_execute
      /\ new.owner_set_seqno = tx.owner_set_seqno
      /\ new.signers = [tx.signers EXCEPT ![i] = TRUE]
      /\ DOMAIN transaction' = DOMAIN transaction
      /\ \A x \in DOMAIN transaction \ {t} : transaction'[x] = transaction[x]
  BY <1>1, <1>2, <1>3 DEF TransactionRecord
<1>5. CouncilOf' = CouncilOf
  BY <1>2 DEF CouncilOf
<1>6. ASSUME NEW x \in DOMAIN transaction \ {t}
      PROVE  (MotionOf[x])' = MotionOf[x]
  <2>1. x \in DOMAIN transaction' /\ transaction'[x] = transaction[x]
    BY <1>4
  <2> QED
    BY <1>2, <2>1 DEF MotionOf, State, Current, Approvers
<1>7. DOMAIN MotionOf' = DOMAIN MotionOf /\ DOMAIN MotionOf = DOMAIN transaction
  BY <1>4 DEF MotionOf
<1>8. CASE tx.did_execute
  <2>1. (MotionOf[t])' = MotionOf[t]
    BY <1>2, <1>4, <1>8 DEF MotionOf, State
  <2>2. MotionOf' = MotionOf
    BY <1>6, <1>7, <2>1 DEF MotionOf
  <2> QED
    BY <1>5, <2>2 DEF Governance!vars
<1>9. CASE ~ tx.did_execute
  <2>1. State(tx) = "open" /\ State(transaction[t])' = "open"
    BY <1>2, <1>4, <1>9 DEF State, Current
  <2>2. Approvers(transaction[t])' = Approvers(tx) \cup {p}
    <3>1. Approvers(transaction[t])' = {owners[j] : j \in {j \in DOMAIN new.signers : new.signers[j]}}
      BY <1>2, <1>4 DEF Approvers
    <3>2. {j \in DOMAIN new.signers : new.signers[j]}
            = {j \in DOMAIN tx.signers : tx.signers[j]} \cup {i}
      BY <1>1, <1>3, <1>4 DEF TransactionRecord
    <3> QED
      BY <1>1, <3>1, <3>2 DEF Approvers
  <2>3. MotionOf[t] = [council |-> tx.multisig, state |-> "open", approvers |-> Approvers(tx)]
    BY <1>2, <2>1 DEF MotionOf
  <2>4. (MotionOf[t])' = [council |-> tx.multisig, state |-> "open",
                          approvers |-> Approvers(tx) \cup {p}]
    BY <1>2, <1>4, <2>1, <2>2 DEF MotionOf
  <2>5. MotionOf' = [MotionOf EXCEPT ![t].approvers = @ \cup {p}]
    BY <1>2, <1>6, <1>7, <2>3, <2>4 DEF MotionOf
  <2>6. p \in CouncilOf[tx.multisig].members
    BY <1>1, <1>2 DEF CouncilOf, Range, MultisigInv, Belong
  <2>7. MotionOf[t].state = "open" /\ MotionOf[t].council = tx.multisig
    BY <2>3
  <2> QED
    BY <1>2, <1>5, <1>7, <2>5, <2>6, <2>7 DEF Governance!Approve
<1> QED
  BY <1>8, <1>9

(* An execution enacts the motions of the transactions it burns.           *)
LEMMA ExecuteEnacts ==
  ASSUME MultisigInv, MultisigInv', NEW c \in Chains, ExecuteTransaction(c)
  PROVE  \E T \in SUBSET DOMAIN MotionOf : Governance!Enact(T)
<1> DEFINE T == Range(c)
           Enacted(t) == [council |-> transaction[t].multisig, state |-> "enacted",
                          approvers |-> {}]
           Void(t) == [council |-> transaction[t].multisig, state |-> "void",
                       approvers |-> {}]
<1>1. /\ T # {} /\ T \subseteq DOMAIN transaction
      /\ \A t \in T : Executable(transaction[t])
      /\ DOMAIN transaction' = DOMAIN transaction
      /\ Organised({transaction[t].multisig : t \in T})
  BY Execution DEF MultisigInv
<1>2. ASSUME NEW t \in DOMAIN transaction
      PROVE  /\ transaction'[t].multisig = transaction[t].multisig
             /\ transaction'[t].signers = transaction[t].signers
             /\ transaction'[t].owner_set_seqno = transaction[t].owner_set_seqno
             /\ transaction'[t].did_execute = (t \in T \/ transaction[t].did_execute)
             /\ t \notin T => transaction'[t] = transaction[t]
             /\ transaction[t].multisig \in DOMAIN multisig
             /\ transaction[t].owner_set_seqno \in Nat
             /\ multisig[transaction[t].multisig].owner_set_seqno \in Nat
             /\ transaction[t].owner_set_seqno
                  <= multisig[transaction[t].multisig].owner_set_seqno
  <2>1. transaction[t] \in TransactionRecord
    BY DEF MultisigInv, MultisigTypeOK
  <2>2. transaction' = [x \in DOMAIN transaction |->
          IF x \in T THEN [transaction[x] EXCEPT !.did_execute = TRUE] ELSE transaction[x]]
    BY Execution DEF MultisigInv
  <2>3. transaction[t].multisig \in DOMAIN multisig
    BY DEF MultisigInv, Belong
  <2>4. multisig[transaction[t].multisig] \in MultisigRecord
    BY <2>3 DEF MultisigInv, MultisigTypeOK
  <2>5. transaction[t].owner_set_seqno <= multisig[transaction[t].multisig].owner_set_seqno
    BY DEF MultisigInv, FlagsOfOwners
  <2>6. /\ transaction'[t].multisig = transaction[t].multisig
        /\ transaction'[t].signers = transaction[t].signers
        /\ transaction'[t].owner_set_seqno = transaction[t].owner_set_seqno
        /\ transaction'[t].did_execute = (t \in T \/ transaction[t].did_execute)
        /\ t \notin T => transaction'[t] = transaction[t]
    BY <2>1, <2>2 DEF TransactionRecord
  <2> QED
    BY <2>1, <2>3, <2>4, <2>5, <2>6 DEF TransactionRecord, MultisigRecord
<1>3. DOMAIN MotionOf = DOMAIN transaction /\ DOMAIN MotionOf' = DOMAIN transaction
  BY <1>1 DEF MotionOf
<1>4. ASSUME NEW t \in T
      PROVE  /\ MotionOf[t].state = "open" /\ MotionOf[t].council = transaction[t].multisig
             /\ Governance!Carried(t)
             /\ (MotionOf[t])' = Enacted(t)
             /\ Governance!Close(MotionOf[t], "enacted") = Enacted(t)
  <2>1. State(transaction[t]) = "open" /\ t \in DOMAIN transaction
    BY <1>1 DEF Executable, State
  <2>2. MotionOf[t] = [council |-> transaction[t].multisig, state |-> "open",
                       approvers |-> Approvers(transaction[t])]
    BY <2>1 DEF MotionOf
  <2>3. CouncilOf[transaction[t].multisig].quorum = multisig[transaction[t].multisig].threshold
    BY <1>2, <2>1 DEF CouncilOf
  <2>4. Cardinality(Approvers(transaction[t])) >= multisig[transaction[t].multisig].threshold
    BY <1>1, <2>1, ExecutableApproved
  <2>5. Governance!Carried(t)
    BY <2>2, <2>3, <2>4, SameCardinality DEF Governance!Carried
  <2>6. State(transaction[t])' = "enacted"
    BY <1>2, <2>1 DEF State
  <2>7. (MotionOf[t])' = Enacted(t)
    BY <1>1, <1>2, <2>1, <2>6 DEF MotionOf
  <2>8. Governance!Close(MotionOf[t], "enacted") = Enacted(t)
    BY <2>2, ClosedMotion
  <2>9. MotionOf[t].state = "open" /\ MotionOf[t].council = transaction[t].multisig
    BY <2>2
  <2> QED
    BY <2>5, <2>7, <2>8, <2>9
<1>5. ASSUME NEW t \in DOMAIN transaction \ T,
             multisig'[transaction[t].multisig].owner_set_seqno
               = multisig[transaction[t].multisig].owner_set_seqno,
             multisig'[transaction[t].multisig].owners
               = multisig[transaction[t].multisig].owners
      PROVE  (MotionOf[t])' = MotionOf[t]
  <2>1. /\ t \in DOMAIN transaction /\ t \in DOMAIN transaction'
        /\ transaction'[t] = transaction[t]
    BY <1>1, <1>2
  <2>2. State(transaction[t])' = State(transaction[t])
    BY <1>5, <2>1 DEF State, Current
  <2>3. Approvers(transaction[t])' = Approvers(transaction[t])
    BY <1>5, <2>1 DEF Approvers
  <2> QED
    BY <2>1, <2>2, <2>3 DEF MotionOf
<1>6. ASSUME multisig' = multisig
      PROVE  Governance!Enact(T)
  <2>1. CouncilOf' = CouncilOf
    BY <1>6 DEF CouncilOf
  <2>2. MotionOf' = [t \in DOMAIN MotionOf |->
          IF t \in T THEN Governance!Close(MotionOf[t], "enacted") ELSE MotionOf[t]]
    BY <1>3, <1>4, <1>5, <1>6 DEF MotionOf
  <2> QED
    BY <1>1, <1>3, <1>4, <2>1, <2>2 DEF Governance!Enact
<1>7. ASSUME NEW m \in DOMAIN multisig \cap {transaction[t].multisig : t \in T},
             NEW ms \in MultisigRecord,
             multisig' = [multisig EXCEPT ![m] = ms], Sound(ms),
             ms.owners = multisig[m].owners,
             ms.owner_set_seqno = multisig[m].owner_set_seqno
      PROVE  Governance!Enact(T)
  <2>1. \A x \in DOMAIN multisig :
          /\ multisig'[x].owner_set_seqno = multisig[x].owner_set_seqno
          /\ multisig'[x].owners = multisig[x].owners
    BY <1>7
  <2>2. MotionOf' = [t \in DOMAIN MotionOf |->
          IF t \in T THEN Governance!Close(MotionOf[t], "enacted") ELSE MotionOf[t]]
    <3>1. ASSUME NEW t \in DOMAIN transaction \ T
          PROVE  (MotionOf[t])' = MotionOf[t]
      BY <1>2, <1>5, <2>1
    <3> QED
      BY <1>3, <1>4, <3>1 DEF MotionOf
  <2>3. CouncilOf'[m] = [members |-> Range(ms.owners), quorum |-> ms.threshold]
    BY <1>7 DEF CouncilOf
  <2>4. Governance!Sound(CouncilOf'[m])
    BY <1>7, <2>3, SoundCouncil
  <2>5. CouncilOf' = [CouncilOf EXCEPT ![m].quorum = CouncilOf'[m].quorum]
    BY <1>7, <2>3 DEF CouncilOf
  <2>6. m \in {MotionOf[t].council : t \in T}
    BY <1>4
  <2> QED
    BY <1>1, <1>4, <2>2, <2>4, <2>5, <2>6 DEF Governance!Enact
<1>8. ASSUME NEW m \in DOMAIN multisig \cap {transaction[t].multisig : t \in T},
             NEW ms \in MultisigRecord,
             multisig' = [multisig EXCEPT ![m] = ms], Sound(ms),
             ms.owner_set_seqno = NextSeqno(multisig[m].owner_set_seqno)
      PROVE  Governance!Enact(T)
  <2>1. ms.owner_set_seqno = multisig[m].owner_set_seqno + 1
    BY <1>8, ExecutionRoom
  <2>2. ASSUME NEW t \in DOMAIN transaction \ T
        PROVE  (MotionOf[t])' =
                 IF MotionOf[t].council = m /\ MotionOf[t].state = "open"
                   THEN Governance!Close(MotionOf[t], "void") ELSE MotionOf[t]
    <3>1. MotionOf[t] =
            [council |-> transaction[t].multisig, state |-> State(transaction[t]),
             approvers |-> IF State(transaction[t]) = "open"
                             THEN Approvers(transaction[t]) ELSE {}]
      BY DEF MotionOf
    <3>2. CASE transaction[t].multisig # m
      BY <1>2, <1>5, <1>8, <3>1, <3>2
    <3>3. CASE transaction[t].multisig = m /\ State(transaction[t]) = "open"
      <4>1. State(transaction[t])' = "void"
        BY <1>2, <1>8, <2>1, <3>3 DEF State, Current
      <4>2. (MotionOf[t])' = Void(t)
        BY <1>1, <1>2, <4>1 DEF MotionOf
      <4>3. Governance!Close(MotionOf[t], "void") = Void(t)
        BY <3>1, ClosedMotion
      <4>4. MotionOf[t].council = m /\ MotionOf[t].state = "open"
        BY <3>1, <3>3
      <4> QED
        BY <4>2, <4>3, <4>4
    <3>4. CASE transaction[t].multisig = m /\ State(transaction[t]) # "open"
      <4>1. State(transaction[t])' = State(transaction[t])
        BY <1>2, <1>8, <2>1, <3>4 DEF State, Current
      <4>2. (MotionOf[t])' = [council |-> m, state |-> State(transaction[t]), approvers |-> {}]
        BY <1>1, <1>2, <3>4, <4>1 DEF MotionOf
      <4> QED
        BY <3>1, <3>4, <4>2
    <3> QED
      BY <3>2, <3>3, <3>4
  <2>3. MotionOf' = [t \in DOMAIN MotionOf |->
          IF t \in T THEN Governance!Close(MotionOf[t], "enacted")
          ELSE IF MotionOf[t].council = m /\ MotionOf[t].state = "open"
            THEN Governance!Close(MotionOf[t], "void") ELSE MotionOf[t]]
    BY <1>3, <1>4, <2>2 DEF MotionOf
  <2>4. CouncilOf'[m] = [members |-> Range(ms.owners), quorum |-> ms.threshold]
    BY <1>8 DEF CouncilOf
  <2>5. Governance!Sound(CouncilOf'[m])
    BY <1>8, <2>4, SoundCouncil
  <2>6. CouncilOf' = [CouncilOf EXCEPT ![m] = CouncilOf'[m]]
    BY <1>8, <2>4 DEF CouncilOf
  <2>7. m \in {MotionOf[t].council : t \in T}
    BY <1>4
  <2> QED
    BY <1>1, <1>4, <2>3, <2>5, <2>6, <2>7 DEF Governance!Enact
<1>9. Governance!Enact(T)
  <2>1. CASE multisig' = multisig
    BY <1>6, <2>1
  <2>2. ASSUME NEW m \in DOMAIN multisig \cap {transaction[t].multisig : t \in T},
               NEW ms \in MultisigRecord,
               multisig' = [multisig EXCEPT ![m] = ms], Sound(ms),
               \/ ms.owner_set_seqno = NextSeqno(multisig[m].owner_set_seqno)
               \/ /\ ms.owners = multisig[m].owners
                  /\ ms.owner_set_seqno = multisig[m].owner_set_seqno
        PROVE  Governance!Enact(T)
    BY <1>7, <1>8, <2>2
  <2> HIDE DEF T
  <2> QED
    BY <1>1, <2>1, <2>2 DEF Organised
<1> QED
  BY <1>1, <1>3, <1>9

(* The program implements the council, whatever is stored and executed.    *)
THEOREM GovernanceSafe == MultisigSpec => GovernanceKept
<1>1. MultisigInit => Governance!Init
  BY DEF MultisigInit, Governance!Init, CouncilOf, MotionOf
<1>2. MultisigInv /\ MultisigInv' /\ [MultisigNext]_multisigVars => [Governance!Next]_Governance!vars
  <2> SUFFICES ASSUME MultisigInv, MultisigInv', [MultisigNext]_multisigVars
               PROVE  Governance!Next \/ UNCHANGED Governance!vars
    OBVIOUS
  <2>1. CASE UNCHANGED multisigVars
    <3>1. multisig' = multisig /\ transaction' = transaction
      BY <2>1 DEF multisigVars
    <3> QED
      BY <3>1 DEF Governance!vars, CouncilOf, MotionOf, State, Current, Approvers
  <2>2. ASSUME NEW m \in Multisigs, NEW l \in OwnerLists, NEW th \in Thresholds,
               NEW n \in Nonces, CreateMultisig(m, l, th, n)
        PROVE  Governance!Next
    BY <2>2, CreateMultisigFounds DEF Governance!Next
  <2>3. ASSUME NEW t \in Txs, NEW m \in Multisigs, NEW p \in Owners,
               NEW ix \in Instructions, CreateTransaction(t, m, p, ix)
        PROVE  Governance!Next
    BY <2>3, CreateTransactionProposes DEF Governance!Next
  <2>4. ASSUME NEW t \in Txs, NEW p \in Owners, Approve(t, p)
        PROVE  Governance!Next \/ UNCHANGED Governance!vars
    BY <2>4, ApproveApproves DEF Governance!Next
  <2>5. ASSUME NEW c \in Chains, ExecuteTransaction(c)
        PROVE  Governance!Next
    BY <2>5, ExecuteEnacts DEF Governance!Next
  <2> QED
    BY <2>1, <2>2, <2>3, <2>4, <2>5 DEF MultisigNext
<1> QED
  BY Invariant, <1>1, <1>2, PTL DEF MultisigSpec, GovernanceKept, Governance!Spec
=============================================================================
