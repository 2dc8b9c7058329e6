------------------------------ MODULE Multisig ------------------------------
(***************************************************************************)
(* The multisig program (multisig/src/lib.rs).  The owners of a multisig   *)
(* store instructions, approve them, and anyone may have a stored          *)
(* instruction executed once enough owners approved it.  The instruction   *)
(* may be for another program, or for this one: to change the owners or    *)
(* the threshold, or to execute another stored instruction.                *)
(*                                                                         *)
(* A Solana transaction takes effect as a whole, the nested calls          *)
(* included, so an execution is one action here; module MultisigCalls      *)
(* shows it call by call.                                                  *)
(***************************************************************************)
EXTENDS Integers, Sequences, FiniteSets, Functions

CONSTANTS
  Owners,       \* wallets that may own a multisig
  Multisigs,    \* addresses of multisig accounts
  Txs,          \* addresses of transaction accounts
  OwnerLists,   \* owners arguments tried
  Thresholds,   \* threshold arguments tried
  Nonces,       \* nonce arguments tried
  PdaNonces,    \* nonces that derive the address of the multisig's signer
  Calls,        \* instructions of other programs that may be stored
  MaxSeqno,     \* largest u32: 2^32 - 1 in the program
  MaxHeight     \* nested calls of execute_transaction the runtime allows

ASSUME MultisigAssumption ==
  /\ OwnerLists \subseteq Seq(Owners)
  /\ Thresholds \subseteq Nat
  /\ MaxSeqno \in Nat
  /\ MaxHeight \in Nat

(* An account is created and used by a client once, far less often than    *)
(* there are sequence numbers.                                             *)
ASSUME FewTransactions == IsFiniteSet(Txs) /\ Cardinality(Txs) <= MaxSeqno

(* No guard reads the last two: they record what happened for the          *)
(* properties to refer to.                                                 *)
VARIABLES
  multisig,      \* the Multisig account at each address that has one
  transaction,   \* the Transaction account at each address that has one
  performed,     \* how often each stored instruction took effect
  approved       \* the owners who approved it, each by a signature of their own

multisigVars == <<multisig, transaction, performed, approved>>

(* What a transaction account may store.                                   *)
SetOwnersIx(m, owners) == [op |-> "set_owners", multisig |-> m, owners |-> owners]
ChangeThresholdIx(m, th) == [op |-> "change_threshold", multisig |-> m, threshold |-> th]
BothIx(m, owners, th) ==
  [op |-> "set_owners_and_change_threshold", multisig |-> m,
   owners |-> owners, threshold |-> th]
ExecuteIx(t) == [op |-> "execute_transaction", transaction |-> t]
CallIx(c) == [op |-> "call", call |-> c]

Instructions ==
  {SetOwnersIx(m, l) : m \in Multisigs, l \in OwnerLists}
    \cup {ChangeThresholdIx(m, th) : m \in Multisigs, th \in Thresholds}
    \cup {BothIx(m, l, th) : m \in Multisigs, l \in OwnerLists, th \in Thresholds}
    \cup {ExecuteIx(t) : t \in Txs}
    \cup {CallIx(c) : c \in Calls}

MultisigRecord ==
  [owners : OwnerLists, threshold : Nat \ {0}, nonce : Nonces, owner_set_seqno : 0 .. MaxSeqno]

TransactionRecord ==
  [multisig : Multisigs, instruction : Instructions, signers : Seq(BOOLEAN),
   did_execute : BOOLEAN, owner_set_seqno : 0 .. MaxSeqno]

MultisigTypeOK ==
  /\ DOMAIN multisig \subseteq Multisigs
  /\ multisig \in [DOMAIN multisig -> MultisigRecord]
  /\ DOMAIN transaction \subseteq Txs
  /\ transaction \in [DOMAIN transaction -> TransactionRecord]
  /\ performed \in [Txs -> Nat]
  /\ approved \in [Txs -> SUBSET Owners]

MultisigInit ==
  /\ multisig = [m \in {} |-> 0]
  /\ transaction = [t \in {} |-> 0]
  /\ performed = [t \in Txs |-> 0]
  /\ approved = [t \in Txs |-> {}]

-----------------------------------------------------------------------------
(* Owners and thresholds.  A definition named Faulty... is a slip the code *)
(* could have had; no action uses it.                                      *)

AssertUniqueOwners(owners) == IsInjective(owners)

FaultyClamp(threshold, owners) == threshold

(* A threshold above the number of the new owners is lowered to it.        *)
Clamp(threshold, owners) == IF Len(owners) < threshold THEN Len(owners) ELSE threshold

FaultyNextSeqno(seqno) == seqno

NextSeqno(seqno) == (seqno + 1) % (MaxSeqno + 1)

SetOwnersFits(owners) == AssertUniqueOwners(owners) /\ owners # <<>>

SetOwners(ms, owners) ==
  [ms EXCEPT !.owners = owners,
             !.threshold = Clamp(@, owners),
             !.owner_set_seqno = NextSeqno(@)]

FaultyChangeThresholdFits(ms, threshold) == threshold <= Len(ms.owners)

ChangeThresholdFits(ms, threshold) == threshold > 0 /\ threshold <= Len(ms.owners)

ChangeThreshold(ms, threshold) == [ms EXCEPT !.threshold = threshold]

CreateMultisig(m, owners, threshold, nonce) ==
  /\ m \notin DOMAIN multisig
  /\ AssertUniqueOwners(owners)
  /\ threshold > 0 /\ threshold <= Len(owners)
  /\ owners # <<>>
  /\ multisig' = [x \in DOMAIN multisig \cup {m} |->
       IF x # m THEN multisig[x] ELSE
       [owners |-> owners, threshold |-> threshold, nonce |-> nonce, owner_set_seqno |-> 0]]
  /\ UNCHANGED <<transaction, performed, approved>>

-----------------------------------------------------------------------------
(* Stored instructions and their approvals                                 *)

CreateTransaction(t, m, proposer, instruction) ==
  /\ t \notin DOMAIN transaction
  /\ m \in DOMAIN multisig
  /\ \E i \in DOMAIN multisig[m].owners :
       /\ multisig[m].owners[i] = proposer
       /\ transaction' = [x \in DOMAIN transaction \cup {t} |->
            IF x # t THEN transaction[x] ELSE
            [multisig |-> m, instruction |-> instruction,
             signers |-> [j \in DOMAIN multisig[m].owners |-> j = i],
             did_execute |-> FALSE,
             owner_set_seqno |-> multisig[m].owner_set_seqno]]
  /\ approved' = [approved EXCEPT ![t] = {proposer}]
  /\ UNCHANGED <<multisig, performed>>

(* The constraint of the accounts of approve and execute_transaction.      *)
Current(tx) == multisig[tx.multisig].owner_set_seqno = tx.owner_set_seqno

(* Approving again changes nothing, nor is an executed transaction         *)
(* refused.  An index past the end of signers would panic.                 *)
Approve(t, owner) ==
  LET tx == transaction[t]
  IN  /\ t \in DOMAIN transaction
      /\ Current(tx)
      /\ \E i \in DOMAIN multisig[tx.multisig].owners \cap DOMAIN tx.signers :
           /\ multisig[tx.multisig].owners[i] = owner
           /\ transaction' = [transaction EXCEPT ![t].signers[i] = TRUE]
      /\ approved' = [approved EXCEPT ![t] = @ \cup {owner}]
      /\ UNCHANGED <<multisig, performed>>

SigCount(tx) == Cardinality({i \in DOMAIN tx.signers : tx.signers[i]})

FaultyEnoughSigners(tx) == SigCount(tx) >= multisig[tx.multisig].threshold - 1

EnoughSigners(tx) == SigCount(tx) >= multisig[tx.multisig].threshold

(* What execute_transaction checks before the call.                        *)
Executable(tx) ==
  /\ Current(tx)
  /\ multisig[tx.multisig].nonce \in PdaNonces
  /\ ~ tx.did_execute
  /\ EnoughSigners(tx)

-----------------------------------------------------------------------------
(* Execution                                                               *)

(* The effect of an instruction that executes no further transaction; the  *)
(* multisigs in `signed` have signed it.  External: what another program   *)
(* does may also fail, and with it the whole execution.                    *)
Effect(ix, signed) ==
  \/ ix.op = "call" /\ UNCHANGED multisig
  \/ /\ ix.op \in {"set_owners", "change_threshold", "set_owners_and_change_threshold"}
     /\ ix.multisig \in DOMAIN multisig \cap signed
     /\ LET ms == multisig[ix.multisig]
            organised == IF ix.op = "change_threshold" THEN ms ELSE SetOwners(ms, ix.owners)
        IN  /\ ix.op # "change_threshold" => SetOwnersFits(ix.owners)
            /\ ix.op # "set_owners" => ChangeThresholdFits(organised, ix.threshold)
            /\ multisig' = [multisig EXCEPT ![ix.multisig] =
                 IF ix.op = "set_owners" THEN organised
                 ELSE ChangeThreshold(organised, ix.threshold)]

(* Executions: sequences of transactions each of which stores the          *)
(* execution of the next.  A transaction does not occur twice in one: the  *)
(* calls of a cycle end only at the runtime's limit, and fail.             *)
Chains == {c \in UNION {[1 .. n -> Txs] : n \in 1 .. MaxHeight} : IsInjective(c)}

FaultyBurn(tx) == tx

(* did_execute is set after the call has returned.                         *)
Burn(tx) == [tx EXCEPT !.did_execute = TRUE]

ExecuteTransaction(c) ==
  LET last == c[Len(c)]
  IN  /\ Range(c) \subseteq DOMAIN transaction
      /\ \A t \in Range(c) : Executable(transaction[t])
      /\ \A i \in 1 .. Len(c) - 1 : transaction[c[i]].instruction = ExecuteIx(c[i + 1])
      /\ Effect(transaction[last].instruction, {transaction[t].multisig : t \in Range(c)})
      /\ transaction' = [t \in DOMAIN transaction |->
           IF t \in Range(c) THEN Burn(transaction[t]) ELSE transaction[t]]
      /\ performed' = [t \in Txs |-> IF t \in Range(c) THEN performed[t] + 1 ELSE performed[t]]
      /\ UNCHANGED approved

MultisigNext ==
  \/ \E m \in Multisigs, l \in OwnerLists, th \in Thresholds, n \in Nonces :
       CreateMultisig(m, l, th, n)
  \/ \E t \in Txs, m \in Multisigs, p \in Owners, ix \in Instructions :
       CreateTransaction(t, m, p, ix)
  \/ \E t \in Txs, p \in Owners : Approve(t, p)
  \/ \E c \in Chains : ExecuteTransaction(c)

MultisigSpec == MultisigInit /\ [][MultisigNext]_multisigVars

(* Owners who in the end approve what was proposed, and someone who has it *)
(* executed.                                                               *)
FairMultisigSpec ==
  /\ MultisigSpec
  /\ \A t \in Txs, p \in Owners : WF_multisigVars(Approve(t, p))
  /\ \A c \in Chains : WF_multisigVars(ExecuteTransaction(c))

-----------------------------------------------------------------------------
(* Properties                                                              *)

(* Every multisig can always reach its threshold: its owners are distinct, *)
(* and neither a change of the owners nor one of the threshold, in         *)
(* whatever order they are executed, leaves it above their number.         *)
ThresholdReachable ==
  \A m \in DOMAIN multisig :
    /\ AssertUniqueOwners(multisig[m].owners)
    /\ multisig[m].threshold \in 1 .. Len(multisig[m].owners)

(* A stored instruction takes effect at most once, although the account is *)
(* marked only after the call and stored instructions may execute others.  *)
PerformedOnce ==
  \A t \in Txs :
    performed[t] = IF t \in DOMAIN transaction /\ transaction[t].did_execute THEN 1 ELSE 0

(* As many of the owners in force as the threshold in force asks approved  *)
(* transaction t themselves, not owners whose places they have taken.      *)
Carried(t) ==
  LET ms == multisig[transaction[t].multisig]
  IN  Cardinality(approved[t] \cap Range(ms.owners)) >= ms.threshold

(* Owners and threshold change only by a transaction of the multisig that  *)
(* as many of the owners in force approved as the threshold in force asks. *)
GovernedByOwners ==
  [][\A m \in DOMAIN multisig : multisig'[m] # multisig[m] =>
       \E t \in DOMAIN transaction :
         /\ transaction[t].multisig = m
         /\ ~ transaction[t].did_execute /\ transaction'[t].did_execute
         /\ Carried(t)]_multisigVars

Proposed ==
  {t \in DOMAIN transaction :
     /\ transaction[t].instruction.op = "call"
     /\ multisig[transaction[t].multisig].nonce \in PdaNonces}

Decided ==
  {t \in DOMAIN transaction : transaction[t].did_execute \/ ~ Current(transaction[t])}

(* An external instruction that was proposed is executed, unless a change  *)
(* of the owners voids it first; changes of the threshold, other proposals *)
(* and executions do not hold it up.                                       *)
ProposalDecided == \A t \in Txs : t \in Proposed ~> t \in Decided
=============================================================================
