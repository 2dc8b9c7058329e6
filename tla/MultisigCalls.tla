---------------------------- MODULE MultisigCalls ---------------------------
(***************************************************************************)
(* The executions of module Multisig call by call.  execute_transaction    *)
(* loads the accounts, checks them, invokes the stored instruction and     *)
(* only then stores the transaction account, with did_execute set, from    *)
(* the copy it loaded.  The invoked instruction may be another             *)
(* execute_transaction, also of the same account: what keeps an execution  *)
(* from happening twice is the runtime's limit on nested calls and that a  *)
(* failure undoes everything.                                              *)
(***************************************************************************)
EXTENDS Multisig, SequencesExt

VARIABLES
  stack,   \* the calls in progress, innermost last
  saved    \* the accounts before the outermost call; <<>> when idle

callVars == <<multisigVars, stack, saved>>

Accounts == [multisig |-> multisig, transaction |-> transaction, performed |-> performed]

Frame(t) == [transaction |-> t, account |-> transaction[t], returned |-> FALSE]

CallsInit == MultisigInit /\ stack = <<>> /\ saved = <<>>

(* Other instructions run in transactions of their own.                    *)
Otherwise(A) == stack = <<>> /\ A /\ UNCHANGED <<stack, saved>>

Top == stack[Len(stack)]

Returned(frames) ==
  IF frames = <<>> THEN frames ELSE [frames EXCEPT ![Len(frames)].returned = TRUE]

(* A call of execute_transaction: by anyone, or by the innermost call.     *)
Enter(t) ==
  /\ t \in DOMAIN transaction
  /\ stack # <<>> => ~ Top.returned /\ Top.account.instruction = ExecuteIx(t)
  /\ Len(stack) < MaxHeight
  /\ Executable(transaction[t])
  /\ stack' = Append(stack, Frame(t))
  /\ saved' = IF stack = <<>> THEN Accounts ELSE saved
  /\ UNCHANGED multisigVars

(* The innermost call invokes an instruction of another kind, signed by    *)
(* the multisigs of all the calls in progress.                             *)
Invoke ==
  /\ stack # <<>> /\ ~ Top.returned
  /\ Effect(Top.account.instruction, {stack[i].account.multisig : i \in DOMAIN stack})
  /\ stack' = Returned(stack)
  /\ UNCHANGED <<transaction, performed, approved, saved>>

FaultyExit(tx) == [tx EXCEPT !.did_execute = FALSE]

(* What is stored of the loaded copy after the call.                       *)
Exit(tx) == [tx EXCEPT !.did_execute = TRUE]

Return ==
  /\ stack # <<>> /\ Top.returned
  /\ transaction' = [transaction EXCEPT ![Top.transaction] = Exit(Top.account)]
  /\ performed' = [performed EXCEPT ![Top.transaction] = @ + 1]
  /\ stack' = Returned(Front(stack))
  /\ saved' = IF Len(stack) = 1 THEN <<>> ELSE saved
  /\ UNCHANGED <<multisig, approved>>

(* Any call may fail, a call beyond the limit or one that does not pass    *)
(* its checks must: the accounts are as before.                            *)
Abort ==
  /\ stack # <<>>
  /\ multisig' = saved.multisig
  /\ transaction' = saved.transaction
  /\ performed' = saved.performed
  /\ stack' = <<>>
  /\ saved' = <<>>
  /\ UNCHANGED approved

CallsNext ==
  \/ \E m \in Multisigs, l \in OwnerLists, th \in Thresholds, n \in Nonces :
       Otherwise(CreateMultisig(m, l, th, n))
  \/ \E t \in Txs, m \in Multisigs, p \in Owners, ix \in Instructions :
       Otherwise(CreateTransaction(t, m, p, ix))
  \/ \E t \in Txs, p \in Owners : Otherwise(Approve(t, p))
  \/ \E t \in Txs : Enter(t)
  \/ Invoke \/ Return \/ Abort

CallsSpec == CallsInit /\ [][CallsNext]_callVars

-----------------------------------------------------------------------------
(* What others see: the accounts as they were before a transaction still   *)
(* in progress.                                                            *)
Committed == IF stack = <<>> THEN Accounts ELSE saved

Atomic ==
  INSTANCE Multisig
    WITH multisig <- Committed.multisig,
         transaction <- Committed.transaction,
         performed <- Committed.performed

(* Nested calls, also those that execute a transaction again while its     *)
(* did_execute is not set, take effect as an execution of distinct         *)
(* transactions in one step, or not at all.                                *)
CallsAreAtomic == Atomic!MultisigSpec
=============================================================================
