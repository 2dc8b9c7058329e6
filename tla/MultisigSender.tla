--------------------------- MODULE MultisigSender ---------------------------
(***************************************************************************)
(* The two programs together, as in tests/multisigNative.ts: the address   *)
(* that signs for a multisig is a user of the streaming program, so that   *)
(* what a wallet does by signing (deposits, streams and their updates,     *)
(* pauses and cancellations, transfers, withdrawals, claims, fee accounts) *)
(* its owners decide by executing stored calls.  Wallets go on signing     *)
(* for themselves, alone or along with an execution.                       *)
(***************************************************************************)
EXTENDS Multisig, NativeStream

CONSTANT MultisigSigner   \* the signer address of each multisig

Signers == Range(MultisigSigner)

Wallets == Users \ Signers

(* The calls of the streaming program, with the user who has to sign.      *)
ZebecCalls ==
  [op : {"deposit_sol"}, signer : Senders, amount : DepositAmounts]
    \cup [op : {"native_stream"}, signer : Senders, stream : Streams, receiver : Receivers,
          fee_owner : FeeOwners, start_time : StreamTimes, end_time : StreamTimes,
          amount : StreamAmounts, can_cancel : CanCancel, can_update : CanUpdate]
    \cup [op : {"native_stream_update"}, signer : Senders, stream : Streams,
          start_time : StreamTimes, end_time : StreamTimes, amount : StreamAmounts]
    \cup [op : {"pause_stream", "cancel_stream"}, signer : Senders, stream : Streams]
    \cup [op : {"withdraw_stream"}, signer : Receivers, stream : Streams]
    \cup [op : {"instant_native_transfer", "send_sol_directly"}, signer : Senders,
          receiver : Receivers, amount : TransferAmounts]
    \cup [op : {"native_withdrawal"}, signer : Senders, amount : TransferAmounts]
    \cup [op : {"create_fee_account", "update_fees"}, signer : FeeOwners,
          fee_percentage : FeePercentages]
    \cup [op : {"withdraw_fees_sol"}, signer : FeeOwners]

(* External: calls of programs that leave these accounts alone.            *)
OtherCalls == [op : {"other"}, signer : Users]

ASSUME SenderAssumption ==
  /\ MultisigSigner \in [Multisigs -> Users]
  /\ Calls \subseteq ZebecCalls \cup OtherCalls

SenderInit == MultisigInit /\ Init

(* A call of the streaming program, in a transaction signed by the users   *)
(* given.  A stored call that the program refuses can not be executed.     *)
Perform(call, signed) ==
  /\ call.signer \in signed
  /\ \/ call.op = "deposit_sol" /\ DepositSol(call.signer, call.amount)
     \/ /\ call.op = "native_stream"
        /\ NativeStream(call.stream, call.signer, call.receiver, call.fee_owner,
                        call.start_time, call.end_time, call.amount,
                        call.can_cancel, call.can_update)
     \/ /\ call.op \in {"native_stream_update", "pause_stream", "cancel_stream"}
        /\ call.stream \in DOMAIN stream /\ stream[call.stream].sender = call.signer
        /\ \/ /\ call.op = "native_stream_update"
              /\ UpdateNativeStream(call.stream, call.start_time, call.end_time, call.amount)
           \/ call.op = "pause_stream" /\ PauseStream(call.stream)
           \/ call.op = "cancel_stream" /\ CancelStream(call.stream)
     \/ /\ call.op = "withdraw_stream"
        /\ call.stream \in DOMAIN stream /\ stream[call.stream].receiver = call.signer
        /\ WithdrawStream(call.stream)
     \/ /\ call.op = "instant_native_transfer"
        /\ NativeTransfer(call.signer, call.receiver, call.amount)
     \/ call.op = "native_withdrawal" /\ NativeWithdrawal(call.signer, call.amount)
     \/ /\ call.op = "send_sol_directly"
        /\ SolDirectly(call.signer, call.receiver, call.amount)
     \/ /\ \/ call.op = "create_fee_account" /\ CreateFeeAccount(call.signer, call.fee_percentage)
           \/ call.op = "update_fees" /\ UpdateFees(call.signer, call.fee_percentage)
           \/ call.op = "withdraw_fees_sol" /\ WithdrawFeesSol(call.signer)
        /\ UNCHANGED <<now, stream, reserve, vault>>
     \/ call.op = "other" /\ UNCHANGED vars

(* The execution of a stored call is signed by the multisigs of all the    *)
(* transactions executed, and by wallets that sign along.                  *)
Execute(c) ==
  LET ix == transaction[c[Len(c)]].instruction
  IN  /\ ExecuteTransaction(c)
      /\ \/ ix.op # "call" /\ UNCHANGED vars
         \/ /\ ix.op = "call"
            /\ Perform(ix.call,
                       {MultisigSigner[transaction[t].multisig] : t \in Range(c)} \cup Wallets)

SenderNext ==
  \/ /\ \/ \E m \in Multisigs, l \in OwnerLists, th \in Thresholds, n \in Nonces :
             CreateMultisig(m, l, th, n)
        \/ \E t \in Txs, m \in Multisigs, p \in Owners, ix \in Instructions :
             CreateTransaction(t, m, p, ix)
        \/ \E t \in Txs, p \in Owners : Approve(t, p)
     /\ UNCHANGED vars
  \/ \E c \in Chains : Execute(c)
  \/ /\ Tick \/ \E call \in ZebecCalls : Perform(call, Wallets)
     /\ UNCHANGED multisigVars

SenderSpec == SenderInit /\ [][SenderNext]_<<multisigVars, vars>>

-----------------------------------------------------------------------------
(* Properties                                                              *)

(* The lamports at all addresses of a user.                                *)
Funds(u) ==
  wallet[u] + (IF u \in Senders THEN vault[u] ELSE 0)
            + (IF u \in FeeOwners THEN feeVault[u] ELSE 0)

OwedBy(u) == IF u \in Senders THEN reserve[u] ELSE 0

Spends(ix, u) ==
  /\ ix.op = "call"
  /\ ix.call.signer = u
  /\ ix.call.op \in {"native_stream", "native_stream_update",
                     "instant_native_transfer", "send_sol_directly"}

Spending(u) ==
  {t \in DOMAIN transaction : performed[t] > 0 /\ Spends(transaction[t].instruction, u)}

(* What executed calls let the user pay to others, an update counted with  *)
(* its whole amount: which terms it finds shows only when it is executed.  *)
Authorised(u) ==
  Total([t \in Spending(u) |-> transaction[t].instruction.call.amount])

(* What has left the funds of a multisig's signer and what its streams are *)
(* still owed is never more than the stored calls its owners had executed  *)
(* provide for, each of them counted once, whatever is claimed, cancelled, *)
(* updated, transferred or withdrawn, and in whatever order.               *)
SpentAsDecided ==
  \A u \in Signers : InitialWallet[u] - Funds(u) + OwedBy(u) <= Authorised(u)

(* Stream s is opened, changed in its terms, paused, resumed, or closed    *)
(* before its end, unless it has nothing to give.                          *)
Altered(s) ==
  IF s \in DOMAIN stream /\ s \in DOMAIN stream'
    THEN \/ stream'[s].paused # stream[s].paused
         \/ Terms(stream'[s]) # Terms(stream[s])
    ELSE \/ s \in DOMAIN stream'
         \/ s \in DOMAIN stream /\ now < stream[s].end_time /\ stream[s].amount > 0

SenderOf(s) == IF s \in DOMAIN stream' THEN stream'[s].sender ELSE stream[s].sender

Decides(ix, s) ==
  /\ ix.op = "call"
  /\ ix.call.op \in {"native_stream", "native_stream_update", "pause_stream", "cancel_stream"}
  /\ ix.call.stream = s

(* A stream of a multisig's signer is altered only by a stored call that   *)
(* names it, executed for the first time, with the approval of enough of   *)
(* the owners in force of that multisig: not by the receiver, by a wallet, *)
(* by other multisigs' executions or by a call that was executed before.   *)
StreamsByDecision ==
  [][\A s \in Streams : Altered(s) /\ SenderOf(s) \in Signers =>
       LET executed ==
             {t \in DOMAIN transaction :
                ~ transaction[t].did_execute /\ transaction'[t].did_execute}
       IN  /\ \E t \in executed : Decides(transaction[t].instruction, s)
           /\ \E t \in executed :
                MultisigSigner[transaction[t].multisig] = SenderOf(s) /\ Carried(t)
    ]_<<multisigVars, vars>>
=============================================================================
