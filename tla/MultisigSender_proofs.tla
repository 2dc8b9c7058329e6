----------------------- MODULE MultisigSender_proofs ------------------------
(***************************************************************************)
(* Proofs about the two programs together: each goes on keeping its own    *)
(* invariant, and what a multisig pays and does with its streams was       *)
(* decided by its owners, for every set of multisigs and stored calls.     *)
(***************************************************************************)
EXTENDS MultisigSender, NativeStream_proofs, Multisig_proofs

allVars == <<multisigVars, vars>>

(* The instruction an execution ends with, and the addresses that sign it. *)
Stored(c) == transaction[c[Len(c)]].instruction

Signed(c) == {MultisigSigner[transaction[t].multisig] : t \in Range(c)}

-----------------------------------------------------------------------------
(* A step of the two together is a step of each, or leaves it alone        *)

LEMMA SignersAreUsers == Signers \subseteq Users
BY SenderAssumption DEF Signers, Range

(* What the arguments of the calls range over.                             *)
LEMMA CallFields ==
  ASSUME NEW call \in ZebecCalls \cup OtherCalls
  PROVE  /\ call.op = "deposit_sol" =>
              call.signer \in Senders /\ call.amount \in DepositAmounts
         /\ call.op = "native_stream" =>
              /\ call.signer \in Senders /\ call.stream \in Streams
              /\ call.receiver \in Receivers /\ call.fee_owner \in FeeOwners
              /\ call.start_time \in StreamTimes /\ call.end_time \in StreamTimes
              /\ call.amount \in StreamAmounts
              /\ call.can_cancel \in CanCancel /\ call.can_update \in CanUpdate
         /\ call.op = "native_stream_update" =>
              /\ call.signer \in Senders /\ call.stream \in Streams
              /\ call.start_time \in StreamTimes /\ call.end_time \in StreamTimes
              /\ call.amount \in StreamAmounts
         /\ call.op \in {"pause_stream", "cancel_stream"} =>
              call.signer \in Senders /\ call.stream \in Streams
         /\ call.op = "withdraw_stream" => call.stream \in Streams
         /\ call.op \in {"instant_native_transfer", "send_sol_directly"} =>
              /\ call.signer \in Senders /\ call.receiver \in Receivers
              /\ call.amount \in TransferAmounts
         /\ call.op = "native_withdrawal" =>
              call.signer \in Senders /\ call.amount \in TransferAmounts
         /\ call.op \in {"create_fee_account", "update_fees"} =>
              call.signer \in FeeOwners /\ call.fee_percentage \in FeePercentages
         /\ call.op = "withdraw_fees_sol" => call.signer \in FeeOwners
<1>1. CASE call \in [op : {"deposit_sol"}, signer : Senders, amount : DepositAmounts]
  BY <1>1
<1>2. CASE call \in [op : {"native_stream"}, signer : Senders, stream : Streams,
                     receiver : Receivers, fee_owner : FeeOwners,
                     start_time : StreamTimes, end_time : StreamTimes,
                     amount : StreamAmounts, can_cancel : CanCancel,
                     can_update : CanUpdate]
  BY <1>2
<1>3. CASE call \in [op : {"native_stream_update"}, signer : Senders, stream : Streams,
                     start_time : StreamTimes, end_time : StreamTimes,
                     amount : StreamAmounts]
  BY <1>3
<1>4. CASE call \in [op : {"pause_stream", "cancel_stream"}, signer : Senders,
                     stream : Streams]
  BY <1>4
<1>5. CASE call \in [op : {"withdraw_stream"}, signer : Receivers, stream : Streams]
  BY <1>5
<1>6. CASE call \in [op : {"instant_native_transfer", "send_sol_directly"},
                     signer : Senders, receiver : Receivers, amount : TransferAmounts]
  BY <1>6
<1>7. CASE call \in [op : {"native_withdrawal"}, signer : Senders,
                     amount : TransferAmounts]
  BY <1>7
<1>8. CASE call \in [op : {"create_fee_account", "update_fees"}, signer : FeeOwners,
                     fee_percentage : FeePercentages]
  BY <1>8
<1>9. CASE call \in [op : {"withdraw_fees_sol"}, signer : FeeOwners]
  BY <1>9
<1>10. CASE call \in OtherCalls
  BY <1>10 DEF OtherCalls
<1> QED
  BY <1>1, <1>2, <1>3, <1>4, <1>5, <1>6, <1>7, <1>8, <1>9, <1>10 DEF ZebecCalls

LEMMA StoredCall ==
  ASSUME NEW ix \in Instructions, ix.op = "call"
  PROVE  ix.call \in ZebecCalls \cup OtherCalls
<1>1. PICK call \in Calls : ix = CallIx(call)
  BY DEF Instructions, SetOwnersIx, ChangeThresholdIx, BothIx, ExecuteIx, CallIx
<1> QED
  BY <1>1, SenderAssumption DEF CallIx

LEMMA ChainEnds ==
  ASSUME MultisigInv, NEW c \in Chains, ExecuteTransaction(c)
  PROVE  /\ c[Len(c)] \in Range(c) /\ Range(c) \subseteq DOMAIN transaction
         /\ Stored(c) \in Instructions
         /\ Signed(c) \subseteq Signers
         /\ \A t \in Range(c) \ {c[Len(c)]} : transaction[t].instruction.op # "call"
<1>1. PICK n \in 1 .. MaxHeight : c \in [1 .. n -> Txs]
  BY DEF Chains
<1>2. c \in Seq(Txs) /\ Len(c) = n /\ n \in Nat \ {0}
  BY <1>1, MultisigAssumption
<1>3. c[Len(c)] \in Range(c) /\ Range(c) = {c[i] : i \in 1 .. n}
  BY <1>1, <1>2 DEF Range
<1>4. Range(c) \subseteq DOMAIN transaction
  BY DEF ExecuteTransaction
<1>5. \A t \in DOMAIN transaction : transaction[t] \in TransactionRecord
  BY DEF MultisigInv, MultisigTypeOK
<1>6. Stored(c) \in Instructions
  BY <1>3, <1>4, <1>5 DEF Stored, TransactionRecord
<1>7. \A t \in Range(c) : transaction[t].multisig \in Multisigs
  BY <1>4, <1>5 DEF TransactionRecord
<1>8. Signed(c) \subseteq Signers
  BY <1>7, SenderAssumption DEF Signed, Signers, Range
<1>9. ASSUME NEW i \in 1 .. n, i # n
      PROVE  transaction[c[i]].instruction.op = "execute_transaction"
  <2>1. transaction[c[i]].instruction = ExecuteIx(c[i + 1])
    BY <1>2, <1>9 DEF ExecuteTransaction
  <2> QED
    BY <2>1 DEF ExecuteIx
<1> QED
  BY <1>2, <1>3, <1>4, <1>6, <1>8, <1>9

(* Whoever signs, a call runs an instruction of the streaming program.     *)
LEMMA PerformIsStep ==
  ASSUME IInv, NEW call \in ZebecCalls \cup OtherCalls, NEW signed, Perform(call, signed)
  PROVE  [Next]_vars
<1>1. CASE call.op = "deposit_sol" /\ DepositSol(call.signer, call.amount)
  BY <1>1, CallFields DEF Next
<1>2. CASE /\ call.op = "native_stream"
           /\ NativeStream(call.stream, call.signer, call.receiver, call.fee_owner,
                           call.start_time, call.end_time, call.amount,
                           call.can_cancel, call.can_update)
  BY <1>2, CallFields DEF Next
<1>3. CASE /\ call.op = "native_stream_update"
           /\ UpdateNativeStream(call.stream, call.start_time, call.end_time, call.amount)
  BY <1>3, CallFields DEF Next
<1>4. CASE /\ call.stream \in DOMAIN stream
           /\ \/ PauseStream(call.stream) \/ CancelStream(call.stream)
              \/ WithdrawStream(call.stream)
  BY <1>4 DEF Next, IInv, StreamsOK
<1>5. CASE /\ call.op = "instant_native_transfer"
           /\ NativeTransfer(call.signer, call.receiver, call.amount)
  BY <1>5, CallFields DEF Next
<1>6. CASE call.op = "native_withdrawal" /\ NativeWithdrawal(call.signer, call.amount)
  BY <1>6, CallFields DEF Next
<1>7. CASE /\ call.op = "send_sol_directly"
           /\ SolDirectly(call.signer, call.receiver, call.amount)
  BY <1>7, CallFields DEF Next
<1>8. CASE /\ \/ call.op = "create_fee_account" /\ CreateFeeAccount(call.signer, call.fee_percentage)
              \/ call.op = "update_fees" /\ UpdateFees(call.signer, call.fee_percentage)
              \/ call.op = "withdraw_fees_sol" /\ WithdrawFeesSol(call.signer)
           /\ UNCHANGED <<now, stream, reserve, vault>>
  <2>1. FeeNext
    BY <1>8, CallFields DEF FeeNext
  <2> QED
    BY <1>8, <2>1 DEF Next
<1>9. CASE UNCHANGED vars
  BY <1>9
<1> QED
  BY <1>1, <1>2, <1>3, <1>4, <1>5, <1>6, <1>7, <1>8, <1>9 DEF Perform

LEMMA ExecuteIsStep ==
  ASSUME IInv, MultisigInv, NEW c \in Chains, Execute(c)
  PROVE  /\ ExecuteTransaction(c) /\ [Next]_vars
         /\ \/ Stored(c).op # "call" /\ UNCHANGED vars
            \/ /\ Stored(c).op = "call" /\ Stored(c).call \in ZebecCalls \cup OtherCalls
               /\ Perform(Stored(c).call, Signed(c) \cup Wallets)
<1>1. ExecuteTransaction(c)
  BY DEF Execute
<1>2. Stored(c) \in Instructions
  BY <1>1, ChainEnds
<1>3. CASE Stored(c).op # "call" /\ UNCHANGED vars
  BY <1>1, <1>3
<1>4. CASE Stored(c).op = "call" /\ Perform(Stored(c).call, Signed(c) \cup Wallets)
  BY <1>1, <1>2, <1>4, StoredCall, PerformIsStep
<1> QED
  BY <1>3, <1>4 DEF Execute, Stored, Signed

LEMMA StepOfBoth ==
  IInv /\ MultisigInv /\ [SenderNext]_allVars
    => [Next]_vars /\ [MultisigNext]_multisigVars
<1> SUFFICES ASSUME IInv, MultisigInv, SenderNext
             PROVE  [Next]_vars /\ [MultisigNext]_multisigVars
  BY DEF allVars
<1>1. ASSUME NEW c \in Chains, Execute(c)
      PROVE  [Next]_vars /\ [MultisigNext]_multisigVars
  BY <1>1, ExecuteIsStep DEF MultisigNext
<1>2. CASE /\ \/ \E m \in Multisigs, l \in OwnerLists, th \in Thresholds, n \in Nonces :
                   CreateMultisig(m, l, th, n)
              \/ \E t \in Txs, m \in Multisigs, p \in Owners, ix \in Instructions :
                   CreateTransaction(t, m, p, ix)
              \/ \E t \in Txs, p \in Owners : Approve(t, p)
           /\ UNCHANGED vars
  BY <1>2 DEF MultisigNext
<1>3. CASE Tick /\ UNCHANGED multisigVars
  BY <1>3 DEF Next
<1>4. ASSUME NEW call \in ZebecCalls, Perform(call, Wallets), UNCHANGED multisigVars
      PROVE  [Next]_vars /\ [MultisigNext]_multisigVars
  BY <1>4, PerformIsStep
<1> QED
  BY <1>1, <1>2, <1>3, <1>4 DEF SenderNext

LEMMA InvOfBoth == SenderSpec => [](IInv /\ MultisigInv)
<1>1. SenderInit => IInv /\ MultisigInv
  BY IInvInit, InitInv DEF SenderInit
<1>2. IInv /\ MultisigInv /\ [SenderNext]_allVars => IInv' /\ MultisigInv'
  BY StepOfBoth, IInvStep, StepInv
<1> QED
  BY <1>1, <1>2, PTL DEF SenderSpec, allVars

(* Each program, seen alone, runs as specified when the calls that the     *)
(* owners of multisigs stored are executed among those of the wallets:     *)
(* whatever is proved of streams and of multisigs holds of the two         *)
(* together.                                                               *)
THEOREM RunsAsEither == SenderSpec => Spec /\ MultisigSpec
<1>1. SenderInit => Init /\ MultisigInit
  BY DEF SenderInit
<1> QED
  BY <1>1, StepOfBoth, InvOfBoth, PTL DEF SenderSpec, Spec, MultisigSpec, allVars

-----------------------------------------------------------------------------
(* What the instructions of the streaming program cost a user              *)

(* A user's funds that no stream is owed.                                  *)
Left(u) == Funds(u) - OwedBy(u)

Spender(call, u) ==
  /\ call.signer = u
  /\ call.op \in {"native_stream", "native_stream_update",
                  "instant_native_transfer", "send_sol_directly"}

(* What a call, and an instruction that is a call, lets u pay to others.   *)
Cost(call, u) == IF Spender(call, u) THEN call.amount ELSE 0

Price(ix, u) == IF Spends(ix, u) THEN ix.call.amount ELSE 0

LEMMA BalanceTypes ==
  ASSUME IInv, NEW u \in Users
  PROVE  /\ wallet \in [Users -> U64] /\ feeVault \in [FeeOwners -> U64]
         /\ vault \in [Senders -> U64] /\ reserve \in [Senders -> U64]
         /\ wallet[u] \in Nat /\ (u \in FeeOwners => feeVault[u] \in Nat)
         /\ (u \in Senders => vault[u] \in Nat /\ reserve[u] \in Nat)
         /\ Left(u) \in Int
         /\ Left(u) = wallet[u] + (IF u \in Senders THEN vault[u] - reserve[u] ELSE 0)
                                + (IF u \in FeeOwners THEN feeVault[u] ELSE 0)
<1>1. /\ wallet \in [Users -> U64] /\ feeVault \in [FeeOwners -> U64]
      /\ vault \in [Senders -> U64] /\ reserve \in [Senders -> U64]
  BY DEF IInv, FeeTypeOK
<1>2. /\ wallet[u] \in Nat /\ (u \in FeeOwners => feeVault[u] \in Nat)
      /\ (u \in Senders => vault[u] \in Nat /\ reserve[u] \in Nat)
  BY <1>1, UtilsAssumption DEF U64
<1> QED
  BY <1>1, <1>2 DEF Left, Funds, OwedBy

(* The same after a step.                                                  *)
LEMMA BalanceTypesNext ==
  ASSUME IInv', NEW u \in Users
  PROVE  /\ wallet' \in [Users -> U64] /\ feeVault' \in [FeeOwners -> U64]
         /\ vault' \in [Senders -> U64] /\ reserve' \in [Senders -> U64]
         /\ wallet'[u] \in Nat /\ (u \in FeeOwners => feeVault'[u] \in Nat)
         /\ (u \in Senders => vault'[u] \in Nat /\ reserve'[u] \in Nat)
         /\ Left(u)' \in Int
         /\ Left(u)' = wallet'[u] + (IF u \in Senders THEN vault'[u] - reserve'[u] ELSE 0)
                                  + (IF u \in FeeOwners THEN feeVault'[u] ELSE 0)
<1>1. /\ wallet' \in [Users -> U64] /\ feeVault' \in [FeeOwners -> U64]
      /\ vault' \in [Senders -> U64] /\ reserve' \in [Senders -> U64]
  BY DEF IInv, FeeTypeOK
<1>2. /\ wallet'[u] \in Nat /\ (u \in FeeOwners => feeVault'[u] \in Nat)
      /\ (u \in Senders => vault'[u] \in Nat /\ reserve'[u] \in Nat)
  BY <1>1, UtilsAssumption DEF U64
<1> QED
  BY <1>1, <1>2 DEF Left, Funds, OwedBy

(* Deposits only move a sender's lamports between wallet and vault.        *)
LEMMA DepositCosts ==
  ASSUME IInv, IInv', NEW k \in Senders, NEW a \in DepositAmounts, DepositSol(k, a),
         NEW u \in Users
  PROVE  Left(u)' >= Left(u)
<1>1. a \in Nat /\ VaultRent(k) \in Nat /\ k \in Users
  BY UtilsAssumption, StreamAssumption DEF U64, VaultRent
<1>2. /\ wallet' = [wallet EXCEPT ![k] = wallet[k] - (VaultRent(k) + a)]
      /\ vault' = [vault EXCEPT ![k] = vault[k] + VaultRent(k) + a]
      /\ reserve' = reserve /\ feeVault' = feeVault
  BY DEF DepositSol, feeVars
<1>3. CASE u = k
  <2>1. /\ wallet'[u] = wallet[u] - (VaultRent(k) + a)
        /\ vault'[u] = vault[u] + VaultRent(k) + a
    BY <1>1, <1>2, <1>3, BalanceTypes
  <2> QED
    BY <1>1, <1>2, <1>3, <2>1, BalanceTypes, BalanceTypesNext
<1>4. CASE u # k
  <2>1. wallet'[u] = wallet[u] /\ (u \in Senders => vault'[u] = vault[u])
    BY <1>1, <1>2, <1>4, BalanceTypes
  <2> QED
    BY <1>2, <2>1, BalanceTypes, BalanceTypesNext
<1> QED
  BY <1>3, <1>4

(* A new stream takes its amount out of what is left.                      *)
LEMMA OpenCosts ==
  ASSUME IInv, IInv', NEW k \in Senders, NEW a \in StreamAmounts, NEW s, NEW r, NEW f,
         NEW t1, NEW t2, NEW cc, NEW cu, NativeStream(s, k, r, f, t1, t2, a, cc, cu),
         NEW u \in Users
  PROVE  Left(u)' >= Left(u) - (IF u = k THEN a ELSE 0)
<1>1. a \in Nat
  BY UtilsAssumption, StreamAssumption DEF U64
<1>2. /\ wallet' = wallet /\ vault' = vault /\ feeVault' = feeVault
      /\ reserve' = [reserve EXCEPT ![k] = reserve[k] + a]
  BY DEF NativeStream, StartStream, feeVars
<1>3. u \in Senders => reserve'[u] = reserve[u] + (IF u = k THEN a ELSE 0)
  BY <1>1, <1>2, BalanceTypes
<1> QED
  BY <1>1, <1>2, <1>3, BalanceTypes, BalanceTypesNext

(* An update takes at most the whole new amount.                           *)
LEMMA UpdateCosts ==
  ASSUME IInv, IInv', NEW s \in Streams, NEW t1, NEW t2, NEW a \in StreamAmounts,
         UpdateNativeStream(s, t1, t2, a), NEW u \in Users
  PROVE  Left(u)' >= Left(u) - (IF u = stream[s].sender THEN a ELSE 0)
<1>1. a \in Nat
  BY UtilsAssumption, StreamAssumption DEF U64
<1>2. /\ wallet' = wallet /\ vault' = vault /\ feeVault' = feeVault
      /\ s \in DOMAIN stream
  BY DEF UpdateNativeStream, ReviseStream, feeVars
<1>3. PICK k \in Senders : k = stream[s].sender
  BY <1>2 DEF IInv, StreamsOK, StreamRecord
<1>4. PICK b \in Nat : b = stream[s].amount
  BY <1>2, UtilsAssumption DEF IInv, StreamsOK, StreamRecord, U64
<1>5. reserve' = [reserve EXCEPT ![k] = reserve[k] - b + a]
  BY <1>3, <1>4 DEF UpdateNativeStream, ReviseStream
<1>6. u \in Senders => reserve'[u] = IF u = k THEN reserve[k] - b + a ELSE reserve[u]
  BY <1>5, BalanceTypes
<1> QED
  BY <1>1, <1>2, <1>3, <1>6, BalanceTypes, BalanceTypesNext

(* Transfers and withdrawals take lamports out of the vault.               *)
LEMMA TakeCosts ==
  ASSUME IInv, IInv', NEW k \in Senders, NEW r \in Users, NEW a \in TransferAmounts,
         TakeFromVault(k, r, a), NEW u \in Users
  PROVE  Left(u)' >= Left(u) - (IF u = k /\ r # k THEN a ELSE 0)
<1>1. a \in Nat
  BY UtilsAssumption, StreamAssumption DEF U64
<1>2. /\ wallet' = [wallet EXCEPT ![r] = wallet[r] + a]
      /\ vault' = [vault EXCEPT ![k] = vault[k] - a]
      /\ reserve' = reserve /\ feeVault' = feeVault
  BY DEF TakeFromVault, feeVars
<1>3. wallet'[u] = IF u = r THEN wallet[u] + a ELSE wallet[u]
  BY <1>2, BalanceTypes
<1>4. u \in Senders => vault'[u] = IF u = k THEN vault[u] - a ELSE vault[u]
  BY <1>2, BalanceTypes
<1> QED
  BY <1>1, <1>2, <1>3, <1>4, BalanceTypes, BalanceTypesNext

LEMMA DirectCosts ==
  ASSUME IInv, IInv', NEW k \in Users, NEW r \in Users, NEW a \in TransferAmounts,
         SolDirectly(k, r, a), NEW u \in Users
  PROVE  Left(u)' >= Left(u) - (IF u = k THEN a ELSE 0)
<1> DEFINE mid == [wallet EXCEPT ![k] = wallet[k] - a]
<1>1. a \in Nat
  BY UtilsAssumption, StreamAssumption DEF U64
<1>2. /\ wallet' = [mid EXCEPT ![r] = mid[r] + a]
      /\ vault' = vault /\ reserve' = reserve /\ feeVault' = feeVault
  BY DEF SolDirectly, feeVars
<1>3. mid[u] = IF u = k THEN wallet[u] - a ELSE wallet[u]
  BY BalanceTypes
<1>4. DOMAIN mid = Users
  BY BalanceTypes
<1> HIDE DEF mid
<1>5. wallet'[u] = IF u = r THEN mid[u] + a ELSE mid[u]
  BY <1>2, <1>4
<1> QED
  BY <1>1, <1>2, <1>3, <1>5, BalanceTypes, BalanceTypesNext

(* What a claim or a cancellation pays no longer counts as owed.           *)
LEMMA PaymentCosts ==
  ASSUME IInv, IInv', NEW s \in DOMAIN stream, NEW k \in Senders, NEW a,
         Touches(s, k), Paid(k, a), PayFromVault(stream[s], a), NEW u \in Users
  PROVE  Left(u)' >= Left(u)
<1>1. /\ a \in Nat /\ reserve'[k] <= reserve[k] - a
      /\ vault' = [vault EXCEPT ![k] = vault[k] - a]
  BY UtilsAssumption DEF Paid, U64
<1>2. PICK r \in Users : r = stream[s].receiver
  BY StreamAssumption DEF IInv, StreamsOK, StreamRecord
<1>3. PICK f \in FeeOwners : f = stream[s].fee_owner
  BY DEF IInv, StreamsOK, StreamRecord
<1>4. PICK b \in Nat : wallet' = [wallet EXCEPT ![r] = wallet[r] + b]
  <2>1. PICK b \in U64 : wallet' = [wallet EXCEPT ![stream[s].receiver] =
                                      wallet[stream[s].receiver] + b]
    BY DEF PayFromVault, PaymentPasses, Fits
  <2>2. b \in Nat
    BY UtilsAssumption DEF U64
  <2> QED
    BY <1>2, <2>1, <2>2
<1>5. PICK c \in Nat : feeVault' = [feeVault EXCEPT ![f] = feeVault[f] + c]
  <2>1. stream[s].fee_percentage \in Nat
    BY UtilsAssumption DEF IInv, StreamsOK, StreamRecord
  <2>2. CalculateComission(stream[s].fee_percentage, a) \in Nat
    BY <1>1, <2>1, ComissionType
  <2> QED
    BY <1>3, <2>2 DEF PayFromVault
<1>6. wallet'[u] >= wallet[u]
  BY <1>4, BalanceTypes
<1>7. u \in FeeOwners => feeVault'[u] >= feeVault[u]
  BY <1>5, BalanceTypes
<1>8. u \in Senders => vault'[u] = (IF u = k THEN vault[u] - a ELSE vault[u])
  BY <1>1, BalanceTypes
<1>9. u \in Senders /\ u # k => reserve'[u] = reserve[u]
  BY BalanceTypes DEF Touches, Kept, ReserveFollows
<1> QED
  BY <1>1, <1>6, <1>7, <1>8, <1>9, BalanceTypes, BalanceTypesNext

LEMMA PauseCosts ==
  ASSUME IInv, IInv', NEW s \in Streams, PauseStream(s), NEW u \in Users
  PROVE  Left(u)' >= Left(u)
<1>1. /\ ToggleStream(s, stream[s].sender) /\ wallet' = wallet /\ vault' = vault
      /\ feeVault' = feeVault /\ StreamsOK /\ UNCHANGED <<feeData, now>>
  BY DEF PauseStream, IInv, feeVars
<1>2. PICK k \in Senders : k = stream[s].sender
  BY <1>1 DEF ToggleStream, TogglePasses, StreamsOK, StreamRecord
<1>3. Kept(s, k, Senders) /\ reserve'[k] <= reserve[k]
  BY <1>1, <1>2, BalanceTypes, ToggleKeeps
<1>4. u \in Senders => reserve'[u] <= reserve[u]
  BY <1>3, BalanceTypes DEF Kept, ReserveFollows
<1> QED
  BY <1>1, <1>4, BalanceTypes, BalanceTypesNext

LEMMA ClosingCosts ==
  ASSUME IInv, IInv', NEW s \in Streams, WithdrawStream(s) \/ CancelStream(s),
         NEW u \in Users
  PROVE  Left(u)' >= Left(u)
<1>1. s \in DOMAIN stream
  BY DEF WithdrawStream, ClaimStream, ClaimPasses, CancelStream, EndStream, EndPasses
<1>2. CASE WithdrawStream(s)
  BY <1>1, <1>2, WithdrawKeeps, PaymentCosts DEF WithdrawStream
<1>3. CASE CancelStream(s)
  BY <1>1, <1>3, CancelKeeps, PaymentCosts DEF CancelStream
<1> QED
  BY <1>2, <1>3

(* A fee owner's lamports only move between wallet and fee vault.          *)
LEMMA FeesCost ==
  ASSUME IInv, IInv', NEW f \in FeeOwners, NEW p,
         CreateFeeAccount(f, p) \/ UpdateFees(f, p) \/ WithdrawFeesSol(f),
         UNCHANGED <<reserve, vault>>, NEW u \in Users
  PROVE  Left(u)' >= Left(u)
<1>1. f \in Users /\ RentExemptMin \in Nat
  BY FeeAssumption, UtilsAssumption
<1>2. CASE u # f
  <2>1. wallet'[u] = wallet[u] /\ (u \in FeeOwners => feeVault'[u] = feeVault[u])
    BY <1>2, BalanceTypes DEF CreateFeeAccount, UpdateFees, WithdrawFeesSol
  <2> QED
    BY <2>1, BalanceTypes, BalanceTypesNext
<1>3. CASE u = f
  <2>1. \/ /\ wallet'[f] = wallet[f] - RentExemptMin
           /\ feeVault'[f] = feeVault[f] + RentExemptMin
        \/ wallet'[f] = wallet[f] /\ feeVault'[f] = feeVault[f]
        \/ wallet'[f] = wallet[f] + feeVault[f] /\ feeVault'[f] = 0
    BY <1>1, BalanceTypes DEF CreateFeeAccount, UpdateFees, WithdrawFeesSol
  <2>2. wallet'[f] + feeVault'[f] = wallet[f] + feeVault[f]
    BY <1>1, <2>1, BalanceTypes
  <2> QED
    BY <1>3, <2>2, BalanceTypes, BalanceTypesNext
<1> QED
  BY <1>2, <1>3

(* A call costs its signer what it names, and others nothing.              *)
LEMMA PerformCosts ==
  ASSUME IInv, IInv', NEW call \in ZebecCalls \cup OtherCalls, NEW signed,
         Perform(call, signed), NEW u \in Users
  PROVE  Cost(call, u) \in Nat /\ Left(u)' >= Left(u) - Cost(call, u)
<1>1. Cost(call, u) \in Nat
  <2>1. Spender(call, u) => call.amount \in StreamAmounts \cup TransferAmounts
    BY CallFields DEF Spender
  <2>2. StreamAmounts \subseteq Nat /\ TransferAmounts \subseteq Nat
    BY StreamAssumption, UtilsAssumption DEF U64
  <2> QED
    BY <2>1, <2>2 DEF Cost
<1> SUFFICES Left(u)' >= Left(u) - Cost(call, u)
  BY <1>1
<1>2. ASSUME Left(u)' >= Left(u)
      PROVE  Left(u)' >= Left(u) - Cost(call, u)
  BY <1>1, <1>2, BalanceTypes, BalanceTypesNext
<1>3. ASSUME call.op \in {"native_stream", "native_stream_update",
                          "instant_native_transfer", "send_sol_directly"},
             Left(u)' >= Left(u) - (IF u = call.signer THEN call.amount ELSE 0)
      PROVE  Left(u)' >= Left(u) - Cost(call, u)
  BY <1>3 DEF Cost, Spender
<1>4. CASE call.op = "deposit_sol" /\ DepositSol(call.signer, call.amount)
  BY <1>2, <1>4, CallFields, DepositCosts
<1>5. CASE /\ call.op = "native_stream"
           /\ NativeStream(call.stream, call.signer, call.receiver, call.fee_owner,
                           call.start_time, call.end_time, call.amount,
                           call.can_cancel, call.can_update)
  BY <1>3, <1>5, CallFields, OpenCosts
<1>6. CASE /\ call.op = "native_stream_update" /\ stream[call.stream].sender = call.signer
           /\ UpdateNativeStream(call.stream, call.start_time, call.end_time, call.amount)
  <2>1. /\ call.stream \in Streams /\ call.amount \in StreamAmounts
    BY <1>6, CallFields
  <2>2. Left(u)' >= Left(u) - (IF u = stream[call.stream].sender THEN call.amount ELSE 0)
    BY <1>6, <2>1, UpdateCosts
  <2> QED
    BY <1>3, <1>6, <2>2
<1>7. CASE /\ call.stream \in DOMAIN stream
           /\ \/ PauseStream(call.stream) \/ CancelStream(call.stream)
              \/ WithdrawStream(call.stream)
  <2>1. call.stream \in Streams
    BY <1>7 DEF IInv, StreamsOK
  <2> QED
    BY <1>2, <1>7, <2>1, PauseCosts, ClosingCosts
<1>8. CASE /\ call.op = "instant_native_transfer"
           /\ NativeTransfer(call.signer, call.receiver, call.amount)
  <2>1. /\ call.signer \in Senders /\ call.receiver \in Users
        /\ call.amount \in TransferAmounts
    BY <1>8, CallFields, StreamAssumption
  <2>2. Left(u)' >= Left(u) - (IF u = call.signer /\ call.receiver # call.signer
                                 THEN call.amount ELSE 0)
    BY <1>8, <2>1, TakeCosts DEF NativeTransfer
  <2>3. call.amount \in Nat
    <3>1. TransferAmounts \subseteq Nat
      BY StreamAssumption, UtilsAssumption DEF U64
    <3> QED
      BY <2>1, <3>1
  <2>4. Left(u)' >= Left(u) - (IF u = call.signer THEN call.amount ELSE 0)
    BY <2>2, <2>3, BalanceTypes, BalanceTypesNext
  <2> QED
    BY <1>3, <1>8, <2>4
<1>9. CASE call.op = "native_withdrawal" /\ NativeWithdrawal(call.signer, call.amount)
  <2>1. call.signer \in Senders /\ call.amount \in TransferAmounts /\ call.signer \in Users
    BY <1>9, CallFields, StreamAssumption
  <2>2. Left(u)' >= Left(u) - 0
    BY <1>9, <2>1, TakeCosts DEF NativeWithdrawal
  <2> QED
    BY <1>2, <2>2, BalanceTypes, BalanceTypesNext
<1>10. CASE /\ call.op = "send_sol_directly"
            /\ SolDirectly(call.signer, call.receiver, call.amount)
  BY <1>3, <1>10, CallFields, StreamAssumption, DirectCosts
<1>11. CASE /\ \/ call.op = "create_fee_account" /\ CreateFeeAccount(call.signer, call.fee_percentage)
               \/ call.op = "update_fees" /\ UpdateFees(call.signer, call.fee_percentage)
               \/ call.op = "withdraw_fees_sol" /\ WithdrawFeesSol(call.signer)
            /\ UNCHANGED <<now, stream, reserve, vault>>
  BY <1>2, <1>11, CallFields, FeesCost
<1>12. CASE UNCHANGED vars
  <2>1. Left(u)' = Left(u)
    BY <1>12 DEF vars, feeVars, Left, Funds, OwedBy
  <2> QED
    BY <1>2, <2>1, BalanceTypes
<1> QED
  BY <1>4, <1>5, <1>6, <1>7, <1>8, <1>9, <1>10, <1>11, <1>12 DEF Perform

-----------------------------------------------------------------------------
(* What the owners had executed                                            *)

LEMMA BurnKeeps ==
  ASSUME NEW tx \in TransactionRecord
  PROVE  /\ Burn(tx).instruction = tx.instruction /\ Burn(tx).multisig = tx.multisig
         /\ Burn(tx).did_execute = TRUE
BY DEF Burn, TransactionRecord

LEMMA PriceType ==
  ASSUME NEW ix \in Instructions, NEW u
  PROVE  Price(ix, u) \in U64
<1>1. 0 \in U64 /\ StreamAmounts \subseteq U64 /\ TransferAmounts \subseteq U64
  BY StreamAssumption, UtilsAssumption DEF U64
<1>2. ASSUME Spends(ix, u)
      PROVE  ix.call.amount \in U64
  <2>1. /\ ix.call \in ZebecCalls \cup OtherCalls
        /\ ix.call.op \in {"native_stream", "native_stream_update",
                           "instant_native_transfer", "send_sol_directly"}
    BY <1>2, StoredCall DEF Spends
  <2>2. ix.call.amount \in StreamAmounts \cup TransferAmounts
    BY <2>1, CallFields
  <2> QED
    BY <1>1, <2>2
<1> QED
  BY <1>1, <1>2 DEF Price

LEMMA AuthorisedType ==
  ASSUME MultisigInv, NEW u
  PROVE  IsFiniteSet(Spending(u)) /\ Authorised(u) \in Nat
<1>1. IsFiniteSet(Spending(u))
  BY FewTransactions, FS_Subset DEF Spending, MultisigInv, MultisigTypeOK
<1> QED
  BY <1>1, TotalType DEF Authorised

(* An execution authorises what its last instruction names.  That          *)
(* instruction was not executed before, so it had not been counted.        *)
LEMMA ExecutionAuthorises ==
  ASSUME MultisigInv, NEW c \in Chains, ExecuteTransaction(c), NEW u
  PROVE  Authorised(u)' = Authorised(u) + Price(Stored(c), u)
<1> DEFINE last == c[Len(c)]
           after == {t \in DOMAIN transaction' :
                       performed'[t] > 0 /\ Spends(transaction'[t].instruction, u)}
           f == [t \in Spending(u) |-> transaction[t].instruction.call.amount]
           g == [t \in after |-> transaction'[t].instruction.call.amount]
<1>1. /\ last \in Range(c) /\ Range(c) \subseteq DOMAIN transaction
      /\ Stored(c) \in Instructions /\ Stored(c) = transaction[last].instruction
      /\ \A t \in Range(c) \ {last} : transaction[t].instruction.op # "call"
  BY ChainEnds DEF Stored
<1>2. /\ DOMAIN transaction \subseteq Txs /\ performed \in [Txs -> Nat]
      /\ \A t \in DOMAIN transaction : transaction[t] \in TransactionRecord
  BY DEF MultisigInv, MultisigTypeOK
<1>3. /\ DOMAIN transaction' = DOMAIN transaction
      /\ \A t \in DOMAIN transaction :
           transaction'[t].instruction = transaction[t].instruction
  BY <1>2, BurnKeeps DEF ExecuteTransaction
<1>4. \A t \in Txs : performed'[t] = IF t \in Range(c) THEN performed[t] + 1 ELSE performed[t]
  BY DEF ExecuteTransaction
<1>5. performed[last] = 0
  BY <1>1, <1>2 DEF ExecuteTransaction, Executable, MultisigInv, PerformedOnce
<1>6. after \ {last} = Spending(u) \ {last}
  BY <1>1, <1>2, <1>3, <1>4 DEF Spending, Spends
<1>7. last \notin Spending(u) /\ (last \in after <=> Spends(Stored(c), u))
  BY <1>1, <1>2, <1>3, <1>4, <1>5 DEF Spending
<1>8. after \subseteq DOMAIN transaction /\ Spending(u) \subseteq DOMAIN transaction
  BY <1>3 DEF Spending
<1> HIDE DEF after, last
<1>9. /\ DOMAIN f = Spending(u) /\ DOMAIN g = after
      /\ \A t \in DOMAIN f \ {last} : g[t] = f[t]
  BY <1>3, <1>6, <1>8
<1>10. At(f, last) = 0 /\ At(g, last) = Price(Stored(c), u)
  BY <1>1, <1>3, <1>7, <1>8 DEF At, Price
<1>11. At(f, last) \in U64 /\ At(g, last) \in U64
  BY <1>1, <1>10, PriceType, UtilsAssumption DEF U64
<1> HIDE DEF f, g
<1>12. Total(g) = Total(f) + At(g, last) - At(f, last)
  BY <1>6, <1>9, <1>11, AuthorisedType, TotalStep
<1>13. Authorised(u) = Total(f) /\ Authorised(u)' = Total(g)
  BY DEF Authorised, Spending, f, g, after
<1>14. Price(Stored(c), u) \in Nat /\ Authorised(u) \in Nat
  BY <1>1, PriceType, AuthorisedType, UtilsAssumption DEF U64
<1> QED
  BY <1>10, <1>12, <1>13, <1>14

(* What is stored and approved is not authorised yet.                      *)
LEMMA AuthorisedSame ==
  ASSUME performed' = performed,
         \A t \in DOMAIN transaction :
           t \in DOMAIN transaction' /\ transaction'[t].instruction = transaction[t].instruction,
         \A t \in DOMAIN transaction' \ DOMAIN transaction : performed[t] = 0,
         NEW u
  PROVE  Authorised(u)' = Authorised(u)
<1> DEFINE after == {t \in DOMAIN transaction' :
                       performed'[t] > 0 /\ Spends(transaction'[t].instruction, u)}
           f == [t \in Spending(u) |-> transaction[t].instruction.call.amount]
           g == [t \in after |-> transaction'[t].instruction.call.amount]
<1>1. after = Spending(u)
  BY DEF Spending
<1>2. f = g
  BY <1>1 DEF Spending
<1> QED
  BY <1>2 DEF Authorised, Spending

LEMMA StoringAuthorisesNothing ==
  ASSUME MultisigInv, NEW u,
         \/ \E m \in Multisigs, l \in OwnerLists, th \in Thresholds, n \in Nonces :
              CreateMultisig(m, l, th, n)
         \/ \E t \in Txs, m \in Multisigs, p \in Owners, ix \in Instructions :
              CreateTransaction(t, m, p, ix)
         \/ \E t \in Txs, p \in Owners : Approve(t, p)
  PROVE  Authorised(u)' = Authorised(u)
<1>1. \A t \in DOMAIN transaction : transaction[t] \in TransactionRecord
  BY DEF MultisigInv, MultisigTypeOK
<1>2. ASSUME NEW m, NEW l, NEW th, NEW n, CreateMultisig(m, l, th, n)
      PROVE  Authorised(u)' = Authorised(u)
  BY <1>2, AuthorisedSame DEF CreateMultisig
<1>3. ASSUME NEW t \in Txs, NEW m, NEW p, NEW ix, CreateTransaction(t, m, p, ix)
      PROVE  Authorised(u)' = Authorised(u)
  <2>1. performed[t] = 0
    BY <1>3 DEF CreateTransaction, MultisigInv, PerformedOnce
  <2> QED
    BY <1>3, <2>1, AuthorisedSame DEF CreateTransaction
<1>4. ASSUME NEW t, NEW p, Approve(t, p)
      PROVE  Authorised(u)' = Authorised(u)
  <2>1. PICK i : transaction' = [transaction EXCEPT ![t].signers[i] = TRUE]
    BY <1>4 DEF Approve
  <2>2. DOMAIN transaction' = DOMAIN transaction /\ performed' = performed
    BY <1>4, <2>1 DEF Approve
  <2>3. \A x \in DOMAIN transaction : transaction'[x].instruction = transaction[x].instruction
    BY <1>1, <2>1 DEF TransactionRecord
  <2> QED
    BY <2>2, <2>3, AuthorisedSame
<1> QED
  BY <1>2, <1>3, <1>4

LEMMA SpentInit == SenderInit => SpentAsDecided
<1> SUFFICES ASSUME SenderInit, NEW u \in Signers
             PROVE  InitialWallet[u] - Funds(u) + OwedBy(u) <= Authorised(u)
  BY DEF SpentAsDecided
<1>1. u \in Users /\ InitialWallet[u] \in Nat
  BY SignersAreUsers, StreamAssumption, UtilsAssumption DEF U64
<1>2. Funds(u) = InitialWallet[u] /\ OwedBy(u) = 0
  BY <1>1 DEF SenderInit, Init, FeeInit, Funds, OwedBy
<1>3. Spending(u) = {}
  BY DEF SenderInit, MultisigInit, Spending
<1>4. Authorised(u) = 0
  BY <1>3, TotalZero DEF Authorised
<1> QED
  BY <1>1, <1>2, <1>4

(* A step that authorises as much as it costs keeps within the budget.     *)
LEMMA WithinBudget ==
  ASSUME IInv, IInv', MultisigInv, NEW u \in Users, NEW d \in Nat,
         InitialWallet[u] - Funds(u) + OwedBy(u) <= Authorised(u),
         Left(u)' >= Left(u) - d, Authorised(u)' = Authorised(u) + d
  PROVE  InitialWallet[u] - Funds(u)' + OwedBy(u)' <= Authorised(u)'
<1>1. InitialWallet[u] \in Nat /\ Authorised(u) \in Nat
  BY AuthorisedType, StreamAssumption, UtilsAssumption DEF U64
<1>2. /\ Funds(u) \in Int /\ OwedBy(u) \in Int
      /\ Left(u) = Funds(u) - OwedBy(u)
  BY BalanceTypes DEF Funds, OwedBy, Left
<1>3. /\ Funds(u)' \in Int /\ OwedBy(u)' \in Int
      /\ Left(u)' = Funds(u)' - OwedBy(u)'
  BY BalanceTypesNext DEF Funds, OwedBy, Left
<1> QED
  BY <1>1, <1>2, <1>3

LEMMA SpentStep ==
  ASSUME IInv, MultisigInv, IInv', SpentAsDecided, [SenderNext]_allVars
  PROVE  SpentAsDecided'
<1> SUFFICES ASSUME NEW u \in Signers
             PROVE  InitialWallet[u] - Funds(u)' + OwedBy(u)' <= Authorised(u)'
  BY DEF SpentAsDecided
<1>1. /\ InitialWallet[u] - Funds(u) + OwedBy(u) <= Authorised(u)
      /\ u \in Users /\ Authorised(u) \in Nat
  BY SignersAreUsers, AuthorisedType DEF SpentAsDecided
<1>2. ASSUME Authorised(u)' = Authorised(u), Left(u)' >= Left(u)
      PROVE  InitialWallet[u] - Funds(u)' + OwedBy(u)' <= Authorised(u)'
  <2>1. Left(u)' >= Left(u) - 0 /\ Authorised(u)' = Authorised(u) + 0
    BY <1>1, <1>2, BalanceTypes, BalanceTypesNext
  <2> QED
    BY <1>1, <2>1, WithinBudget
<1>3. UNCHANGED vars => Left(u)' >= Left(u)
  <2>1. UNCHANGED vars => Left(u)' = Left(u)
    BY DEF vars, feeVars, Left, Funds, OwedBy
  <2> QED
    BY <1>1, <2>1, BalanceTypes
<1>4. UNCHANGED multisigVars => Authorised(u)' = Authorised(u)
  BY DEF multisigVars, Authorised, Spending
<1>5. ASSUME NEW c \in Chains, Execute(c)
      PROVE  InitialWallet[u] - Funds(u)' + OwedBy(u)' <= Authorised(u)'
  <2>1. Authorised(u)' = Authorised(u) + Price(Stored(c), u)
    BY <1>5, ExecutionAuthorises DEF Execute
  <2>2. CASE Stored(c).op # "call" /\ UNCHANGED vars
    <3>1. Price(Stored(c), u) = 0
      BY <2>2 DEF Price, Spends
    <3> QED
      BY <1>1, <1>2, <1>3, <2>1, <2>2, <3>1
  <2>3. CASE /\ Stored(c).op = "call" /\ Stored(c).call \in ZebecCalls \cup OtherCalls
             /\ Perform(Stored(c).call, Signed(c) \cup Wallets)
    <3>1. Price(Stored(c), u) = Cost(Stored(c).call, u)
      BY <2>3 DEF Price, Spends, Cost, Spender
    <3>2. /\ Cost(Stored(c).call, u) \in Nat
          /\ Left(u)' >= Left(u) - Cost(Stored(c).call, u)
      BY <1>1, <2>3, PerformCosts
    <3> QED
      BY <1>1, <2>1, <3>1, <3>2, WithinBudget
  <2> QED
    BY <1>5, <2>2, <2>3, ExecuteIsStep
<1>6. ASSUME NEW call \in ZebecCalls, Perform(call, Wallets)
      PROVE  Left(u)' >= Left(u)
  <2>1. call.signer # u
    BY <1>6 DEF Perform, Wallets
  <2>2. Cost(call, u) = 0 /\ Left(u)' >= Left(u) - Cost(call, u)
    BY <1>1, <1>6, <2>1, PerformCosts DEF Cost, Spender
  <2> QED
    BY <1>1, <2>2, BalanceTypes, BalanceTypesNext
<1>7. Tick => Left(u)' >= Left(u)
  <2>1. Tick => Left(u)' = Left(u)
    BY DEF Tick, feeVars, Left, Funds, OwedBy
  <2> QED
    BY <1>1, <2>1, BalanceTypes
<1> QED
  BY <1>2, <1>3, <1>4, <1>5, <1>6, <1>7, StoringAuthorisesNothing
     DEF SenderNext, allVars

(* For every set of multisigs, streams and stored calls, however           *)
(* executions are nested and claims interleaved with them: what left the   *)
(* funds of a multisig's signer, and what its streams are still owed, was  *)
(* provided for by calls its owners had executed, each counted once.       *)
THEOREM SpentSafe == SenderSpec => []SpentAsDecided
<1>1. IInv /\ MultisigInv /\ (IInv /\ MultisigInv)' /\ SpentAsDecided
        /\ [SenderNext]_allVars => SpentAsDecided'
  BY SpentStep
<1> QED
  BY <1>1, SpentInit, InvOfBoth, PTL DEF SenderSpec, allVars

-----------------------------------------------------------------------------
(* Who decides about a stream                                              *)

LEMMA OthersUnaltered ==
  ASSUME NEW x, OnlyStream(x), NEW s, Altered(s)
  PROVE  s = x
BY DEF OnlyStream, Altered

LEMMA SameUnaltered ==
  ASSUME stream' = stream, NEW s
  PROVE  ~ Altered(s)
BY DEF Altered

(* A claim closes a stream only when nothing is left to be decided.        *)
LEMMA ClaimAltersNothing ==
  ASSUME IInv, NEW x \in Streams, WithdrawStream(x), NEW s
  PROVE  ~ Altered(s)
<1> SUFFICES ASSUME Altered(s) PROVE FALSE
  OBVIOUS
<1>1. OnlyStream(x)
  BY WithdrawKeeps DEF Touches, Kept
<1>2. s = x /\ x \in DOMAIN stream /\ stream[x] \in StreamRecord
  BY <1>1, OthersUnaltered DEF WithdrawStream, ClaimStream, ClaimPasses, IInv, StreamsOK
<1>3. CASE x \in DOMAIN stream'
  <2>1. stream'[x] = [stream[x] EXCEPT !.withdrawn = stream[x].withdrawn + ClaimAmount(stream[x])]
    BY <1>3 DEF WithdrawStream, ClaimStream, ClaimPasses, CloseAccount
  <2>2. /\ stream'[x].paused = stream[x].paused
        /\ stream'[x].start_time = stream[x].start_time
        /\ stream'[x].end_time = stream[x].end_time
        /\ stream'[x].amount = stream[x].amount
    BY <1>2, <2>1 DEF StreamRecord
  <2> QED
    BY <1>2, <1>3, <2>2 DEF Altered, Terms
<1>4. CASE x \notin DOMAIN stream'
  <2>1. stream[x].amount = 0 \/ now >= stream[x].end_time
    BY <1>4, ClaimCloses
  <2>2. now \in Nat /\ stream[x].end_time \in Nat
    BY <1>2, UtilsAssumption DEF IInv, StreamsOK, StreamRecord, U64
  <2> QED
    BY <1>2, <1>4, <2>1, <2>2 DEF Altered
<1> QED
  BY <1>3, <1>4

(* A call alters only the stream it names, and its sender signs it.        *)
LEMMA PerformAlters ==
  ASSUME IInv, NEW call \in ZebecCalls \cup OtherCalls, NEW signed,
         Perform(call, signed), NEW s, Altered(s)
  PROVE  /\ SenderOf(s) = call.signer /\ call.signer \in signed
         /\ call.op \in {"native_stream", "native_stream_update",
                         "pause_stream", "cancel_stream"}
         /\ call.stream = s
<1>1. call.signer \in signed
  BY DEF Perform
<1>2. ASSUME NEW k, k = call.signer, Touches(call.stream, k)
      PROVE  call.stream = s /\ SenderOf(s) = call.signer
  <2>1. s = call.stream
    BY <1>2, OthersUnaltered DEF Touches, Kept
  <2> QED
    BY <1>2, <2>1 DEF Touches, Altered, SenderOf
<1>3. CASE /\ call.op = "native_stream"
           /\ NativeStream(call.stream, call.signer, call.receiver, call.fee_owner,
                           call.start_time, call.end_time, call.amount,
                           call.can_cancel, call.can_update)
  <2>1. Touches(call.stream, call.signer)
    BY <1>3, CallFields, OpenKeeps
  <2> QED
    BY <1>1, <1>2, <1>3, <2>1
<1>4. CASE /\ call.op = "native_stream_update" /\ stream[call.stream].sender = call.signer
           /\ UpdateNativeStream(call.stream, call.start_time, call.end_time, call.amount)
  <2>1. \E k \in Senders : Touches(call.stream, k) /\ stream[call.stream].sender = k
    BY <1>4, CallFields, UpdateKeeps
  <2> QED
    BY <1>1, <1>2, <1>4, <2>1
<1>5. CASE /\ call.op \in {"pause_stream", "cancel_stream"}
           /\ call.stream \in DOMAIN stream /\ stream[call.stream].sender = call.signer
           /\ PauseStream(call.stream) \/ CancelStream(call.stream)
  <2>1. call.stream \in Streams
    BY <1>5 DEF IInv, StreamsOK
  <2>2. \E k \in Senders : Touches(call.stream, k)
    BY <1>5, <2>1, PauseKeeps, CancelKeeps
  <2>3. Touches(call.stream, call.signer)
    BY <1>5, <2>2 DEF Touches
  <2> QED
    BY <1>1, <1>2, <1>5, <2>3
<1>6. CASE call.op = "withdraw_stream" /\ WithdrawStream(call.stream)
  BY <1>6, CallFields, ClaimAltersNothing
<1>7. CASE stream' = stream
  BY <1>7, SameUnaltered
<1> QED
  BY <1>3, <1>4, <1>5, <1>6, <1>7
     DEF Perform, DepositSol, NativeTransfer, NativeWithdrawal, TakeFromVault, SolDirectly, vars

(* Every multisig that signs an execution has a transaction in it that is  *)
(* executed for the first time, with the approval its owners asked for.    *)
LEMMA SignersDecided ==
  ASSUME MultisigInv, NEW c \in Chains, ExecuteTransaction(c), NEW u \in Signed(c)
  PROVE  \E t \in DOMAIN transaction :
           /\ ~ transaction[t].did_execute /\ transaction'[t].did_execute
           /\ MultisigSigner[transaction[t].multisig] = u /\ Carried(t)
<1>1. PICK t \in Range(c) : u = MultisigSigner[transaction[t].multisig]
  BY DEF Signed
<1> QED
  BY <1>1, ExecutedCarried

(* No one but the owners of its sender's multisig, enough of them and all  *)
(* in force, decides about a stream, by a call that names it: not the      *)
(* receiver by claiming, not wallets, not the owners of other multisigs by *)
(* executing each other's instructions.                                    *)
THEOREM DecidedSafe == SenderSpec => StreamsByDecision
<1> DEFINE executed == {t \in DOMAIN transaction :
                          ~ transaction[t].did_execute /\ transaction'[t].did_execute}
           ByOwners(s) ==
             /\ \E t \in executed : Decides(transaction[t].instruction, s)
             /\ \E t \in executed :
                  MultisigSigner[transaction[t].multisig] = SenderOf(s) /\ Carried(t)
<1>1. IInv /\ MultisigInv /\ [SenderNext]_allVars
        => [\A s \in Streams : Altered(s) /\ SenderOf(s) \in Signers => ByOwners(s)]_allVars
  <2> SUFFICES ASSUME IInv, MultisigInv, SenderNext, NEW s \in Streams, Altered(s),
                      SenderOf(s) \in Signers
               PROVE  ByOwners(s)
    OBVIOUS
  <2>1. stream' # stream
    BY SameUnaltered
  <2>2. ASSUME NEW call \in ZebecCalls, Perform(call, Wallets)
        PROVE  FALSE
    <3>1. SenderOf(s) \in Wallets
      BY <2>2, PerformAlters
    <3> QED
      BY <3>1 DEF Wallets
  <2>3. PICK c \in Chains : Execute(c)
    BY <2>1, <2>2 DEF SenderNext, vars, Tick
  <2>4. /\ ExecuteTransaction(c) /\ Stored(c).op = "call"
        /\ Stored(c).call \in ZebecCalls \cup OtherCalls
        /\ Perform(Stored(c).call, Signed(c) \cup Wallets)
    BY <2>1, <2>3, ExecuteIsStep DEF vars
  <2>5. SenderOf(s) \in Signed(c) /\ Decides(Stored(c), s)
    <3>1. SenderOf(s) \in Signed(c) \cup Wallets /\ Decides(Stored(c), s)
      BY <2>4, PerformAlters DEF Decides
    <3> QED
      BY <3>1 DEF Wallets
  <2>6. c[Len(c)] \in executed
    BY <2>4, ChainEnds, ExecutedCarried
  <2>7. \E t \in executed : Decides(transaction[t].instruction, s)
    BY <2>5, <2>6 DEF Stored
  <2>8. \E t \in executed :
          MultisigSigner[transaction[t].multisig] = SenderOf(s) /\ Carried(t)
    <3>1. PICK u \in Signed(c) : u = SenderOf(s)
      BY <2>5
    <3> QED
      BY <2>4, <3>1, SignersDecided
  <2> QED
    BY <2>7, <2>8
<1> QED
  BY <1>1, InvOfBoth, PTL DEF SenderSpec, StreamsByDecision, allVars

=============================================================================
