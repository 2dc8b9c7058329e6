---------------------------- MODULE NativeStream ----------------------------
(***************************************************************************)
(* SOL streams (native_stream/mod.rs) together with the fee accounts they  *)
(* pay into.  A sender deposits lamports in a vault, opens streams that    *)
(* release an amount linearly between two times, and may update, pause,    *)
(* resume or cancel them; the receiver withdraws what has been released.   *)
(* All the streams of a sender share one vault, and the account            *)
(* withdraw_data counts what the vault still owes to them.                 *)
(*                                                                         *)
(* A transaction runs one instruction, atomically; one that returns Err    *)
(* changes nothing, so a handler is an action whose guards are its checks. *)
(***************************************************************************)
EXTENDS StreamTerms

vars == <<wallet, feeVars, now, stream, reserve, vault>>

TypeOK ==
  /\ FeeTypeOK
  /\ now \in U64
  /\ DOMAIN stream \subseteq Streams
  /\ stream = [s \in DOMAIN stream |-> stream[s]]
  /\ \A s \in DOMAIN stream :
       stream[s] \in StreamRecord /\ stream[s].fee_owner \in DOMAIN feeData
  /\ reserve \in [Senders -> U64]
  /\ vault \in [Senders -> U64]

Init ==
  /\ wallet = InitialWallet
  /\ FeeInit
  /\ now = 0
  /\ stream = [s \in {} |-> 0]
  /\ reserve = [sd \in Senders |-> 0]
  /\ vault = [sd \in Senders |-> 0]

-----------------------------------------------------------------------------
PaymentPasses(st, amount) ==
  LET comission == CalculateComission(st.fee_percentage, amount)
      receiver_amount == ReceiverAmount(amount, comission)
  IN  /\ amount <= vault[st.sender]
      /\ ComissionFits(st.fee_percentage, amount)
      /\ Fits(receiver_amount)
      /\ Fits(wallet[st.receiver] + receiver_amount)
      /\ Fits(feeVault[st.fee_owner] + comission)
      /\ RentExempt(vault[st.sender] - amount)
      /\ RentExempt(feeVault[st.fee_owner] + comission)

(* Pay `amount` out of the vault of the stream's sender: the receiver gets *)
(* it less the commission, which goes to the fee vault.                    *)
PayFromVault(st, amount) ==
  LET comission == CalculateComission(st.fee_percentage, amount)
      receiver_amount == ReceiverAmount(amount, comission)
  IN  /\ PaymentPasses(st, amount)
      /\ vault' = [vault EXCEPT ![st.sender] = @ - amount]
      /\ wallet' = [wallet EXCEPT ![st.receiver] = @ + receiver_amount]
      /\ feeVault' = [feeVault EXCEPT ![st.fee_owner] = @ + comission]

-----------------------------------------------------------------------------
(* Instructions                                                            *)

(* The first deposit, or the first after the vault was emptied, creates    *)
(* the vault at the sender's expense.                                      *)
DepositSol(sd, amount) ==
  /\ VaultRent(sd) + amount <= wallet[sd]
  /\ Fits(vault[sd] + VaultRent(sd) + amount)
  /\ wallet' = [wallet EXCEPT ![sd] = @ - (VaultRent(sd) + amount)]
  /\ vault' = [vault EXCEPT ![sd] = @ + VaultRent(sd) + amount]
  /\ UNCHANGED <<feeVars, now, stream, reserve>>

(* Nothing asks that the vault can cover the new stream.                   *)
NativeStream(s, sd, r, f, start_time, end_time, amount, can_cancel, can_update) ==
  /\ StartStream(s, sd, f, sd, r, start_time, end_time, amount, can_cancel, can_update)
  /\ UNCHANGED <<wallet, feeVars, now, vault>>

UpdateNativeStream(s, start_time, end_time, amount) ==
  /\ ReviseStream(s, stream[s].sender, start_time, end_time, amount)
  /\ UNCHANGED <<wallet, feeVars, now, vault>>

(* All the checks of withdraw_stream: what it does when they pass is a     *)
(* function of the state, so these are the states it succeeds in.          *)
WithdrawPasses(s) ==
  /\ ClaimPasses(s, stream[s].sender)
  /\ PaymentPasses(stream[s], ClaimAmount(stream[s]))

WithdrawStream(s) ==
  /\ ClaimStream(s, stream[s].sender)
  /\ PayFromVault(stream[s], ClaimAmount(stream[s]))
  /\ UNCHANGED <<feeData, feeVaults, now>>

PauseStream(s) ==
  /\ ToggleStream(s, stream[s].sender)
  /\ UNCHANGED <<wallet, feeVars, now, vault>>

CancelPasses(s) ==
  /\ EndPasses(s, stream[s].sender)
  /\ PaymentPasses(stream[s], CancelAmount(stream[s]))

(* The sender ends the stream; the receiver gets what is payable.          *)
CancelStream(s) ==
  /\ EndStream(s, stream[s].sender)
  /\ PayFromVault(stream[s], CancelAmount(stream[s]))
  /\ UNCHANGED <<feeData, feeVaults, now>>

(* Lamports leave the vault for `u`, unless they are owed to streams.      *)
TakeFromVault(sd, u, amount) ==
  /\ amount <= vault[sd]
  /\ Covered(sd, vault[sd], amount)
  /\ Fits(wallet[u] + amount)
  /\ RentExempt(vault[sd] - amount)
  /\ vault' = [vault EXCEPT ![sd] = @ - amount]
  /\ wallet' = [wallet EXCEPT ![u] = @ + amount]
  /\ UNCHANGED <<feeVars, now, stream, reserve>>

NativeTransfer(sd, r, amount) == TakeFromVault(sd, r, amount)

NativeWithdrawal(sd, amount) == TakeFromVault(sd, sd, amount)

SolDirectly(u, v, amount) ==
  LET debited == [wallet EXCEPT ![u] = @ - amount]
  IN  /\ amount <= wallet[u]
      /\ Fits(debited[v] + amount)
      /\ wallet' = [debited EXCEPT ![v] = @ + amount]
      /\ UNCHANGED <<feeVars, now, stream, reserve, vault>>

Tick ==
  /\ ClockMoves
  /\ UNCHANGED <<wallet, feeVars, stream, reserve, vault>>

Next ==
  \/ Tick
  \/ FeeNext /\ UNCHANGED <<now, stream, reserve, vault>>
  \/ \E sd \in Senders :
       \/ \E a \in DepositAmounts : DepositSol(sd, a)
       \/ \E a \in TransferAmounts :
            \/ NativeWithdrawal(sd, a)
            \/ \E r \in Receivers : NativeTransfer(sd, r, a) \/ SolDirectly(sd, r, a)
       \/ \E s \in Streams, r \in Receivers, f \in FeeOwners,
             t1, t2 \in StreamTimes, a \in StreamAmounts,
             cc \in CanCancel, cu \in CanUpdate :
            NativeStream(s, sd, r, f, t1, t2, a, cc, cu)
  \/ \E s \in Streams :
       \/ \E t1, t2 \in StreamTimes, a \in StreamAmounts :
            UpdateNativeStream(s, t1, t2, a)
       \/ WithdrawStream(s) \/ PauseStream(s) \/ CancelStream(s)

Spec == Init /\ [][Next]_vars

(* A clock that keeps moving, and receivers who keep claiming.             *)
FairSpec ==
  Spec /\ WF_vars(Tick) /\ \A s \in Streams : WF_vars(WithdrawStream(s))

-----------------------------------------------------------------------------
(* Properties                                                              *)

StreamsOf(sd) == {s \in DOMAIN stream : stream[s].sender = sd}

(* withdraw_data, which every handler adjusts by its own arithmetic, is at *)
(* all times exactly the sum of what the live streams of the sender are    *)
(* owed; in particular zero once all of them are closed.                   *)
ReserveExact ==
  \A sd \in Senders : reserve[sd] = OwedTo(StreamsOf(sd))

(* Payments out of the vault can be made: the sender keeps the vault's     *)
(* rent on top of the reserve, the fee vault was not dropped, and the      *)
(* commission of the whole amount is a u64.                                *)
Funded(st) ==
  /\ vault[st.sender] >= reserve[st.sender] + RentExemptMin
  /\ st.fee_owner \in feeVaults
  /\ ComissionFits(st.fee_percentage, st.amount)

(* No check of withdraw_stream or cancel_stream ever stands in the way of  *)
(* a started, respectively cancellable, stream whose sender kept the vault *)
(* funded, whatever the other streams on the same vault did.  A            *)
(* cancellation adds up the stream's whole amount, however much of it was  *)
(* written off, and what the other streams are owed: that must be a u64.   *)
FundedPays ==
  \A s \in DOMAIN stream :
    LET st == stream[s]
    IN  Funded(st) =>
          /\ now > st.start_time => WithdrawPasses(s)
          /\ Cancellable(st) /\ Fits(st.amount + OwedTo(StreamsOf(st.sender) \ {s}))
               => CancelPasses(s)

(* A vault that covers the reserve goes on covering it: no claim,          *)
(* cancellation, pause, withdrawal or transfer takes what is owed to       *)
(* another stream.  Only new or larger streams can outgrow the vault.      *)
FundedStaysFunded ==
  [][\A sd \in Senders :
       vault[sd] >= reserve[sd] /\ reserve'[sd] <= reserve[sd]
         => vault'[sd] >= reserve'[sd]]_vars

(* A stream created with can_cancel = FALSE exists until its end time: the *)
(* sender can neither cancel it nor have it closed by pauses, and a claim  *)
(* does not close it early.                                                *)
NonCancellableRunsItsTerm ==
  [][\A s \in DOMAIN stream \ DOMAIN stream' :
       \/ stream[s].can_cancel
       \/ stream[s].amount = 0
       \/ now >= stream[s].end_time]_vars

(* Once something was paid or written off, the terms no longer change,     *)
(* although each update may move the start that guards the next one.       *)
TermsFixedOnceUsed ==
  [][\A s \in DOMAIN stream \cap DOMAIN stream' :
       stream[s].withdrawn + stream[s].paused_amt > 0 =>
         /\ stream'[s].start_time = stream[s].start_time
         /\ stream'[s].end_time = stream[s].end_time
         /\ stream'[s].amount = stream[s].amount]_vars

(* No payment creates or loses lamports.                                   *)
LamportsConserved ==
  Total(wallet) + Total(vault) + Total(feeVault) = Total(InitialWallet)

(* A stream whose sender kept the vault funded is closed in the end, even  *)
(* when the sender leaves it paused and can no longer resume or cancel it. *)
FundedStreamCloses ==
  \A s \in Streams :
    [](s \in DOMAIN stream => Funded(stream[s]))
      => (s \in DOMAIN stream ~> s \notin DOMAIN stream)

(* A paused stream that has not reached its end can be resumed.            *)
PausedResumes ==
  \A s \in DOMAIN stream :
    LET st == stream[s]
    IN  st.paused = 1 /\ st.start_time <= now /\ now < st.end_time
          => TogglePasses(s, st.sender)

(* Lamports in a fee vault can be withdrawn by the fee owner.              *)
FeesWithdrawable == \A f \in FeeOwners : feeVault[f] > 0 => f \in feeVaults
=============================================================================
