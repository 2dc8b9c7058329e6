------------------------- MODULE NativeStream_proofs ------------------------
(***************************************************************************)
(* Proofs about the SOL streams: type correctness, the inductive invariant *)
(* of the streams of all senders, and what follows from it for every word  *)
(* size, fee scale, clock bound and set of users, streams and arguments.   *)
(***************************************************************************)
EXTENDS NativeStream, StreamTerms_proofs

(* Every stream satisfies its own invariant, every balance is a u64.       *)
IInv ==
  /\ FeeTypeOK
  /\ reserve \in [Senders -> U64]
  /\ vault \in [Senders -> U64]
  /\ StreamsOK

Lamports == Total(wallet) + Total(vault) + Total(feeVault)

(* A step that changes no stream but s, of the sender sd, and the reserve  *)
(* of sd with it.                                                          *)
Touches(s, sd) ==
  /\ Kept(s, sd, Senders)
  /\ s \in DOMAIN stream => stream[s].sender = sd
  /\ s \in DOMAIN stream' => stream'[s].sender = sd

(* A payment takes as much off the reserve as out of the vault, or more.   *)
Paid(sd, amount) ==
  /\ amount \in U64 /\ amount <= vault[sd]
  /\ vault' = [vault EXCEPT ![sd] = @ - amount]
  /\ reserve'[sd] <= reserve[sd] - amount

-----------------------------------------------------------------------------
(* The instructions keep the invariant                                     *)

LEMMA TypesFromIInv == IInv => TypeOK
  BY DEF IInv, StreamsOK, TypeOK

LEMMA LamportsType ==
  IInv => Total(wallet) \in Nat /\ Total(vault) \in Nat /\ Total(feeVault) \in Nat
<1> SUFFICES ASSUME IInv
             PROVE  Total(wallet) \in Nat /\ Total(vault) \in Nat /\ Total(feeVault) \in Nat
  OBVIOUS
<1>1. DOMAIN wallet = Users /\ DOMAIN vault = Senders /\ DOMAIN feeVault = FeeOwners
  BY DEF IInv, FeeTypeOK
<1> QED
  BY <1>1, TotalType, FeeOwnersFinite, FeeAssumption

LEMMA IInvInit == Init => IInv /\ ReserveExact /\ LamportsConserved
<1> SUFFICES ASSUME Init PROVE IInv /\ ReserveExact /\ LamportsConserved
  OBVIOUS
<1>1. IInv
  BY UtilsAssumption, FeeAssumption, StreamAssumption
     DEF Init, FeeInit, IInv, FeeTypeOK, StreamsOK, U64
<1>2. ReserveExact
  <2>1. SUFFICES ASSUME NEW sd \in Senders PROVE reserve[sd] = OwedTo(StreamsOf(sd))
    BY DEF ReserveExact
  <2>2. OwedTo(StreamsOf(sd)) = 0
    BY TotalZero DEF Init, OwedTo, StreamsOf
  <2> QED
    BY <2>2 DEF Init
<1>3. LamportsConserved
  <2>1. Total(vault) = 0 /\ Total(feeVault) = 0
    BY TotalZero DEF Init, FeeInit
  <2> QED
    BY <1>1, <2>1, LamportsType DEF Init, LamportsConserved
<1> QED
  BY <1>1, <1>2, <1>3

(* A payment moves lamports from the vault to the receiver and to the fee  *)
(* vault.                                                                  *)
LEMMA PaymentKeeps ==
  ASSUME IInv, NEW s \in DOMAIN stream, NEW amount \in U64,
         PayFromVault(stream[s], amount), UNCHANGED <<feeData, feeVaults>>
  PROVE  /\ FeeTypeOK' /\ vault' \in [Senders -> U64]
         /\ vault' = [vault EXCEPT ![stream[s].sender] = @ - amount]
         /\ amount <= vault[stream[s].sender]
         /\ Lamports' = Lamports
<1> DEFINE st == stream[s]
           comission == CalculateComission(st.fee_percentage, amount)
<1>1. /\ st.sender \in Senders /\ st.receiver \in Users /\ st.fee_owner \in FeeOwners
      /\ st.fee_percentage \in Nat /\ amount \in Nat
      /\ wallet \in [Users -> U64] /\ feeVault \in [FeeOwners -> U64]
      /\ vault \in [Senders -> U64]
  BY UtilsAssumption, StreamAssumption DEF IInv, StreamsOK, FeeTypeOK, StreamRecord, U64
<1>2. comission \in Nat
  BY <1>1, ComissionType
<1>3. /\ wallet[st.receiver] \in Nat /\ feeVault[st.fee_owner] \in Nat
      /\ vault[st.sender] \in Nat /\ vault[st.sender] <= MaxU64
  BY <1>1, UtilsAssumption DEF U64
<1>4. /\ amount <= vault[st.sender]
      /\ wallet[st.receiver] + (amount - comission) \in U64
      /\ feeVault[st.fee_owner] + comission \in U64
      /\ vault' = [vault EXCEPT ![st.sender] = vault[st.sender] - amount]
      /\ wallet' = [wallet EXCEPT ![st.receiver] = wallet[st.receiver] + (amount - comission)]
      /\ feeVault' = [feeVault EXCEPT ![st.fee_owner] = feeVault[st.fee_owner] + comission]
  BY DEF PayFromVault, PaymentPasses, ReceiverAmount, Fits
<1>5. vault[st.sender] - amount \in U64
  BY <1>1, <1>3, <1>4, UtilsAssumption DEF U64
<1> HIDE DEF comission
<1>6. /\ wallet' \in [Users -> U64] /\ feeVault' \in [FeeOwners -> U64]
      /\ vault' \in [Senders -> U64]
  BY <1>1, <1>4, <1>5
<1>7. FeeTypeOK'
  BY <1>6 DEF IInv, FeeTypeOK
<1>8. /\ Total(vault') = Total(vault) + (vault[st.sender] - amount) - vault[st.sender]
      /\ Total(wallet') = Total(wallet) + (wallet[st.receiver] + (amount - comission))
                            - wallet[st.receiver]
      /\ Total(feeVault') = Total(feeVault) + (feeVault[st.fee_owner] + comission)
                              - feeVault[st.fee_owner]
  <2>1. Total(vault') = Total(vault) + (vault[st.sender] - amount) - vault[st.sender]
    BY <1>1, <1>4, <1>5, TotalExcept, FeeOwnersFinite
  <2>2. Total(wallet') = Total(wallet) + (wallet[st.receiver] + (amount - comission))
                           - wallet[st.receiver]
    BY <1>1, <1>4, TotalExcept, FeeAssumption
  <2>3. Total(feeVault') = Total(feeVault) + (feeVault[st.fee_owner] + comission)
                             - feeVault[st.fee_owner]
    BY <1>1, <1>4, TotalExcept, FeeOwnersFinite
  <2> QED
    BY <2>1, <2>2, <2>3
<1>9. Total(wallet) \in Nat /\ Total(vault) \in Nat /\ Total(feeVault) \in Nat
  BY LamportsType
<1>10. Lamports' = Lamports
  BY <1>1, <1>2, <1>3, <1>8, <1>9 DEF Lamports
<1> QED
  BY <1>4, <1>6, <1>7, <1>10

(* A move of lamports between a wallet and a vault.                        *)
LEMMA MoveKeeps ==
  ASSUME IInv, NEW sd \in Senders, NEW u \in Users, NEW v \in U64, NEW w \in U64,
         v + w = vault[sd] + wallet[u],
         vault' = [vault EXCEPT ![sd] = v], wallet' = [wallet EXCEPT ![u] = w],
         UNCHANGED <<feeVars, now, stream, reserve>>
  PROVE  IInv' /\ Lamports' = Lamports
<1>1. wallet \in [Users -> U64] /\ vault \in [Senders -> U64]
  BY DEF IInv, FeeTypeOK
<1>2. wallet' \in [Users -> U64] /\ vault' \in [Senders -> U64]
  BY <1>1
<1>3. StreamsOK'
  BY StreamsSame DEF IInv, feeVars
<1>4. IInv'
  BY <1>2, <1>3 DEF IInv, FeeTypeOK, feeVars
<1>5. /\ Total(vault') = Total(vault) + v - vault[sd]
      /\ Total(wallet') = Total(wallet) + w - wallet[u]
  BY <1>1, TotalExcept, FeeOwnersFinite, FeeAssumption
<1>6. v \in Nat /\ w \in Nat /\ vault[sd] \in Nat /\ wallet[u] \in Nat
  BY <1>1, UtilsAssumption DEF U64
<1>7. Lamports' = Lamports
  BY <1>5, <1>6, LamportsType DEF Lamports, feeVars
<1> QED
  BY <1>4, <1>7

LEMMA DepositKeeps ==
  ASSUME IInv, NEW sd \in Senders, NEW a \in DepositAmounts, DepositSol(sd, a)
  PROVE  IInv' /\ Lamports' = Lamports /\ vault'[sd] >= vault[sd]
         /\ vault' = [vault EXCEPT ![sd] = vault'[sd]]
<1> DEFINE paid == VaultRent(sd) + a
<1>1. /\ sd \in Users /\ a \in Nat /\ wallet[sd] \in U64 /\ vault[sd] \in U64
      /\ wallet[sd] \in Nat /\ vault[sd] \in Nat
      /\ VaultRent(sd) \in Nat /\ vault \in [Senders -> U64]
  BY UtilsAssumption, StreamAssumption DEF IInv, FeeTypeOK, U64, VaultRent
<1>2. /\ paid <= wallet[sd] /\ vault[sd] + VaultRent(sd) + a \in U64
      /\ wallet' = [wallet EXCEPT ![sd] = wallet[sd] - paid]
      /\ vault' = [vault EXCEPT ![sd] = vault[sd] + VaultRent(sd) + a]
      /\ UNCHANGED <<feeVars, now, stream, reserve>>
  BY DEF DepositSol, Fits
<1>3. paid \in Nat /\ wallet[sd] - paid \in U64
  BY <1>1, <1>2, UtilsAssumption DEF U64
<1>4. vault[sd] + VaultRent(sd) + a + (wallet[sd] - paid) = vault[sd] + wallet[sd]
  BY <1>1
<1> HIDE DEF paid
<1>5. IInv' /\ Lamports' = Lamports
  BY <1>1, <1>2, <1>3, <1>4, MoveKeeps
<1> QED
  BY <1>1, <1>2, <1>5

LEMMA TakeKeeps ==
  ASSUME IInv, NEW sd \in Senders, NEW u \in Users, NEW a \in TransferAmounts,
         TakeFromVault(sd, u, a)
  PROVE  IInv' /\ Lamports' = Lamports
<1>1. /\ a \in Nat /\ wallet[u] \in Nat /\ vault[sd] \in U64 /\ vault[sd] \in Nat
  BY UtilsAssumption, StreamAssumption DEF IInv, FeeTypeOK, U64
<1>2. /\ a <= vault[sd] /\ wallet[u] + a \in U64
      /\ wallet' = [wallet EXCEPT ![u] = wallet[u] + a]
      /\ vault' = [vault EXCEPT ![sd] = vault[sd] - a]
      /\ UNCHANGED <<feeVars, now, stream, reserve>>
  BY DEF TakeFromVault, Fits
<1>3. vault[sd] - a \in U64 /\ vault[sd] - a + (wallet[u] + a) = vault[sd] + wallet[u]
  BY <1>1, <1>2, UtilsAssumption DEF U64
<1> QED
  BY <1>2, <1>3, MoveKeeps

LEMMA DirectKeeps ==
  ASSUME IInv, NEW u \in Users, NEW v \in Users, NEW a \in TransferAmounts,
         SolDirectly(u, v, a)
  PROVE  IInv' /\ Lamports' = Lamports
<1> DEFINE mid == [wallet EXCEPT ![u] = wallet[u] - a]
<1>1. /\ a \in Nat /\ wallet \in [Users -> U64]
      /\ wallet[u] \in Nat /\ wallet[u] \in U64 /\ wallet[v] \in Nat
  BY UtilsAssumption, StreamAssumption DEF IInv, FeeTypeOK, U64
<1>2. /\ a <= wallet[u] /\ mid[v] + a \in U64
      /\ wallet' = [mid EXCEPT ![v] = mid[v] + a]
      /\ UNCHANGED <<feeVars, now, stream, reserve, vault>>
  BY DEF SolDirectly, Fits
<1>3. wallet[u] - a \in U64
  BY <1>1, <1>2, UtilsAssumption DEF U64
<1>4. mid \in [Users -> U64] /\ mid[v] \in Nat
  BY <1>1, <1>3, UtilsAssumption DEF U64
<1>6. Total(mid) = Total(wallet) + (wallet[u] - a) - wallet[u]
  BY <1>1, <1>3, TotalExcept, FeeAssumption
<1> HIDE DEF mid
<1>7. Total(wallet') = Total(mid) + (mid[v] + a) - mid[v]
  BY <1>2, <1>4, TotalExcept, FeeAssumption
<1>8. Total(wallet') = Total(wallet)
  BY <1>1, <1>4, <1>6, <1>7, LamportsType
<1>9. wallet' \in [Users -> U64]
  BY <1>2, <1>4
<1>10. StreamsOK'
  BY <1>2, StreamsSame DEF IInv, feeVars
<1>11. IInv'
  BY <1>2, <1>9, <1>10 DEF IInv, FeeTypeOK, feeVars
<1> QED
  BY <1>2, <1>8, <1>11 DEF Lamports, feeVars

LEMMA OpenKeeps ==
  ASSUME IInv, NEW s \in Streams, NEW sd \in Senders, NEW r \in Receivers,
         NEW f, NEW t1 \in StreamTimes, NEW t2 \in StreamTimes,
         NEW a \in StreamAmounts, NEW cc \in CanCancel, NEW cu \in CanUpdate,
         NativeStream(s, sd, r, f, t1, t2, a, cc, cu)
  PROVE  IInv' /\ Touches(s, sd) /\ s \notin DOMAIN stream
<1>1. /\ t1 \in U64 /\ t2 \in U64 /\ a \in U64 /\ cc \in BOOLEAN /\ cu \in BOOLEAN
  BY StreamAssumption
<1>2. /\ StartStream(s, sd, f, sd, r, t1, t2, a, cc, cu)
      /\ UNCHANGED <<wallet, feeVars, now, vault>>
      /\ StreamsOK /\ FeeTypeOK /\ reserve \in [Senders -> U64]
      /\ UNCHANGED <<feeData, now>>
  BY DEF NativeStream, IInv, feeVars
<1>3. /\ Kept(s, sd, Senders) /\ s \notin DOMAIN stream
      /\ stream'[s].sender = sd
  <2>1. /\ Kept(s, sd, Senders) /\ s \notin DOMAIN stream
        /\ stream'[s].sender = sd
    BY <1>1, <1>2, StartKeeps
  <2> QED
    BY <2>1
<1> QED
  BY <1>2, <1>3 DEF Touches, Kept, IInv, FeeTypeOK, feeVars

LEMMA UpdateKeeps ==
  ASSUME IInv, NEW s \in Streams, NEW t1 \in StreamTimes, NEW t2 \in StreamTimes,
         NEW a \in StreamAmounts, UpdateNativeStream(s, t1, t2, a)
  PROVE  IInv' /\ \E sd \in Senders : Touches(s, sd) /\ stream[s].sender = sd
<1>1. t1 \in U64 /\ t2 \in U64 /\ a \in U64
  BY StreamAssumption
<1>2. /\ ReviseStream(s, stream[s].sender, t1, t2, a)
      /\ UNCHANGED <<wallet, feeVars, now, vault>>
      /\ StreamsOK /\ reserve \in [Senders -> U64]
      /\ UNCHANGED <<feeData, now>>
  BY DEF UpdateNativeStream, IInv, feeVars
<1>3. PICK sd \in Senders : sd = stream[s].sender
  BY <1>2 DEF ReviseStream, StreamsOK, StreamRecord
<1>4. s \in DOMAIN stream /\ stream[s] \in StreamRecord
  BY <1>2 DEF ReviseStream, StreamsOK
<1>5. /\ Kept(s, sd, Senders)
      /\ stream'[s] = Revised(stream[s], t1, t2, a)
  BY <1>1, <1>2, <1>3, ReviseKeeps
<1>6. stream'[s].sender = stream[s].sender
  BY <1>4, <1>5 DEF StreamRecord, Revised
<1> QED
  BY <1>2, <1>3, <1>5, <1>6 DEF Touches, Kept, IInv, FeeTypeOK, feeVars

LEMMA PauseKeeps ==
  ASSUME IInv, NEW s \in Streams, PauseStream(s)
  PROVE  IInv' /\ \E sd \in Senders : Touches(s, sd) /\ stream[s].sender = sd
<1>1. /\ ToggleStream(s, stream[s].sender)
      /\ UNCHANGED <<wallet, feeVars, now, vault>>
      /\ StreamsOK /\ reserve \in [Senders -> U64]
      /\ UNCHANGED <<feeData, now>>
  BY DEF PauseStream, IInv, feeVars
<1>2. PICK sd \in Senders : sd = stream[s].sender
  BY <1>1 DEF ToggleStream, TogglePasses, StreamsOK, StreamRecord
<1>3. /\ Kept(s, sd, Senders)
      /\ \/ stream'[s] = [stream[s] EXCEPT !.paused_amt = stream[s].paused_amt + Missed(stream[s]),
                                           !.paused = 0, !.paused_at = 0]
         \/ stream'[s] = [stream[s] EXCEPT !.paused = 1,
                                           !.withdraw_limit = AllowedAmt(stream[s], now),
                                           !.paused_at = now]
  BY <1>1, <1>2, ToggleKeeps
<1>4. s \in DOMAIN stream /\ stream[s] \in StreamRecord
  BY <1>1 DEF ToggleStream, TogglePasses, StreamsOK
<1>5. stream'[s].sender = stream[s].sender
  BY <1>3, <1>4 DEF StreamRecord
<1> QED
  BY <1>1, <1>2, <1>3, <1>5 DEF Touches, Kept, IInv, FeeTypeOK, feeVars

LEMMA WithdrawKeeps ==
  ASSUME IInv, NEW s \in Streams, WithdrawStream(s)
  PROVE  /\ IInv' /\ Lamports' = Lamports
         /\ \E sd \in Senders : Touches(s, sd) /\ Paid(sd, ClaimAmount(stream[s]))
<1>1. /\ ClaimStream(s, stream[s].sender)
      /\ PayFromVault(stream[s], ClaimAmount(stream[s]))
      /\ StreamsOK /\ reserve \in [Senders -> U64]
      /\ UNCHANGED <<feeData, feeVaults, now>>
  BY DEF WithdrawStream, IInv
<1>2. PICK sd \in Senders : sd = stream[s].sender
  BY <1>1 DEF ClaimStream, ClaimPasses, StreamsOK, StreamRecord
<1>3. /\ Kept(s, sd, Senders)
      /\ ClaimAmount(stream[s]) \in U64
      /\ reserve'[sd] <= reserve[sd] - ClaimAmount(stream[s])
      /\ s \in DOMAIN stream' =>
           stream'[s] = [stream[s] EXCEPT !.withdrawn = stream[s].withdrawn + ClaimAmount(stream[s])]
  BY <1>1, <1>2, ClaimKeeps
<1>5. s \in DOMAIN stream /\ stream[s] \in StreamRecord
  BY <1>1 DEF ClaimStream, ClaimPasses, StreamsOK
<1>6. s \in DOMAIN stream' => stream'[s].sender = stream[s].sender
  BY <1>3, <1>5 DEF StreamRecord
<1>4. /\ FeeTypeOK' /\ vault' \in [Senders -> U64] /\ Lamports' = Lamports
      /\ vault' = [vault EXCEPT ![stream[s].sender] = @ - ClaimAmount(stream[s])]
      /\ ClaimAmount(stream[s]) <= vault[stream[s].sender]
  BY <1>1, <1>3, <1>5, PaymentKeeps
<1> QED
  BY <1>1, <1>2, <1>3, <1>4, <1>6 DEF Touches, Kept, IInv, Paid

LEMMA CancelKeeps ==
  ASSUME IInv, NEW s \in Streams, CancelStream(s)
  PROVE  /\ IInv' /\ Lamports' = Lamports
         /\ \E sd \in Senders : Touches(s, sd) /\ Paid(sd, CancelAmount(stream[s]))
<1>1. /\ EndStream(s, stream[s].sender)
      /\ PayFromVault(stream[s], CancelAmount(stream[s]))
      /\ StreamsOK /\ reserve \in [Senders -> U64]
      /\ UNCHANGED <<feeData, feeVaults, now>>
  BY DEF CancelStream, IInv
<1>2. PICK sd \in Senders : sd = stream[s].sender
  BY <1>1 DEF EndStream, EndPasses, StreamsOK, StreamRecord
<1>3. /\ Kept(s, sd, Senders)
      /\ s \in DOMAIN stream /\ DOMAIN stream' = DOMAIN stream \ {s}
      /\ CancelAmount(stream[s]) \in U64
      /\ reserve'[sd] <= reserve[sd] - CancelAmount(stream[s])
  BY <1>1, <1>2, EndKeeps
<1>4. /\ FeeTypeOK' /\ vault' \in [Senders -> U64] /\ Lamports' = Lamports
      /\ vault' = [vault EXCEPT ![stream[s].sender] = @ - CancelAmount(stream[s])]
      /\ CancelAmount(stream[s]) <= vault[stream[s].sender]
  BY <1>1, <1>3, PaymentKeeps
<1> QED
  BY <1>1, <1>2, <1>3, <1>4 DEF Touches, Kept, IInv, Paid

(* Every step keeps the invariant and the lamports, and changes at most    *)
(* one stream, and the reserve of its sender with it.                      *)
LEMMA StepKeeps ==
  ASSUME IInv, Next
  PROVE  /\ IInv' /\ Lamports' = Lamports
         /\ \/ UNCHANGED <<stream, reserve>>
            \/ \E s \in Streams, sd \in Senders : Touches(s, sd)
<1> USE StreamAssumption
<1>1. CASE Tick
  <2>1. UNCHANGED <<wallet, feeVars, stream, reserve, vault>> /\ ClockMoves
    BY <1>1 DEF Tick
  <2>2. StreamsOK'
    BY <2>1, StreamsTick DEF IInv, feeVars
  <2>3. IInv' /\ Lamports' = Lamports
    BY <2>1, <2>2 DEF IInv, FeeTypeOK, Lamports, feeVars
  <2> QED
    BY <2>1, <2>3
<1>2. CASE FeeNext /\ UNCHANGED <<now, stream, reserve, vault>>
  <2>1. /\ FeeTypeOK' /\ DOMAIN feeData \subseteq DOMAIN feeData'
        /\ Total(wallet') + Total(feeVault') = Total(wallet) + Total(feeVault)
    BY <1>2, FeeKeeps DEF IInv
  <2>2. StreamsOK'
    BY <1>2, <2>1, StreamsSame DEF IInv
  <2>3. IInv'
    BY <1>2, <2>1, <2>2 DEF IInv
  <2>4. /\ Total(wallet') \in Nat /\ Total(feeVault') \in Nat
    <3>1. DOMAIN wallet' = Users /\ DOMAIN feeVault' = FeeOwners
      BY <2>1 DEF FeeTypeOK
    <3> QED
      BY <3>1, TotalType, FeeOwnersFinite, FeeAssumption
  <2>5. Total(vault') = Total(vault)
    BY <1>2
  <2>6. Lamports' = Lamports
    BY <2>1, <2>4, <2>5, LamportsType DEF Lamports
  <2> QED
    BY <1>2, <2>3, <2>6
<1>3. ASSUME NEW sd \in Senders, NEW a \in DepositAmounts, DepositSol(sd, a)
      PROVE  IInv' /\ Lamports' = Lamports /\ UNCHANGED <<stream, reserve>>
  BY <1>3, DepositKeeps DEF DepositSol
<1>4. ASSUME NEW sd \in Senders, NEW a \in TransferAmounts,
             \/ NativeWithdrawal(sd, a)
             \/ \E r \in Receivers : NativeTransfer(sd, r, a) \/ SolDirectly(sd, r, a)
      PROVE  IInv' /\ Lamports' = Lamports /\ UNCHANGED <<stream, reserve>>
  <2>1. ASSUME NEW u \in Users, TakeFromVault(sd, u, a)
        PROVE  IInv' /\ Lamports' = Lamports /\ UNCHANGED <<stream, reserve>>
    BY <2>1, TakeKeeps DEF TakeFromVault
  <2>2. ASSUME NEW u \in Users, SolDirectly(sd, u, a)
        PROVE  IInv' /\ Lamports' = Lamports /\ UNCHANGED <<stream, reserve>>
    BY <2>2, DirectKeeps DEF SolDirectly
  <2> QED
    BY <1>4, <2>1, <2>2 DEF NativeWithdrawal, NativeTransfer
<1>5. ASSUME NEW sd \in Senders, NEW s \in Streams, NEW r \in Receivers, NEW f \in FeeOwners,
             NEW t1 \in StreamTimes, NEW t2 \in StreamTimes, NEW a \in StreamAmounts,
             NEW cc \in CanCancel, NEW cu \in CanUpdate,
             NativeStream(s, sd, r, f, t1, t2, a, cc, cu)
      PROVE  IInv' /\ Lamports' = Lamports /\ Touches(s, sd)
  BY <1>5, OpenKeeps DEF NativeStream, Lamports, feeVars
<1>6. ASSUME NEW s \in Streams, NEW t1 \in StreamTimes, NEW t2 \in StreamTimes,
             NEW a \in StreamAmounts, UpdateNativeStream(s, t1, t2, a)
      PROVE  IInv' /\ Lamports' = Lamports /\ \E sd \in Senders : Touches(s, sd)
  BY <1>6, UpdateKeeps DEF UpdateNativeStream, Lamports, feeVars
<1>7. ASSUME NEW s \in Streams, PauseStream(s)
      PROVE  IInv' /\ Lamports' = Lamports /\ \E sd \in Senders : Touches(s, sd)
  BY <1>7, PauseKeeps DEF PauseStream, Lamports, feeVars
<1>8. ASSUME NEW s \in Streams, WithdrawStream(s) \/ CancelStream(s)
      PROVE  IInv' /\ Lamports' = Lamports /\ \E sd \in Senders : Touches(s, sd)
  BY <1>8, WithdrawKeeps, CancelKeeps
<1> QED
  BY <1>1, <1>2, <1>3, <1>4, <1>5, <1>6, <1>7, <1>8 DEF Next

LEMMA StutterKeeps ==
  ASSUME IInv, UNCHANGED vars
  PROVE  IInv' /\ Lamports' = Lamports
<1>1. StreamsOK'
  BY StreamsSame DEF vars, feeVars, IInv
<1> QED
  BY <1>1 DEF vars, feeVars, IInv, FeeTypeOK, Lamports

LEMMA IInvStep == IInv /\ [Next]_vars => IInv'
  BY StepKeeps, StutterKeeps

LEMMA IInvAlways == Spec => []IInv
  BY IInvInit, IInvStep, PTL DEF Spec

-----------------------------------------------------------------------------
(* Invariants                                                              *)

(* Every variable keeps its type, for every sequence of instructions.      *)
THEOREM TypeCorrect == Spec => []TypeOK
  BY IInvAlways, TypesFromIInv, PTL

(* The checked subtractions of claims and cancellations never fail, for    *)
(* every interleaving of claims, pauses, resumptions and updates: the      *)
(* limit always covers what was paid and written off.                      *)
THEOREM SettlementSafe == Spec => []SettlementFits
<1>1. IInv => SettlementFits
  BY SettlementOK DEF IInv
<1> QED
  BY <1>1, IInvAlways, PTL

(* The reserve of a sender follows what the sender's streams are owed.     *)
LEMMA ExactStep ==
  ASSUME IInv, IInv', ReserveExact, NEW s \in Streams, NEW d \in Senders, Touches(s, d)
  PROVE  ReserveExact'
<1> SUFFICES ASSUME NEW sd \in Senders PROVE reserve'[sd] = OwedTo(StreamsOf(sd))'
  BY DEF ReserveExact
<1> DEFINE before == StreamsOf(sd)
           after == {x \in DOMAIN stream' : stream'[x].sender = sd}
           gone == IF s \in DOMAIN stream THEN Owed(stream[s]) ELSE 0
           come == IF s \in DOMAIN stream' THEN Owed(stream'[s]) ELSE 0
<1>1. /\ StreamsOK /\ StreamsOK' /\ OnlyStream(s)
      /\ reserve' = [reserve EXCEPT ![d] = reserve[d] + come - gone]
      /\ reserve \in [Senders -> U64]
  BY DEF Touches, Kept, ReserveFollows, IInv
<1>2. /\ s \in DOMAIN stream => (s \in before <=> sd = d)
      /\ s \in DOMAIN stream' => (s \in after <=> sd = d)
  BY DEF Touches, StreamsOf
<1>3. before \subseteq DOMAIN stream /\ after \subseteq DOMAIN stream'
  BY DEF StreamsOf
<1>4. after \ {s} = before \ {s}
  BY <1>1 DEF StreamsOf, OnlyStream
<1>5. OwedTo(StreamsOf(sd))' = Total([x \in after |-> Owed(stream'[x])])
  BY DEF OwedTo, StreamsOf
<1>6. reserve[sd] = Total([x \in before |-> Owed(stream[x])])
  BY DEF ReserveExact, OwedTo
<1> HIDE DEF before, after
<1>7. /\ Total([x \in after |-> Owed(stream'[x])])
           = Total([x \in before |-> Owed(stream[x])])
               + (IF s \in after THEN Owed(stream'[s]) ELSE 0)
               - (IF s \in before THEN Owed(stream[s]) ELSE 0)
      /\ Total([x \in before |-> Owed(stream[x])]) \in Nat
  BY <1>1, <1>3, <1>4, OwedStep
<1>8. CASE sd = d
  BY <1>1, <1>2, <1>3, <1>5, <1>6, <1>7, <1>8
<1>9. CASE sd # d
  <2>1. s \notin before /\ s \notin after
    BY <1>2, <1>3, <1>9
  <2>2. reserve'[sd] = reserve[sd]
    BY <1>1, <1>9
  <2> QED
    BY <1>5, <1>6, <1>7, <2>1, <2>2
<1> QED
  BY <1>8, <1>9

(* At all times the withdraw_data account of a sender is exactly the sum   *)
(* of what the sender's live streams are owed, although every handler      *)
(* adjusts it by arithmetic of its own.                                    *)
THEOREM ReserveSafe == Spec => []ReserveExact
<1>1. IInv /\ IInv' /\ ReserveExact /\ [Next]_vars => ReserveExact'
  <2> SUFFICES ASSUME IInv, IInv', ReserveExact, [Next]_vars PROVE ReserveExact'
    OBVIOUS
  <2>1. CASE UNCHANGED <<stream, reserve>>
    BY <2>1 DEF ReserveExact, OwedTo, StreamsOf
  <2> QED
    BY <2>1, StepKeeps, ExactStep DEF vars
<1> QED
  BY <1>1, IInvInit, IInvAlways, PTL DEF Spec

(* No payment, transfer or withdrawal of fees creates or loses lamports.   *)
THEOREM LamportsSafe == Spec => []LamportsConserved
<1>1. IInv /\ LamportsConserved /\ [Next]_vars => LamportsConserved'
  BY StepKeeps, StutterKeeps DEF Lamports, LamportsConserved
<1> QED
  BY <1>1, IInvInit, IInvAlways, PTL DEF Spec

-----------------------------------------------------------------------------
(* What the steps may not do                                               *)

(* Which steps close a stream, and which change the terms of one.          *)
LEMMA StepOnStream ==
  ASSUME IInv, Next, NEW s \in DOMAIN stream
  PROVE  \/ s \in DOMAIN stream' /\ stream'[s] = stream[s]
         \/ \E t1 \in StreamTimes, t2 \in StreamTimes, a \in StreamAmounts :
              UpdateNativeStream(s, t1, t2, a)
         \/ WithdrawStream(s) \/ PauseStream(s) \/ CancelStream(s)
<1> DEFINE Kept1 == s \in DOMAIN stream' /\ stream'[s] = stream[s]
<1>1. ASSUME NEW x, x # s, OnlyStream(x)
      PROVE  Kept1
  BY <1>1 DEF OnlyStream
<1>2. ASSUME NEW x \in Streams, NEW sd \in Senders, NEW r \in Receivers,
             NEW f \in FeeOwners, NEW t1 \in StreamTimes, NEW t2 \in StreamTimes,
             NEW a \in StreamAmounts, NEW cc \in CanCancel, NEW cu \in CanUpdate,
             NativeStream(x, sd, r, f, t1, t2, a, cc, cu)
      PROVE  Kept1
  <2>1. x \notin DOMAIN stream /\ OnlyStream(x)
    BY <1>2, OpenKeeps DEF Touches, Kept
  <2> QED
    BY <1>1, <2>1
<1>3. ASSUME NEW x \in Streams, NEW t1 \in StreamTimes, NEW t2 \in StreamTimes,
             NEW a \in StreamAmounts, UpdateNativeStream(x, t1, t2, a)
      PROVE  OnlyStream(x)
  BY <1>3, UpdateKeeps DEF Touches, Kept
<1>4. ASSUME NEW x \in Streams, WithdrawStream(x) \/ PauseStream(x) \/ CancelStream(x)
      PROVE  OnlyStream(x)
  BY <1>4, WithdrawKeeps, PauseKeeps, CancelKeeps DEF Touches, Kept
<1>5. CASE UNCHANGED stream
  BY <1>5
<1> QED
  BY <1>1, <1>2, <1>3, <1>4, <1>5 DEF Next, Tick, DepositSol,
     NativeWithdrawal, NativeTransfer, TakeFromVault, SolDirectly

(* A claim that closes a stream before its end closes an empty one.        *)
LEMMA ClaimCloses ==
  ASSUME IInv, NEW s \in Streams, WithdrawStream(s), s \notin DOMAIN stream'
  PROVE  stream[s].amount = 0 \/ now >= stream[s].end_time
<1> DEFINE st == stream[s]
           limit == Limit(st, Vested(st, now))
<1>1. /\ ClaimStream(s, st.sender) /\ UNCHANGED <<feeData, now>>
      /\ StreamsOK /\ reserve \in [Senders -> U64]
  BY DEF WithdrawStream, IInv
<1>2. PICK sd \in Senders : sd = st.sender
  BY <1>1 DEF ClaimStream, ClaimPasses, StreamsOK, StreamRecord
<1>3. /\ Kept(s, sd, Senders) /\ s \in DOMAIN stream /\ now > st.start_time
      /\ Settled(st) \/ limit = st.amount \/ DOMAIN stream' = DOMAIN stream
  BY <1>1, <1>2, ClaimKeeps
<1>4. /\ st \in StreamRecord /\ st.start_time < st.end_time /\ StreamInv(st, now)
      /\ now \in U64
  BY <1>1, <1>3 DEF StreamsOK
<1>5. /\ now \in Nat /\ st.start_time \in Nat /\ st.end_time \in Nat /\ st.amount \in Nat
  BY <1>4, UtilsAssumption DEF U64, StreamRecord
<1>6. now < st.end_time /\ st.amount > 0 => limit < st.amount
  BY <1>3, <1>4, <1>5, LimitBound
<1>7. limit = st.amount => st.amount = 0 \/ now >= st.end_time
  <2> HIDE DEF limit
  <2> QED
    BY <1>5, <1>6
<1>8. Settled(st) => now >= st.end_time
  BY <1>5 DEF Settled
<1>9. Settled(st) \/ limit = st.amount
  BY <1>3
<1> QED
  BY <1>7, <1>8, <1>9

(* A stream that can not be cancelled is not closed before its end, by any *)
(* step of any user.                                                       *)
THEOREM NonCancellableSafe == Spec => NonCancellableRunsItsTerm
<1> DEFINE Ok == \A s \in DOMAIN stream \ DOMAIN stream' :
                   \/ stream[s].can_cancel
                   \/ stream[s].amount = 0
                   \/ now >= stream[s].end_time
<1>1. IInv /\ [Next]_vars => [Ok]_vars
  <2> SUFFICES ASSUME IInv, Next, NEW s \in DOMAIN stream \ DOMAIN stream'
               PROVE  \/ stream[s].can_cancel
                      \/ stream[s].amount = 0
                      \/ now >= stream[s].end_time
    OBVIOUS
  <2>1. s \in Streams
    BY DEF IInv, StreamsOK
  <2>2. CASE WithdrawStream(s)
    BY <2>1, <2>2, ClaimCloses
  <2>3. CASE CancelStream(s)
    BY <2>3 DEF CancelStream, EndStream, EndPasses, CancelAmount, Cancellable
  <2>4. CASE PauseStream(s) \/ \E t1, t2, a : UpdateNativeStream(s, t1, t2, a)
    BY <2>4 DEF PauseStream, ToggleStream, TogglePasses, UpdateNativeStream, ReviseStream
  <2> QED
    BY <2>2, <2>3, <2>4, StepOnStream
<1> QED
  BY <1>1, IInvAlways, PTL DEF Spec, NonCancellableRunsItsTerm

(* Once a stream paid or wrote off something, no update gets through.      *)
THEOREM TermsFixed == Spec => TermsFixedOnceUsed
<1> DEFINE Same(s) == /\ stream'[s].start_time = stream[s].start_time
                      /\ stream'[s].end_time = stream[s].end_time
                      /\ stream'[s].amount = stream[s].amount
           Ok == \A s \in DOMAIN stream \cap DOMAIN stream' :
                   stream[s].withdrawn + stream[s].paused_amt > 0 => Same(s)
<1>1. IInv /\ [Next]_vars => [Ok]_vars
  <2> SUFFICES ASSUME IInv, Next, NEW s \in DOMAIN stream, s \in DOMAIN stream',
                      stream[s].withdrawn + stream[s].paused_amt > 0
               PROVE  Same(s)
    BY DEF Same
  <2>1. stream[s] \in StreamRecord /\ StreamInv(stream[s], now)
    BY DEF IInv, StreamsOK
  <2>2. ASSUME NEW t1, NEW t2, NEW a, UpdateNativeStream(s, t1, t2, a)
        PROVE  FALSE
    BY <2>1, <2>2 DEF UpdateNativeStream, ReviseStream, Updatable, StreamInv, Untouched
  <2>3. CASE WithdrawStream(s)
    <3>1. stream'[s] = [stream[s] EXCEPT !.withdrawn = stream[s].withdrawn + ClaimAmount(stream[s])]
      BY <2>3 DEF WithdrawStream, ClaimStream, ClaimPasses, CloseAccount
    <3> QED
      BY <2>1, <3>1 DEF StreamRecord
  <2>4. CASE PauseStream(s)
    BY <2>1, <2>4 DEF PauseStream, ToggleStream, TogglePasses, StreamRecord
  <2>5. CASE CancelStream(s)
    BY <2>5 DEF CancelStream, EndStream, EndPasses, CloseAccount
  <2> QED
    BY <2>2, <2>3, <2>4, <2>5, StepOnStream
<1> QED
  BY <1>1, IInvAlways, PTL DEF Spec, TermsFixedOnceUsed

-----------------------------------------------------------------------------
(* The vault and the reserve                                               *)

LEMMA PaidCovered ==
  ASSUME IInv, IInv', NEW s \in Streams, NEW d \in Senders, NEW a, Touches(s, d),
         Paid(d, a), NEW sd \in Senders, vault[sd] >= reserve[sd]
  PROVE  vault'[sd] >= reserve'[sd]
<1>1. /\ vault \in [Senders -> U64] /\ reserve \in [Senders -> U64]
      /\ reserve' \in [Senders -> U64]
  BY DEF IInv
<1>2. /\ vault[d] \in Nat /\ reserve[d] \in Nat /\ reserve'[d] \in Nat /\ a \in Nat
      /\ vault' = [vault EXCEPT ![d] = vault[d] - a]
      /\ reserve'[d] <= reserve[d] - a
  BY <1>1, UtilsAssumption DEF Paid, U64
<1>3. sd # d => vault'[sd] = vault[sd] /\ reserve'[sd] = reserve[sd]
  BY <1>1, <1>2 DEF Touches, Kept, ReserveFollows
<1> QED
  BY <1>1, <1>2, <1>3

(* What leaves the vault otherwise leaves the reserve in it.               *)
LEMMA TakeCovered ==
  ASSUME IInv, NEW d \in Senders, NEW u, NEW amount \in U64,
         TakeFromVault(d, u, amount), NEW sd \in Senders, vault[sd] >= reserve[sd]
  PROVE  vault'[sd] >= reserve'[sd]
<1>1. /\ vault \in [Senders -> U64] /\ reserve' = reserve
      /\ vault[d] \in Nat /\ reserve[sd] \in Nat /\ amount \in Nat
  BY UtilsAssumption DEF IInv, TakeFromVault, U64
<1> QED
  BY <1>1 DEF TakeFromVault, Covered

(* No step of any user takes from a vault what is owed to the streams.     *)
THEOREM FundedSafe == Spec => FundedStaysFunded
<1> DEFINE Ok == \A sd \in Senders :
                   vault[sd] >= reserve[sd] /\ reserve'[sd] <= reserve[sd]
                     => vault'[sd] >= reserve'[sd]
<1>1. IInv /\ [Next]_vars => [Ok]_vars
  <2> SUFFICES ASSUME IInv, Next, NEW sd \in Senders,
                      vault[sd] >= reserve[sd], reserve'[sd] <= reserve[sd]
               PROVE  vault'[sd] >= reserve'[sd]
    OBVIOUS
  <2>1. IInv'
    BY StepKeeps
  <2>2. /\ vault[sd] \in Nat /\ reserve[sd] \in Nat
        /\ vault'[sd] \in Nat /\ reserve'[sd] \in Nat
    BY <2>1, UtilsAssumption DEF IInv, U64
  <2>3. CASE vault' = vault
    BY <2>2, <2>3
  <2>4. ASSUME NEW d \in Senders, NEW a \in DepositAmounts, DepositSol(d, a)
        PROVE  vault'[sd] >= reserve'[sd]
    <3>1. vault \in [Senders -> U64] /\ vault' = [vault EXCEPT ![d] = vault'[d]]
          /\ vault'[d] >= vault[d]
      BY <2>4, DepositKeeps DEF IInv
    <3>2. vault'[sd] >= vault[sd]
      BY <2>2, <3>1
    <3> QED
      BY <2>2, <3>2
  <2>5. ASSUME NEW d \in Senders, NEW a \in TransferAmounts,
               NativeWithdrawal(d, a) \/ \E r \in Receivers : NativeTransfer(d, r, a)
        PROVE  vault'[sd] >= reserve'[sd]
    BY <2>5, TakeCovered, StreamAssumption DEF NativeWithdrawal, NativeTransfer
  <2>6. ASSUME NEW s \in Streams, WithdrawStream(s) \/ CancelStream(s)
        PROVE  vault'[sd] >= reserve'[sd]
    BY <2>1, <2>6, WithdrawKeeps, CancelKeeps, PaidCovered
  <2>7. ASSUME NEW d, NEW r, NEW a, SolDirectly(d, r, a)
        PROVE  vault' = vault
    BY <2>7 DEF SolDirectly
  <2>8. ASSUME NEW x, NEW d, NEW r, NEW f, NEW t1, NEW t2, NEW a, NEW cc, NEW cu,
               NativeStream(x, d, r, f, t1, t2, a, cc, cu)
        PROVE  vault' = vault
    BY <2>8 DEF NativeStream
  <2>9. ASSUME NEW x, NEW t1, NEW t2, NEW a,
               UpdateNativeStream(x, t1, t2, a) \/ PauseStream(x)
        PROVE  vault' = vault
    BY <2>9 DEF UpdateNativeStream, PauseStream
  <2>10. CASE Tick \/ (FeeNext /\ UNCHANGED <<now, stream, reserve, vault>>)
    BY <2>3, <2>10 DEF Tick
  <2> QED
    BY <2>3, <2>4, <2>5, <2>6, <2>7, <2>8, <2>9, <2>10 DEF Next
<1> QED
  BY <1>1, IInvAlways, PTL DEF Spec, FundedStaysFunded

-----------------------------------------------------------------------------
(* Payments that can be made                                               *)

(* A fee vault that was not dropped keeps its rent: only its owner takes   *)
(* lamports out, and then all of them.                                     *)
FeeVaultsKept == \A f \in feeVaults : feeVault[f] >= RentExemptMin

LEMMA FeeVaultsStep ==
  ASSUME IInv, FeeVaultsKept, [Next]_vars
  PROVE  FeeVaultsKept'
<1>1. /\ feeVault \in [FeeOwners -> U64] /\ feeVaults \subseteq FeeOwners
      /\ \A f \in FeeOwners : feeVault[f] \in Nat
      /\ RentExemptMin \in Nat
  BY UtilsAssumption DEF IInv, FeeTypeOK, U64
<1>2. CASE UNCHANGED <<feeVault, feeVaults>>
  BY <1>2 DEF FeeVaultsKept
<1>3. ASSUME NEW g \in FeeOwners, NEW p, CreateFeeAccount(g, p) PROVE FeeVaultsKept'
  BY <1>1, <1>3 DEF CreateFeeAccount, FeeVaultsKept
<1>4. ASSUME NEW g \in FeeOwners, WithdrawFeesSol(g) PROVE FeeVaultsKept'
  BY <1>1, <1>4 DEF WithdrawFeesSol, FeeVaultsKept
<1>5. ASSUME NEW g \in FeeOwners, NEW p, UpdateFees(g, p) PROVE FeeVaultsKept'
  BY <1>2, <1>5 DEF UpdateFees
<1>6. ASSUME NEW s \in DOMAIN stream, NEW amount \in U64, PayFromVault(stream[s], amount),
             UNCHANGED feeVaults
      PROVE  FeeVaultsKept'
  <2> DEFINE g == stream[s].fee_owner
             comission == CalculateComission(stream[s].fee_percentage, amount)
  <2>1. comission \in Nat
    BY ComissionType, UtilsAssumption DEF IInv, StreamsOK, StreamRecord, U64
  <2>2. feeVault' = [feeVault EXCEPT ![g] = feeVault[g] + comission]
    BY <1>6 DEF PayFromVault
  <2> HIDE DEF comission
  <2>3. \A f \in FeeOwners : feeVault'[f] >= feeVault[f]
    BY <1>1, <2>1, <2>2
  <2>4. \A f \in FeeOwners : feeVault'[f] \in Nat
    BY <1>1, <2>1, <2>2
  <2> QED
    BY <1>1, <1>6, <2>3, <2>4 DEF FeeVaultsKept
<1>7. ASSUME NEW s \in Streams, WithdrawStream(s) PROVE FeeVaultsKept'
  <2>1. s \in DOMAIN stream /\ ClaimAmount(stream[s]) \in U64
    BY <1>7, ClaimPays DEF WithdrawStream, ClaimStream, ClaimPasses, IInv
  <2> QED
    BY <1>6, <1>7, <2>1 DEF WithdrawStream
<1>8. ASSUME NEW s \in Streams, CancelStream(s) PROVE FeeVaultsKept'
  <2>1. s \in DOMAIN stream /\ CancelAmount(stream[s]) \in U64
    BY <1>8, CancelPays DEF CancelStream, EndStream, EndPasses, Cancellable, IInv
  <2> QED
    BY <1>6, <1>8, <2>1 DEF CancelStream
<1>9. CASE FeeNext
  BY <1>3, <1>4, <1>5, <1>9 DEF FeeNext
<1>10. ASSUME Next, ~ FeeNext, ~ \E s \in Streams : WithdrawStream(s) \/ CancelStream(s)
       PROVE  UNCHANGED <<feeVault, feeVaults>>
  BY <1>10 DEF Next, Tick, DepositSol, NativeWithdrawal, NativeTransfer, TakeFromVault,
               SolDirectly, NativeStream, UpdateNativeStream, PauseStream, feeVars
<1> QED
  BY <1>2, <1>7, <1>8, <1>9, <1>10 DEF vars, feeVars

(* What is owed to a stream can be paid from a funded vault: the receiver  *)
(* and the fee vault have room, since all lamports together are a u64, and *)
(* every account is left with its rent.                                    *)
LEMMA PaymentGoes ==
  ASSUME IInv, FeeVaultsKept, LamportsConserved,
         NEW s \in DOMAIN stream, Funded(stream[s]),
         Owed(stream[s]) <= reserve[stream[s].sender],
         NEW amount \in U64, amount <= Owed(stream[s])
  PROVE  PaymentPasses(stream[s], amount)
<1> DEFINE st == stream[s]
           comission == CalculateComission(st.fee_percentage, amount)
<1>1. /\ st.sender \in Senders /\ st.receiver \in Users /\ st.fee_owner \in FeeOwners
      /\ st.fee_percentage \in 0 .. FeeScale /\ amount \in Nat /\ st.amount \in Nat
      /\ wallet \in [Users -> U64] /\ feeVault \in [FeeOwners -> U64]
      /\ vault \in [Senders -> U64] /\ reserve \in [Senders -> U64]
  BY UtilsAssumption, StreamAssumption DEF IInv, StreamsOK, FeeTypeOK, StreamRecord, U64
<1>2. Owed(st) \in 0 .. st.amount
  BY OwedType DEF IInv, StreamsOK
<1>3. comission \in 0 .. amount /\ ComissionFits(st.fee_percentage, amount)
  <2>1. amount \in 0 .. st.amount
    BY <1>1, <1>2
  <2> QED
    BY <1>1, <2>1, ComissionBound DEF Funded
<1>4. /\ wallet[st.receiver] \in Nat /\ wallet[st.receiver] <= Total(wallet)
      /\ feeVault[st.fee_owner] \in Nat /\ feeVault[st.fee_owner] <= Total(feeVault)
      /\ vault[st.sender] \in Nat /\ vault[st.sender] <= Total(vault)
      /\ reserve[st.sender] \in Nat
  <2>1. wallet[st.receiver] <= Total(wallet)
    BY <1>1, TotalBound, FeeAssumption
  <2>2. feeVault[st.fee_owner] <= Total(feeVault)
    BY <1>1, TotalBound, FeeOwnersFinite
  <2>3. vault[st.sender] <= Total(vault)
    BY <1>1, TotalBound, FeeOwnersFinite
  <2> QED
    BY <1>1, <2>1, <2>2, <2>3, UtilsAssumption DEF U64
<1>5. /\ Total(wallet) \in Nat /\ Total(vault) \in Nat /\ Total(feeVault) \in Nat
      /\ Total(wallet) + Total(vault) + Total(feeVault) <= MaxU64
      /\ MaxU64 \in Nat /\ RentExemptMin \in Nat
  BY LamportsType, SupplyAssumption, UtilsAssumption DEF LamportsConserved
<1>6. /\ vault[st.sender] >= reserve[st.sender] + RentExemptMin
      /\ feeVault[st.fee_owner] >= RentExemptMin
  BY DEF Funded, FeeVaultsKept
<1> HIDE DEF comission
<1>7. /\ amount <= vault[st.sender] /\ vault[st.sender] - amount >= RentExemptMin
      /\ feeVault[st.fee_owner] + comission >= RentExemptMin
  BY <1>1, <1>2, <1>3, <1>4, <1>5, <1>6
<1>8. /\ amount - comission \in U64
      /\ wallet[st.receiver] + (amount - comission) \in U64
      /\ feeVault[st.fee_owner] + comission \in U64
  BY <1>1, <1>3, <1>4, <1>5, <1>7 DEF U64
<1> QED
  BY <1>3, <1>7, <1>8 DEF PaymentPasses, ReceiverAmount, RentExempt, Fits, comission

(* No check of withdraw_stream or cancel_stream stands in the way of a     *)
(* stream whose sender kept the vault funded, whatever the other streams   *)
(* on the vault, other senders and fee owners did in between.              *)
THEOREM PaysSafe == Spec => []FundedPays
<1>1. Init => FeeVaultsKept
  BY DEF Init, FeeInit, FeeVaultsKept
<1>2. IInv /\ FeeVaultsKept /\ [Next]_vars => FeeVaultsKept'
  BY FeeVaultsStep
<1>3. IInv /\ FeeVaultsKept /\ ReserveExact /\ LamportsConserved => FundedPays
  <2> SUFFICES ASSUME IInv, FeeVaultsKept, ReserveExact, LamportsConserved,
                      NEW s \in DOMAIN stream, Funded(stream[s])
               PROVE  /\ now > stream[s].start_time => WithdrawPasses(s)
                      /\ Cancellable(stream[s]) =>
                           (Fits(stream[s].amount
                                   + OwedTo(StreamsOf(stream[s].sender) \ {s}))
                              => CancelPasses(s))
    BY DEF FundedPays
  <2>1. stream[s].sender \in Senders /\ StreamsOK
    BY DEF IInv, StreamsOK, StreamRecord
  <2>2. PICK sd \in Senders : sd = stream[s].sender
    BY <2>1
  <2>3. reserve[sd] \in U64 /\ reserve[sd] = OwedTo(StreamsOf(sd))
    BY DEF IInv, ReserveExact
  <2>4. /\ reserve[sd] = OwedTo(StreamsOf(sd) \ {s}) + Owed(stream[s])
        /\ OwedTo(StreamsOf(sd) \ {s}) \in Nat
        /\ Owed(stream[s]) <= reserve[sd]
    <3>1. StreamsOf(sd) \subseteq DOMAIN stream /\ s \in StreamsOf(sd)
      BY <2>2 DEF StreamsOf
    <3>2. /\ OwedTo(StreamsOf(sd)) = OwedTo(StreamsOf(sd) \ {s}) + Owed(stream[s])
          /\ OwedTo(StreamsOf(sd) \ {s}) \in Nat /\ Owed(stream[s]) \in Nat
      BY <2>1, <3>1, OwedCounted
    <3> QED
      BY <2>3, <3>2
  <2>5. ASSUME now > stream[s].start_time PROVE WithdrawPasses(s)
    BY <2>1, <2>2, <2>3, <2>4, <2>5, ClaimGoes, PaymentGoes DEF WithdrawPasses
  <2>6. ASSUME Cancellable(stream[s]),
               Fits(stream[s].amount + OwedTo(StreamsOf(sd) \ {s}))
        PROVE  CancelPasses(s)
    BY <2>1, <2>2, <2>3, <2>4, <2>6, EndGoes, PaymentGoes DEF CancelPasses
  <2> QED
    BY <2>2, <2>5, <2>6
<1> QED
  BY <1>1, <1>2, <1>3, IInvInit, IInvAlways, ReserveSafe, LamportsSafe, PTL DEF Spec

(* The claim that follows the end of a stream is its last, also when the   *)
(* stream was left paused: it closes the stream and with it gives back the *)
(* part of the reserve that nobody can earn any more.                      *)
THEOREM LastClaimCloses ==
  Spec => [][\A s \in DOMAIN stream :
               now > stream[s].end_time /\ WithdrawStream(s) => s \notin DOMAIN stream']_vars
<1> DEFINE Closes == \A s \in DOMAIN stream :
                       now > stream[s].end_time /\ WithdrawStream(s) => s \notin DOMAIN stream'
<1>1. IInv => [Closes]_vars
  <2> SUFFICES ASSUME IInv, NEW s \in DOMAIN stream, now > stream[s].end_time,
                      WithdrawStream(s)
               PROVE  s \notin DOMAIN stream'
    OBVIOUS
  <2> DEFINE st == stream[s]
  <2>1. /\ s \in Streams /\ st \in StreamRecord /\ StreamsOK
        /\ reserve \in [Senders -> U64]
    BY DEF IInv, StreamsOK
  <2>2. /\ now \in Nat /\ st.end_time \in Nat /\ st.amount \in Nat
    BY <2>1, UtilsAssumption DEF StreamsOK, StreamRecord, U64
  <2>3. PICK sd \in Senders : sd = st.sender
    BY <2>1 DEF StreamRecord
  <2>4. /\ ClaimStream(s, sd) /\ UNCHANGED <<feeData, now>>
    BY <2>3 DEF WithdrawStream
  <2>5. \/ DOMAIN stream' = DOMAIN stream \ {s}
        \/ ~ Settled(st) /\ Limit(st, Vested(st, now)) < st.amount
    BY <2>1, <2>4, ClaimKeeps
  <2>6. Settled(st) \/ Limit(st, Vested(st, now)) = st.amount
    BY <2>2 DEF Settled, Limit, Vested
  <2> QED
    BY <2>2, <2>5, <2>6
<1> QED
  BY <1>1, IInvAlways, PTL DEF Spec
=============================================================================
