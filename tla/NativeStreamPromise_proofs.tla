--------------------- MODULE NativeStreamPromise_proofs ---------------------
(***************************************************************************)
(* Proof that the SOL streams implement the promise of module              *)
(* StreamPromise: each step of the program, seen through the refinement    *)
(* mapping, is a step of the promise or changes nothing.                   *)
(***************************************************************************)
EXTENDS NativeStreamPromise, NativeStream_proofs

Pledges == [s \in DOMAIN stream |-> Abstract(stream[s], stream[s].sender)]

LEMMA PledgesAre ==
  /\ Pledges = [s \in DOMAIN stream |-> Promised(stream[s], now, stream[s].sender)]
  /\ Pledges' = [s \in DOMAIN stream' |-> Promised(stream'[s], now', stream'[s].sender)]
<1>1. \A s \in DOMAIN stream : Pledges[s] = Promised(stream[s], now, stream[s].sender)
  BY AbstractNow DEF Pledges
<1>2. \A s \in DOMAIN stream' : Pledges'[s] = Promised(stream'[s], now', stream'[s].sender)
  BY DEF Pledges, Abstract, Promised, EarnedAt, ReleasedAt, Limit, Vested
<1> QED
  BY <1>1, <1>2 DEF Pledges

(* A step of the handlers that changes one stream changes its promise only.*)
LEMMA OthersKept ==
  ASSUME NEW s, OnlyStream(s), UNCHANGED now
  PROVE  /\ \A x \in DOMAIN Pledges \ {s} : x \in DOMAIN Pledges' /\ Pledges'[x] = Pledges[x]
         /\ DOMAIN Pledges' \ {s} = DOMAIN Pledges \ {s}
         /\ DOMAIN Pledges = DOMAIN stream /\ DOMAIN Pledges' = DOMAIN stream'
         /\ Pledges = [x \in DOMAIN Pledges |-> Pledges[x]]
         /\ Pledges' = [x \in DOMAIN Pledges' |-> Pledges'[x]]
         /\ s \in DOMAIN stream => Pledges[s] = Promised(stream[s], now, stream[s].sender)
         /\ s \in DOMAIN stream' => Pledges'[s] = Promised(stream'[s], now, stream'[s].sender)
<1>1. /\ DOMAIN Pledges = DOMAIN stream /\ DOMAIN Pledges' = DOMAIN stream'
      /\ \A x \in DOMAIN stream : Pledges[x] = Promised(stream[x], now, stream[x].sender)
      /\ \A x \in DOMAIN stream' : Pledges'[x] = Promised(stream'[x], now', stream'[x].sender)
  BY PledgesAre
<1>2. Pledges = [x \in DOMAIN Pledges |-> Pledges[x]] /\ Pledges' = [x \in DOMAIN Pledges' |-> Pledges'[x]]
  BY PledgesAre
<1> QED
  BY <1>1, <1>2 DEF OnlyStream

LEMMA ScheduleIs == \A p, t : Promise!Released(p, t) = Schedule(p, t)
  BY DEF Promise!Released, Schedule

-----------------------------------------------------------------------------
(* The steps                                                               *)

LEMMA TickPasses ==
  ASSUME IInv, Suspended, Tick
  PROVE  Suspended' /\ Promise!Pass
<1> DEFINE step(p) == Schedule(p, now + 1) - Schedule(p, now)
<1>1. /\ Suspended' /\ now' = now + 1
      /\ \A s \in DOMAIN stream : \A k :
           LET p == Promised(stream[s], now, k)
           IN  Promised(stream[s], now', k) =
                 IF p.running THEN [p EXCEPT !.earned = p.earned + step(p)]
                              ELSE [p EXCEPT !.missed = p.missed + step(p)]
  BY TickPromise DEF Tick, IInv
<1>2. /\ Pledges = [s \in DOMAIN stream |-> Promised(stream[s], now, stream[s].sender)]
      /\ Pledges' = [s \in DOMAIN stream |-> Promised(stream[s], now', stream[s].sender)]
      /\ DOMAIN Pledges = DOMAIN stream
  BY PledgesAre DEF Tick
<1>3. \A s \in DOMAIN Pledges :
        Pledges'[s] = IF Pledges[s].running
                        THEN [Pledges[s] EXCEPT !.earned = Pledges[s].earned + step(Pledges[s])]
                        ELSE [Pledges[s] EXCEPT !.missed = Pledges[s].missed + step(Pledges[s])]
  <2> HIDE DEF step
  <2> QED
    BY <1>1, <1>2
<1>4. Pledges' = [s \in DOMAIN Pledges |->
                    IF Pledges[s].running
                      THEN [Pledges[s] EXCEPT !.earned = Pledges[s].earned + step(Pledges[s])]
                      ELSE [Pledges[s] EXCEPT !.missed = Pledges[s].missed + step(Pledges[s])]]
  <2> HIDE DEF step
  <2> QED
    BY <1>2, <1>3
<1>5. UNCHANGED vault
  BY DEF Tick
<1> QED
  BY <1>1, <1>4, <1>5 DEF Promise!Pass, Promise!Released, Schedule, Pledges

LEMMA OpenOpens ==
  ASSUME IInv, Suspended, NEW s \in Streams, NEW sd \in Senders, NEW r \in Receivers, NEW f,
         NEW t1 \in StreamTimes, NEW t2 \in StreamTimes,
         NEW a \in StreamAmounts, NEW cc \in CanCancel, NEW cu \in CanUpdate,
         NativeStream(s, sd, r, f, t1, t2, a, cc, cu)
  PROVE  Suspended' /\ Promise!Open(s)
<1>1. /\ StartStream(s, sd, f, sd, r, t1, t2, a, cc, cu)
      /\ UNCHANGED <<feeData, now, vault>>
  BY DEF NativeStream, feeVars
<1>2. /\ t1 \in U64 /\ t2 \in U64 /\ a \in U64 /\ cc \in BOOLEAN /\ cu \in BOOLEAN
      /\ StreamsOK /\ FeeTypeOK /\ reserve \in [Senders -> U64]
  BY StreamAssumption DEF IInv
<1>3. /\ Suspended' /\ Kept(s, sd, Senders)
      /\ s \notin DOMAIN stream /\ DOMAIN stream' = DOMAIN stream \cup {s}
      /\ Begun(stream'[s], now)
  BY <1>1, <1>2, StartPromise
<1>4. /\ DOMAIN Pledges' = DOMAIN Pledges \cup {s} /\ s \notin DOMAIN Pledges
      /\ \A x \in DOMAIN Pledges : Pledges'[x] = Pledges[x]
      /\ Pledges'[s] = Promised(stream'[s], now, stream'[s].sender)
  BY <1>1, <1>3, OthersKept DEF Kept
<1>5. LET p == Pledges'[s]
      IN  /\ p.start < p.end /\ now < p.end
          /\ p.running
          /\ p.earned = Promise!Released(p, now) /\ p.missed = 0 /\ p.paid = 0
  BY <1>3, <1>4, ScheduleIs DEF Begun
<1> QED
  BY <1>1, <1>3, <1>4, <1>5 DEF Promise!Open, Promise!Fresh, Pledges

LEMMA UpdateRevises ==
  ASSUME IInv, Suspended, NEW s \in Streams, NEW t1 \in StreamTimes, NEW t2 \in StreamTimes,
         NEW a \in StreamAmounts, UpdateNativeStream(s, t1, t2, a), RunningWhenRevised
  PROVE  /\ Suspended'
         /\ Promise!Revise(s) \/ UNCHANGED <<now, Pledges, vault>>
<1>1. t1 \in U64 /\ t2 \in U64 /\ a \in U64
  BY StreamAssumption
<1>2. s \in DOMAIN stream /\ stream[s] \in StreamRecord
  BY DEF UpdateNativeStream, ReviseStream, IInv, StreamsOK
<1>3. PICK sd \in Senders : sd = stream[s].sender
  BY <1>2 DEF StreamRecord
<1>4. /\ ReviseStream(s, sd, t1, t2, a)
      /\ StreamsOK /\ reserve \in [Senders -> U64]
      /\ UNCHANGED <<feeData, now, vault>>
  BY <1>3 DEF UpdateNativeStream, IInv, feeVars
<1>5. /\ Suspended' /\ Kept(s, sd, Senders) /\ s \in DOMAIN stream'
      /\ \/ stream'[s] = stream[s]
         \/ /\ now <= stream[s].start_time /\ stream[s].paused = 0
            /\ stream'[s].can_cancel = stream[s].can_cancel
            /\ Begun(stream'[s], now)
  BY <1>1, <1>4, RevisePromise
<1>6. stream'[s].sender = stream[s].sender
  <2>1. /\ Kept(s, sd, Senders)
        /\ stream'[s] = Revised(stream[s], t1, t2, a)
    BY <1>1, <1>4, ReviseKeeps
  <2> QED
    BY <1>2, <2>1 DEF StreamRecord, Revised
<1>7. /\ DOMAIN Pledges' = DOMAIN Pledges /\ s \in DOMAIN Pledges
      /\ \A x \in DOMAIN Pledges \ {s} : Pledges'[x] = Pledges[x]
      /\ Pledges = [x \in DOMAIN Pledges |-> Pledges[x]]
      /\ Pledges' = [x \in DOMAIN Pledges' |-> Pledges'[x]]
      /\ Pledges[s] = Promised(stream[s], now, stream[s].sender)
      /\ Pledges'[s] = Promised(stream'[s], now, stream'[s].sender)
  BY <1>2, <1>4, <1>5, OthersKept DEF Kept
<1>8. CASE stream'[s] = stream[s]
  <2>1. Pledges' = Pledges
    BY <1>7, <1>8
  <2> QED
    BY <1>4, <1>5, <2>1
<1>9. CASE /\ now <= stream[s].start_time /\ stream[s].paused = 0
           /\ stream'[s].can_cancel = stream[s].can_cancel
           /\ Begun(stream'[s], now)
  <2>1. /\ now <= Pledges[s].start
        /\ Pledges'[s].sender = Pledges[s].sender
    BY <1>6, <1>7, <1>9 DEF Promised
  <2>2. /\ Pledges[s].running
        /\ Pledges'[s].cancellable = Pledges[s].cancellable
    <3>1. \A st, k : Promised(st, now, k).cancellable = st.can_cancel
      BY Zenon DEF Promised
    <3>2. Pledges[s] = Promised(stream[s], now, stream[s].sender)
      BY <1>7
    <3>3. Pledges'[s] = Promised(stream'[s], now, stream'[s].sender)
      BY <1>7
    <3>4. Promised(stream[s], now, stream[s].sender).running
      BY <1>9, RunningIs, Zenon
    <3>5. /\ Pledges'[s].cancellable = stream'[s].can_cancel
          /\ Pledges[s].cancellable = stream[s].can_cancel
      BY <3>1, <3>2, <3>3, Zenon
    <3> QED
      BY <1>9, <3>2, <3>4, <3>5, Zenon
  <2>3. LET p == Pledges'[s]
        IN  /\ p.start < p.end /\ now < p.end
            /\ p.running
            /\ p.earned = Promise!Released(p, now) /\ p.missed = 0 /\ p.paid = 0
    BY <1>7, <1>9, ScheduleIs DEF Begun
  <2>4. Pledges' = [Pledges EXCEPT ![s] = Pledges'[s]]
    BY <1>7
  <2>5. Promise!Revise(s)
    BY <1>4, <1>7, <2>1, <2>2, <2>3, <2>4 DEF Promise!Revise, Promise!Fresh, Pledges
  <2> QED
    BY <1>5, <2>5
<1> QED
  BY <1>5, <1>8, <1>9

LEMMA PauseToggles ==
  ASSUME IInv, Suspended, NEW s \in Streams, PauseStream(s)
  PROVE  Suspended' /\ Promise!Toggle(s)
<1>2. s \in DOMAIN stream /\ stream[s] \in StreamRecord
  BY DEF PauseStream, ToggleStream, TogglePasses, IInv, StreamsOK
<1>3. PICK sd \in Senders : sd = stream[s].sender
  BY <1>2 DEF StreamRecord
<1>4. /\ ToggleStream(s, sd)
      /\ StreamsOK /\ reserve \in [Senders -> U64]
      /\ UNCHANGED <<feeData, now, vault>>
  BY <1>3 DEF PauseStream, IInv, feeVars
<1>5. /\ Suspended' /\ Kept(s, sd, Senders) /\ s \in DOMAIN stream'
      /\ stream[s].start_time <= now /\ now < stream[s].end_time
      /\ Flips(stream[s], stream'[s], now)
  BY <1>4, TogglePromise
<1>6. stream'[s].sender = stream[s].sender
  BY <1>2, <1>4 DEF ToggleStream, TogglePasses, StreamRecord
<1>7. /\ DOMAIN Pledges' = DOMAIN Pledges /\ s \in DOMAIN Pledges
      /\ \A x \in DOMAIN Pledges \ {s} : Pledges'[x] = Pledges[x]
      /\ Pledges = [x \in DOMAIN Pledges |-> Pledges[x]]
      /\ Pledges' = [x \in DOMAIN Pledges' |-> Pledges'[x]]
      /\ Pledges[s] = Promised(stream[s], now, stream[s].sender)
      /\ Pledges'[s] = Promised(stream'[s], now, stream'[s].sender)
  BY <1>2, <1>4, <1>5, OthersKept DEF Kept
<1>8. Pledges[s].start <= now /\ now < Pledges[s].end
  BY <1>5, <1>7 DEF Promised
<1>9. Pledges'[s] = [Pledges[s] EXCEPT !.running = ~ Pledges[s].running]
  BY <1>5, <1>6, <1>7 DEF Flips
<1>10. Pledges' = [Pledges EXCEPT ![s] = [Pledges[s] EXCEPT !.running = ~ Pledges[s].running]]
  BY <1>7, <1>9
<1> QED
  BY <1>4, <1>5, <1>7, <1>8, <1>10 DEF Promise!Toggle, Pledges

LEMMA DueIs ==
  ASSUME NEW s, NEW amount, Due(stream[s], now, amount), s \in DOMAIN stream
  PROVE  Pledges[s].earned - Pledges[s].paid = amount /\ Pledges[s].sender = stream[s].sender
<1>1. Pledges[s] = Promised(stream[s], now, stream[s].sender)
  BY PledgesAre
<1> QED
  BY <1>1 DEF Due, Promised

LEMMA PaymentPays ==
  ASSUME NEW s, NEW amount, s \in DOMAIN stream, Due(stream[s], now, amount),
         PayFromVault(stream[s], amount)
  PROVE  Promise!Pay(s)
<1>1. Pledges[s].earned - Pledges[s].paid = amount /\ Pledges[s].sender = stream[s].sender
  BY DueIs
<1>2. /\ amount <= vault[Pledges[s].sender]
      /\ vault' = [vault EXCEPT ![Pledges[s].sender] = vault[Pledges[s].sender] - amount]
  BY <1>1 DEF PayFromVault, PaymentPasses
<1> QED
  BY <1>1, <1>2 DEF Promise!Pay, Pledges

LEMMA WithdrawClaims ==
  ASSUME IInv, Suspended, NEW s \in Streams, WithdrawStream(s)
  PROVE  Suspended' /\ Promise!Claim(s)
<1>2. s \in DOMAIN stream /\ stream[s] \in StreamRecord
  BY DEF WithdrawStream, ClaimStream, ClaimPasses, IInv, StreamsOK
<1>3. PICK sd \in Senders : sd = stream[s].sender
  BY <1>2 DEF StreamRecord
<1>4. /\ ClaimStream(s, sd)
      /\ PayFromVault(stream[s], ClaimAmount(stream[s]))
      /\ StreamsOK /\ reserve \in [Senders -> U64]
      /\ UNCHANGED <<feeData, now>>
  BY <1>3 DEF WithdrawStream, IInv
<1>5. /\ Suspended' /\ Kept(s, sd, Senders)
      /\ now > stream[s].start_time
      /\ Due(stream[s], now, ClaimAmount(stream[s]))
      /\ \/ s \in DOMAIN stream' /\ Advances(stream[s], stream'[s], now)
         \/ s \notin DOMAIN stream' /\ AllReleased(stream[s], now)
  BY <1>4, ClaimPromise
<1>6. Promise!Pay(s)
  BY <1>2, <1>4, <1>5, PaymentPays
<1>7. /\ DOMAIN Pledges' \ {s} = DOMAIN Pledges \ {s} /\ s \in DOMAIN Pledges
      /\ s \in DOMAIN Pledges' <=> s \in DOMAIN stream'
      /\ \A x \in DOMAIN Pledges \ {s} : Pledges'[x] = Pledges[x]
      /\ Pledges = [x \in DOMAIN Pledges |-> Pledges[x]]
      /\ Pledges' = [x \in DOMAIN Pledges' |-> Pledges'[x]]
      /\ Pledges[s] = Promised(stream[s], now, stream[s].sender)
      /\ s \in DOMAIN stream' => Pledges'[s] = Promised(stream'[s], now, stream'[s].sender)
  BY <1>2, <1>4, <1>5, OthersKept DEF Kept
<1>8. now > Pledges[s].start
  BY <1>5, <1>7 DEF Promised
<1>9. CASE s \in DOMAIN stream' /\ Advances(stream[s], stream'[s], now)
  <2>1. stream'[s].sender = stream[s].sender
    BY <1>2, <1>4, <1>9 DEF ClaimStream, ClaimPasses, CloseAccount, StreamRecord
  <2>2. /\ Schedule(Pledges[s], now) < Pledges[s].total \/ ~ Pledges[s].running
        /\ Pledges'[s] = [Pledges[s] EXCEPT !.paid = Pledges[s].earned]
    BY <1>7, <1>9, <2>1 DEF Advances
  <2>3. Pledges' = [Pledges EXCEPT ![s] = [Pledges[s] EXCEPT !.paid = Pledges[s].earned]]
    BY <1>7, <1>9, <2>2
  <2>4. Promise!Released(Pledges[s], now) < Pledges[s].total \/ ~ Pledges[s].running
    BY <2>2, ScheduleIs
  <2>5. Promise!Claim(s)
    BY <1>4, <1>6, <1>7, <1>8, <2>3, <2>4 DEF Promise!Claim, Pledges
  <2> QED
    BY <1>5, <2>5
<1>10. CASE s \notin DOMAIN stream' /\ AllReleased(stream[s], now)
  <2>1. Promise!Released(Pledges[s], now) = Pledges[s].total
    BY <1>7, <1>10, ScheduleIs DEF AllReleased
  <2>2. Pledges' = [x \in DOMAIN Pledges \ {s} |-> Pledges[x]]
    BY <1>7, <1>10
  <2>3. Promise!Claim(s)
    BY <1>4, <1>6, <1>7, <1>8, <2>1, <2>2 DEF Promise!Claim, Promise!End, Pledges
  <2> QED
    BY <1>5, <2>3
<1> QED
  BY <1>5, <1>9, <1>10

LEMMA CancelCancels ==
  ASSUME IInv, Suspended, NEW s \in Streams, CancelStream(s)
  PROVE  Suspended' /\ Promise!Cancel(s)
<1>2. s \in DOMAIN stream /\ stream[s] \in StreamRecord
  BY DEF CancelStream, EndStream, EndPasses, IInv, StreamsOK
<1>3. PICK sd \in Senders : sd = stream[s].sender
  BY <1>2 DEF StreamRecord
<1>4. /\ EndStream(s, sd)
      /\ PayFromVault(stream[s], CancelAmount(stream[s]))
      /\ StreamsOK /\ reserve \in [Senders -> U64]
      /\ UNCHANGED <<feeData, now>>
  BY <1>3 DEF CancelStream, IInv
<1>5. /\ Suspended' /\ Kept(s, sd, Senders) /\ s \notin DOMAIN stream'
      /\ now < stream[s].end_time
      /\ Due(stream[s], now, CancelAmount(stream[s]))
  BY <1>4, CancelPromise
<1>6. Promise!Pay(s)
  BY <1>2, <1>4, <1>5, PaymentPays
<1>7. /\ DOMAIN Pledges' \ {s} = DOMAIN Pledges \ {s} /\ s \in DOMAIN Pledges
      /\ s \notin DOMAIN Pledges'
      /\ \A x \in DOMAIN Pledges \ {s} : Pledges'[x] = Pledges[x]
      /\ Pledges = [x \in DOMAIN Pledges |-> Pledges[x]]
      /\ Pledges' = [x \in DOMAIN Pledges' |-> Pledges'[x]]
      /\ Pledges[s] = Promised(stream[s], now, stream[s].sender)
  BY <1>2, <1>4, <1>5, OthersKept DEF Kept
<1>8. now < Pledges[s].end
  BY <1>5, <1>7 DEF Promised
<1>9. Pledges[s].cancellable
  <2>1. Promised(stream[s], now, stream[s].sender).cancellable = stream[s].can_cancel
    BY Zenon DEF Promised
  <2>2. stream[s].can_cancel
    BY <1>4 DEF EndStream, EndPasses, Cancellable
  <2> QED
    BY <1>7, <2>1, <2>2
<1>10. Pledges' = [x \in DOMAIN Pledges \ {s} |-> Pledges[x]]
  BY <1>7
<1> QED
  BY <1>4, <1>5, <1>6, <1>7, <1>8, <1>9, <1>10 DEF Promise!Cancel, Promise!End, Pledges

(* Deposits and withdrawals move the sender's money, and no promise.       *)
LEMMA VaultMoves ==
  ASSUME IInv, IInv', Suspended, NEW sd \in Senders, NEW v,
         vault' = [vault EXCEPT ![sd] = v], UNCHANGED <<now, stream>>
  PROVE  Suspended' /\ Promise!MoveFunds(sd)
<1>1. Suspended'
  BY DEF Suspended, PausedSince
<1>2. vault'[sd] \in Nat /\ vault' = [vault EXCEPT ![sd] = vault'[sd]]
  BY UtilsAssumption DEF IInv, U64
<1>3. UNCHANGED Pledges
  BY PledgesAre
<1> QED
  BY <1>1, <1>2, <1>3 DEF Promise!MoveFunds, Pledges

LEMMA NothingMoves ==
  ASSUME Suspended, UNCHANGED <<now, stream, vault>>
  PROVE  Suspended' /\ UNCHANGED <<now, Pledges, vault>>
<1>1. Suspended'
  BY DEF Suspended, PausedSince
<1>2. UNCHANGED Pledges
  BY PledgesAre
<1> QED
  BY <1>1, <1>2

-----------------------------------------------------------------------------
(* The refinement                                                          *)

LEMMA StepRefines ==
  ASSUME IInv, Suspended, Next, RunningWhenRevised
  PROVE  /\ Suspended'
         /\ Promise!Next \/ UNCHANGED <<now, Pledges, vault>>
<1> USE StreamAssumption
<1>0. IInv'
  BY StepKeeps
<1>1. CASE Tick
  BY <1>1, TickPasses DEF Promise!Next
<1>2. CASE FeeNext /\ UNCHANGED <<now, stream, reserve, vault>>
  BY <1>2, NothingMoves
<1>3. ASSUME NEW sd \in Senders, NEW a \in DepositAmounts, DepositSol(sd, a)
      PROVE  Suspended' /\ Promise!Next
  BY <1>0, <1>3, VaultMoves DEF DepositSol, Promise!Next
<1>4. ASSUME NEW sd \in Senders, NEW u, NEW a, TakeFromVault(sd, u, a)
      PROVE  Suspended' /\ Promise!Next
  BY <1>0, <1>4, VaultMoves DEF TakeFromVault, Promise!Next
<1>5. ASSUME NEW u, NEW w, NEW a, SolDirectly(u, w, a)
      PROVE  Suspended' /\ UNCHANGED <<now, Pledges, vault>>
  BY <1>5, NothingMoves DEF SolDirectly
<1>6. ASSUME NEW sd \in Senders, NEW s \in Streams, NEW r \in Receivers, NEW f \in FeeOwners,
             NEW t1 \in StreamTimes, NEW t2 \in StreamTimes, NEW a \in StreamAmounts,
             NEW cc \in CanCancel, NEW cu \in CanUpdate,
             NativeStream(s, sd, r, f, t1, t2, a, cc, cu)
      PROVE  Suspended' /\ Promise!Next
  BY <1>6, OpenOpens DEF Promise!Next
<1>7. ASSUME NEW s \in Streams, NEW t1 \in StreamTimes, NEW t2 \in StreamTimes,
             NEW a \in StreamAmounts, UpdateNativeStream(s, t1, t2, a)
      PROVE  /\ Suspended'
             /\ Promise!Next \/ UNCHANGED <<now, Pledges, vault>>
  BY <1>7, UpdateRevises DEF Promise!Next
<1>8. ASSUME NEW s \in Streams, WithdrawStream(s) \/ PauseStream(s) \/ CancelStream(s)
      PROVE  Suspended' /\ Promise!Next
  BY <1>8, WithdrawClaims, PauseToggles, CancelCancels DEF Promise!Next
<1> QED
  BY <1>1, <1>2, <1>3, <1>4, <1>5, <1>6, <1>7, <1>8 DEF Next, NativeWithdrawal, NativeTransfer

(* While no paused stream is updated, a paused stream's limit stays what   *)
(* it had released when it was paused.                                     *)
LEMMA SuspendedStays ==
  IInv /\ Suspended /\ [Next /\ RunningWhenRevised]_vars => IInv' /\ Suspended'
<1>1. ASSUME IInv, Suspended, UNCHANGED vars PROVE IInv' /\ Suspended'
  BY <1>1, StutterKeeps, NothingMoves DEF vars
<1> QED
  BY <1>1, StepKeeps, StepRefines

LEMMA SuspendedInit == Init => Suspended
  BY DEF Init, Suspended

(* The SOL streams keep the promise of module StreamPromise, if no stream  *)
(* is updated while it is paused: every claim and every cancellation pays  *)
(* exactly what the time the stream was running has earned, and a stream   *)
(* closes only when everything was released or the sender cancels it.      *)
THEOREM Refines == CarefulSpec => PromiseKept
<1>1. Init => Promise!Init
  BY DEF Init, Promise!Init
<1>2. IInv /\ Suspended /\ [Next /\ RunningWhenRevised]_vars => [Promise!Next]_(Promise!vars)
  <2>1. ASSUME IInv, Suspended, UNCHANGED vars PROVE UNCHANGED <<now, Pledges, vault>>
    BY <2>1, NothingMoves DEF vars
  <2>2. UNCHANGED <<now, Pledges, vault>> => UNCHANGED Promise!vars
    BY DEF Promise!vars, Pledges
  <2> QED
    BY <2>1, <2>2, StepRefines
<1> QED
  BY <1>1, <1>2, IInvInit, SuspendedInit, SuspendedStays, PTL
     DEF CarefulSpec, PromiseKept, Promise!Spec

(* A paused stream can be resumed until its end, if no stream is updated   *)
(* while it is paused: the release since the pause began is neither        *)
(* negative nor more than the stream, and so its reserve, still holds.     *)
THEOREM ResumesSafe == CarefulSpec => []PausedResumes
<1>1. IInv /\ Suspended /\ ReserveExact => PausedResumes
  <2> SUFFICES ASSUME IInv, Suspended, ReserveExact, NEW s \in DOMAIN stream,
                      stream[s].paused = 1, stream[s].start_time <= now,
                      now < stream[s].end_time
               PROVE  TogglePasses(s, stream[s].sender)
    BY DEF PausedResumes
  <2>1. stream[s].sender \in Senders /\ StreamsOK
    BY DEF IInv, StreamsOK, StreamRecord
  <2>2. PICK sd \in Senders : sd = stream[s].sender
    BY <2>1
  <2>3. reserve[sd] \in U64 /\ reserve[sd] = OwedTo(StreamsOf(sd))
    BY DEF IInv, ReserveExact
  <2>4. StreamsOf(sd) \subseteq DOMAIN stream /\ s \in StreamsOf(sd)
    BY <2>2 DEF StreamsOf
  <2>5. Owed(stream[s]) <= reserve[sd]
    <3>1. /\ reserve[sd] = OwedTo(StreamsOf(sd) \ {s}) + Owed(stream[s])
          /\ OwedTo(StreamsOf(sd) \ {s}) \in Nat /\ Owed(stream[s]) \in Nat
      BY <2>1, <2>3, <2>4, OwedCounted
    <3> QED
      BY <3>1
  <2> QED
    BY <2>1, <2>2, <2>3, <2>5, ResumeGoes
<1>2. CarefulSpec => Spec
  BY PTL DEF CarefulSpec, Spec
<1> QED
  BY <1>1, <1>2, IInvInit, SuspendedInit, SuspendedStays, ReserveSafe, PTL DEF CarefulSpec
=============================================================================
