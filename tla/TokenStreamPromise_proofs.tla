--------------------- MODULE TokenStreamPromise_proofs ----------------------
(***************************************************************************)
(* Proof that the token streams implement the promise of module            *)
(* StreamPromise, each mint of a sender being a funder of its own, when    *)
(* cancellations name the stream's mint.                                   *)
(***************************************************************************)
EXTENDS TokenStreamPromise, TokenStream_proofs

Pledges == [s \in DOMAIN stream |-> Abstract(stream[s], Key(s))]

Funds == [k \in Senders \X Mints |-> Balance(k)]

LEMMA PledgesAre ==
  /\ Pledges = [s \in DOMAIN stream |->
                  Promised(stream[s], now, <<stream[s].sender, token_mint[s]>>)]
  /\ Pledges' = [s \in DOMAIN stream' |->
                   Promised(stream'[s], now', <<stream'[s].sender, token_mint'[s]>>)]
<1>1. \A s \in DOMAIN stream :
        Pledges[s] = Promised(stream[s], now, <<stream[s].sender, token_mint[s]>>)
  BY AbstractNow DEF Pledges, Key
<1>2. \A s \in DOMAIN stream' :
        Pledges'[s] = Promised(stream'[s], now', <<stream'[s].sender, token_mint'[s]>>)
  BY DEF Pledges, Key, Abstract, Promised, EarnedAt, ReleasedAt, Limit, Vested
<1> QED
  BY <1>1, <1>2 DEF Pledges

(* A step of the handlers that changes one stream changes its promise only.*)
LEMMA OthersKept ==
  ASSUME NEW s, NEW sd, NEW n, NEW k, k = <<sd, n>>,
         Touches(s, sd, n), InOwnMint(s, n), UNCHANGED now
  PROVE  /\ \A x \in DOMAIN Pledges \ {s} : x \in DOMAIN Pledges' /\ Pledges'[x] = Pledges[x]
         /\ DOMAIN Pledges' \ {s} = DOMAIN Pledges \ {s}
         /\ DOMAIN Pledges = DOMAIN stream /\ DOMAIN Pledges' = DOMAIN stream'
         /\ Pledges = [x \in DOMAIN Pledges |-> Pledges[x]]
         /\ Pledges' = [x \in DOMAIN Pledges' |-> Pledges'[x]]
         /\ s \in DOMAIN stream => Pledges[s] = Promised(stream[s], now, k)
         /\ s \in DOMAIN stream' => Pledges'[s] = Promised(stream'[s], now, k)
<1>1. /\ DOMAIN Pledges = DOMAIN stream /\ DOMAIN Pledges' = DOMAIN stream'
      /\ \A x \in DOMAIN stream :
           Pledges[x] = Promised(stream[x], now, <<stream[x].sender, token_mint[x]>>)
      /\ \A x \in DOMAIN stream' :
           Pledges'[x] = Promised(stream'[x], now', <<stream'[x].sender, token_mint'[x]>>)
  BY PledgesAre
<1>2. Pledges = [x \in DOMAIN Pledges |-> Pledges[x]] /\ Pledges' = [x \in DOMAIN Pledges' |-> Pledges'[x]]
  BY PledgesAre
<1>3. /\ DOMAIN stream' \ {s} = DOMAIN stream \ {s}
      /\ \A x \in DOMAIN stream \ {s} : /\ x \in DOMAIN stream'
                                       /\ stream'[x] = stream[x]
                                       /\ token_mint'[x] = token_mint[x]
  BY DEF Touches, Kept, OnlyStream
<1>4. \A x \in DOMAIN stream \ {s} : Pledges'[x] = Pledges[x]
  BY <1>1, <1>3
<1>5. /\ s \in DOMAIN stream => Pledges[s] = Promised(stream[s], now, k)
      /\ s \in DOMAIN stream' => Pledges'[s] = Promised(stream'[s], now, k)
  BY <1>1 DEF Touches, InOwnMint
<1> QED
  BY <1>1, <1>2, <1>3, <1>4, <1>5

LEMMA ScheduleIs == \A p, t : Promise!Released(p, t) = Schedule(p, t)
  BY DEF Promise!Released, Schedule

(* One vault changes, and no other funds.                                  *)
LEMMA FundsStep ==
  ASSUME NEW k \in Keys, NEW v, SetVault(k, v)
  PROVE  Funds' = [Funds EXCEPT ![k] = v] /\ Funds[k] = Balance(k)
<1>1. /\ Funds = [x \in Keys |-> IF x \in DOMAIN tokenVault THEN tokenVault[x] ELSE 0]
      /\ Funds' = [x \in Keys |-> IF x \in DOMAIN tokenVault' THEN tokenVault'[x] ELSE 0]
  BY DEF Funds, Keys, Balance
<1>2. \A x \in Keys : Funds'[x] = IF x = k THEN v ELSE Funds[x]
  BY <1>1 DEF SetVault
<1>3. Funds[k] = Balance(k)
  BY <1>1 DEF Balance
<1> QED
  BY <1>1, <1>2, <1>3

LEMMA FundsSame ==
  ASSUME UNCHANGED tokenVault
  PROVE  UNCHANGED Funds
  BY DEF Funds, Balance

-----------------------------------------------------------------------------
(* The steps                                                               *)

LEMMA TickPasses ==
  ASSUME IInv, Suspended, Tick
  PROVE  Suspended' /\ Promise!Pass
<1> DEFINE step(p) == Schedule(p, now + 1) - Schedule(p, now)
           key(s) == <<stream[s].sender, token_mint[s]>>
<1>1. /\ Suspended' /\ now' = now + 1
      /\ \A s \in DOMAIN stream : \A k :
           LET p == Promised(stream[s], now, k)
           IN  Promised(stream[s], now', k) =
                 IF p.running THEN [p EXCEPT !.earned = p.earned + step(p)]
                              ELSE [p EXCEPT !.missed = p.missed + step(p)]
  BY TickPromise DEF Tick, IInv
<1>2. /\ Pledges = [s \in DOMAIN stream |-> Promised(stream[s], now, key(s))]
      /\ Pledges' = [s \in DOMAIN stream |-> Promised(stream[s], now', key(s))]
      /\ DOMAIN Pledges = DOMAIN stream
  BY PledgesAre DEF Tick
<1>3. \A s \in DOMAIN Pledges :
        Pledges'[s] = IF Pledges[s].running
                        THEN [Pledges[s] EXCEPT !.earned = Pledges[s].earned + step(Pledges[s])]
                        ELSE [Pledges[s] EXCEPT !.missed = Pledges[s].missed + step(Pledges[s])]
  <2> HIDE DEF step, key
  <2> QED
    BY <1>1, <1>2
<1>4. Pledges' = [s \in DOMAIN Pledges |->
                    IF Pledges[s].running
                      THEN [Pledges[s] EXCEPT !.earned = Pledges[s].earned + step(Pledges[s])]
                      ELSE [Pledges[s] EXCEPT !.missed = Pledges[s].missed + step(Pledges[s])]]
  <2> HIDE DEF step, key
  <2> QED
    BY <1>2, <1>3
<1>5. UNCHANGED Funds
  BY FundsSame DEF Tick
<1> HIDE DEF key
<1> QED
  BY <1>1, <1>4, <1>5 DEF Promise!Pass, Promise!Released, Schedule, Pledges, Funds

LEMMA OpenOpens ==
  ASSUME IInv, Suspended, NEW s \in Streams, NEW sd \in Senders, NEW n \in Mints,
         NEW r \in Receivers, NEW f, NEW t1 \in StreamTimes, NEW t2 \in StreamTimes,
         NEW a \in StreamAmounts, NEW cc \in CanCancel, NEW cu \in CanUpdate,
         OpenTokenStream(s, sd, n, r, f, t1, t2, a, cc, cu)
  PROVE  Suspended' /\ Promise!Open(s)
<1>0. PICK k \in Keys : k = <<sd, n>>
  BY DEF Keys
<1>1. /\ StartStream(s, k, f, sd, r, t1, t2, a, cc, cu)
      /\ UNCHANGED <<feeData, now, tokenVault>>
  BY <1>0 DEF OpenTokenStream, lamportVars, feeVars
<1>2. /\ t1 \in U64 /\ t2 \in U64 /\ a \in U64 /\ cc \in BOOLEAN /\ cu \in BOOLEAN
      /\ StreamsOK /\ FeeTypeOK /\ reserve \in [Keys -> U64]
  BY StreamAssumption DEF IInv
<1>3. /\ Suspended' /\ Kept(s, k, Keys)
      /\ s \notin DOMAIN stream /\ DOMAIN stream' = DOMAIN stream \cup {s}
      /\ Begun(stream'[s], now)
  BY <1>1, <1>2, StartPromise
<1>4. Touches(s, sd, n) /\ InOwnMint(s, n)
  BY OpenKeeps
<1>5. /\ DOMAIN Pledges' = DOMAIN Pledges \cup {s} /\ s \notin DOMAIN Pledges
      /\ \A x \in DOMAIN Pledges : Pledges'[x] = Pledges[x]
      /\ Pledges'[s] = Promised(stream'[s], now, k)
  BY <1>0, <1>1, <1>3, <1>4, OthersKept
<1>6. LET p == Pledges'[s]
      IN  /\ p.start < p.end /\ now < p.end
          /\ p.running
          /\ p.earned = Promise!Released(p, now) /\ p.missed = 0 /\ p.paid = 0
  BY <1>3, <1>5, ScheduleIs DEF Begun
<1>7. UNCHANGED Funds
  BY <1>1, FundsSame
<1> QED
  BY <1>1, <1>3, <1>5, <1>6, <1>7 DEF Promise!Open, Promise!Fresh, Pledges, Funds

LEMMA UpdateRevises ==
  ASSUME IInv, Suspended, NEW s \in Streams, NEW t1 \in StreamTimes, NEW t2 \in StreamTimes,
         NEW a \in StreamAmounts, UpdateTokenStream(s, t1, t2, a), RunningWhenRevised
  PROVE  /\ Suspended'
         /\ Promise!Revise(s) \/ UNCHANGED <<now, Pledges, Funds>>
<1>1. t1 \in U64 /\ t2 \in U64 /\ a \in U64
  BY StreamAssumption
<1>2. PICK sd \in Senders, n \in Mints : Touches(s, sd, n) /\ InOwnMint(s, n)
  BY UpdateKeeps
<1>3. PICK k \in Keys : k = <<sd, n>>
  BY DEF Keys
<1>4. /\ ReviseStream(s, k, t1, t2, a)
      /\ StreamsOK /\ reserve \in [Keys -> U64]
      /\ UNCHANGED <<feeData, now, tokenVault>>
  <2>1. s \in DOMAIN stream
    BY DEF UpdateTokenStream, ReviseStream
  <2>2. Key(s) = k
    BY <1>2, <1>3, <2>1 DEF Key, Touches, InOwnMint
  <2> QED
    BY <2>2 DEF UpdateTokenStream, IInv, lamportVars, feeVars
<1>5. /\ Suspended' /\ Kept(s, k, Keys) /\ s \in DOMAIN stream /\ s \in DOMAIN stream'
      /\ \/ stream'[s] = stream[s]
         \/ /\ now <= stream[s].start_time /\ stream[s].paused = 0
            /\ stream'[s].can_cancel = stream[s].can_cancel
            /\ Begun(stream'[s], now)
  BY <1>1, <1>4, RevisePromise
<1>6. UNCHANGED Funds
  BY <1>4, FundsSame
<1>7. /\ DOMAIN Pledges' = DOMAIN Pledges /\ s \in DOMAIN Pledges
      /\ \A x \in DOMAIN Pledges \ {s} : Pledges'[x] = Pledges[x]
      /\ Pledges = [x \in DOMAIN Pledges |-> Pledges[x]]
      /\ Pledges' = [x \in DOMAIN Pledges' |-> Pledges'[x]]
      /\ Pledges[s] = Promised(stream[s], now, k)
      /\ Pledges'[s] = Promised(stream'[s], now, k)
  BY <1>2, <1>3, <1>4, <1>5, OthersKept
<1>8. CASE stream'[s] = stream[s]
  <2>1. Pledges' = Pledges
    BY <1>7, <1>8
  <2> QED
    BY <1>4, <1>5, <1>6, <2>1
<1>9. CASE /\ now <= stream[s].start_time /\ stream[s].paused = 0
           /\ stream'[s].can_cancel = stream[s].can_cancel
           /\ Begun(stream'[s], now)
  <2>1. /\ now <= Pledges[s].start
        /\ Pledges'[s].sender = Pledges[s].sender
    BY <1>7, <1>9 DEF Promised
  <2>2. /\ Pledges[s].running
        /\ Pledges'[s].cancellable = Pledges[s].cancellable
    <3>1. \A st, x : Promised(st, now, x).cancellable = st.can_cancel
      BY Zenon DEF Promised
    <3>2. Pledges[s] = Promised(stream[s], now, k)
      BY <1>7
    <3>3. Pledges'[s] = Promised(stream'[s], now, k)
      BY <1>7
    <3>4. Promised(stream[s], now, k).running
      BY <1>9, RunningIs, Zenon
    <3>5. /\ Pledges'[s].cancellable = stream'[s].can_cancel
          /\ Pledges[s].cancellable = stream[s].can_cancel
      BY <3>1, <3>2, <3>3, Zenon
    <3> QED
      BY <1>9, <3>2, <3>4, <3>5, Zenon
  <2>3. LET p == Pledges'[s]
        IN  /\ p.start < p.end /\ now < p.end
            /\ p.running
            /\ p.earned = Promise!Released(p, now) /\ p.missed = 0 /\ p.paid = 0
    BY <1>7, <1>9, ScheduleIs DEF Begun
  <2>4. Pledges' = [Pledges EXCEPT ![s] = Pledges'[s]]
    BY <1>7
  <2>5. Promise!Revise(s)
    BY <1>4, <1>6, <1>7, <2>1, <2>2, <2>3, <2>4
       DEF Promise!Revise, Promise!Fresh, Pledges, Funds
  <2> QED
    BY <1>5, <2>5
<1> QED
  BY <1>5, <1>8, <1>9

LEMMA PauseToggles ==
  ASSUME IInv, Suspended, NEW s \in Streams, PauseResumeTokenStream(s)
  PROVE  Suspended' /\ Promise!Toggle(s)
<1>2. PICK sd \in Senders, n \in Mints : Touches(s, sd, n) /\ InOwnMint(s, n)
  BY PauseKeeps
<1>3. PICK k \in Keys : k = <<sd, n>>
  BY DEF Keys
<1>4. /\ ToggleStream(s, k)
      /\ StreamsOK /\ reserve \in [Keys -> U64]
      /\ UNCHANGED <<feeData, now, tokenVault>>
  <2>1. s \in DOMAIN stream
    BY DEF PauseResumeTokenStream, ToggleStream, TogglePasses
  <2>2. Key(s) = k
    BY <1>2, <1>3, <2>1 DEF Key, Touches, InOwnMint
  <2> QED
    BY <2>2 DEF PauseResumeTokenStream, IInv, lamportVars, feeVars
<1>5. /\ Suspended' /\ Kept(s, k, Keys) /\ s \in DOMAIN stream /\ s \in DOMAIN stream'
      /\ stream[s].start_time <= now /\ now < stream[s].end_time
      /\ Flips(stream[s], stream'[s], now)
  BY <1>4, TogglePromise
<1>6. UNCHANGED Funds
  BY <1>4, FundsSame
<1>7. /\ DOMAIN Pledges' = DOMAIN Pledges /\ s \in DOMAIN Pledges
      /\ \A x \in DOMAIN Pledges \ {s} : Pledges'[x] = Pledges[x]
      /\ Pledges = [x \in DOMAIN Pledges |-> Pledges[x]]
      /\ Pledges' = [x \in DOMAIN Pledges' |-> Pledges'[x]]
      /\ Pledges[s] = Promised(stream[s], now, k)
      /\ Pledges'[s] = Promised(stream'[s], now, k)
  BY <1>2, <1>3, <1>4, <1>5, OthersKept
<1>8. Pledges[s].start <= now /\ now < Pledges[s].end
  BY <1>5, <1>7 DEF Promised
<1>9. Pledges'[s] = [Pledges[s] EXCEPT !.running = ~ Pledges[s].running]
  BY <1>5, <1>7 DEF Flips
<1>10. Pledges' = [Pledges EXCEPT ![s] = [Pledges[s] EXCEPT !.running = ~ Pledges[s].running]]
  BY <1>7, <1>9
<1> QED
  BY <1>4, <1>5, <1>6, <1>7, <1>8, <1>10 DEF Promise!Toggle, Pledges, Funds

LEMMA PaymentPays ==
  ASSUME IInv, NEW s, NEW amount, NEW n \in Mints, s \in DOMAIN stream,
         Due(stream[s], now, amount), n = token_mint[s], PayTokens(stream[s], n, amount)
  PROVE  Promise!Pay(s)
<1>1. PICK k \in Keys : k = <<stream[s].sender, n>>
  BY DEF Keys, IInv, StreamsOK, StreamRecord
<1>2. Pledges[s].earned - Pledges[s].paid = amount /\ Pledges[s].sender = k
  <2>1. Pledges[s] = Promised(stream[s], now, k)
    BY <1>1, PledgesAre
  <2> QED
    BY <2>1 DEF Due, Promised
<1>3. amount <= Balance(k) /\ SetVault(k, Balance(k) - amount)
  BY <1>1 DEF PayTokens, PaymentPasses
<1>4. Funds' = [Funds EXCEPT ![k] = Funds[k] - amount] /\ Funds[k] = Balance(k)
  BY <1>3, FundsStep
<1>5. amount <= Funds[k]
  BY <1>3, <1>4
<1> QED
  BY <1>2, <1>4, <1>5 DEF Promise!Pay, Pledges, Funds

LEMMA WithdrawClaims ==
  ASSUME IInv, Suspended, NEW s \in Streams, WithdrawTokenStream(s)
  PROVE  Suspended' /\ Promise!Claim(s)
<1>2. PICK sd \in Senders, n \in Mints : Touches(s, sd, n) /\ InOwnMint(s, n)
  BY WithdrawKeeps
<1>3. PICK k \in Keys : k = <<sd, n>>
  BY DEF Keys
<1>4. /\ s \in DOMAIN stream /\ n = token_mint[s]
      /\ ClaimStream(s, k)
      /\ PayTokens(stream[s], n, ClaimAmount(stream[s]))
      /\ StreamsOK /\ reserve \in [Keys -> U64]
      /\ UNCHANGED <<feeData, now>>
  <2>1. s \in DOMAIN stream
    BY DEF WithdrawTokenStream, ClaimStream, ClaimPasses
  <2>2. Key(s) = k /\ n = token_mint[s]
    BY <1>2, <1>3, <2>1 DEF Key, Touches, InOwnMint
  <2> QED
    BY <2>1, <2>2 DEF WithdrawTokenStream, IInv, lamportVars, feeVars
<1>5. /\ Suspended' /\ Kept(s, k, Keys)
      /\ now > stream[s].start_time
      /\ Due(stream[s], now, ClaimAmount(stream[s]))
      /\ \/ s \in DOMAIN stream' /\ Advances(stream[s], stream'[s], now)
         \/ s \notin DOMAIN stream' /\ AllReleased(stream[s], now)
  BY <1>4, ClaimPromise
<1>6. Promise!Pay(s)
  BY <1>4, <1>5, PaymentPays
<1>7. /\ DOMAIN Pledges' \ {s} = DOMAIN Pledges \ {s} /\ s \in DOMAIN Pledges
      /\ s \in DOMAIN Pledges' <=> s \in DOMAIN stream'
      /\ \A x \in DOMAIN Pledges \ {s} : Pledges'[x] = Pledges[x]
      /\ Pledges = [x \in DOMAIN Pledges |-> Pledges[x]]
      /\ Pledges' = [x \in DOMAIN Pledges' |-> Pledges'[x]]
      /\ Pledges[s] = Promised(stream[s], now, k)
      /\ s \in DOMAIN stream' => Pledges'[s] = Promised(stream'[s], now, k)
  BY <1>2, <1>3, <1>4, OthersKept
<1>8. now > Pledges[s].start
  BY <1>5, <1>7 DEF Promised
<1>9. CASE s \in DOMAIN stream' /\ Advances(stream[s], stream'[s], now)
  <2>1. /\ Schedule(Pledges[s], now) < Pledges[s].total \/ ~ Pledges[s].running
        /\ Pledges'[s] = [Pledges[s] EXCEPT !.paid = Pledges[s].earned]
    BY <1>7, <1>9 DEF Advances
  <2>2. Pledges' = [Pledges EXCEPT ![s] = [Pledges[s] EXCEPT !.paid = Pledges[s].earned]]
    BY <1>7, <1>9, <2>1
  <2>3. Promise!Released(Pledges[s], now) < Pledges[s].total \/ ~ Pledges[s].running
    BY <2>1, ScheduleIs
  <2>4. Promise!Claim(s)
    BY <1>4, <1>6, <1>7, <1>8, <2>2, <2>3 DEF Promise!Claim, Pledges
  <2> QED
    BY <1>5, <2>4
<1>10. CASE s \notin DOMAIN stream' /\ AllReleased(stream[s], now)
  <2>1. Promise!Released(Pledges[s], now) = Pledges[s].total
    BY <1>7, <1>10, ScheduleIs DEF AllReleased
  <2>2. Pledges' = [x \in DOMAIN Pledges \ {s} |-> Pledges[x]]
    BY <1>7, <1>10
  <2>3. Promise!Claim(s)
    BY <1>4, <1>6, <1>7, <1>8, <2>1, <2>2 DEF Promise!Claim, Promise!End, Pledges
  <2> QED
    BY <1>5, <2>3
<1> QED
  BY <1>5, <1>9, <1>10

LEMMA CancelCancels ==
  ASSUME IInv, Suspended, NEW s \in DOMAIN stream, CancelTokenStream(s, token_mint[s])
  PROVE  Suspended' /\ Promise!Cancel(s)
<1>1. s \in Streams /\ stream[s].sender \in Senders /\ token_mint[s] \in Mints
  BY DEF IInv, StreamsOK, StreamRecord
<1>2. PICK n \in Mints : n = token_mint[s]
  BY <1>1
<1>3. PICK k \in Keys : k = <<stream[s].sender, n>>
  BY <1>1 DEF Keys
<1>4. /\ EndStream(s, k)
      /\ PayTokens(stream[s], n, CancelAmount(stream[s]))
      /\ StreamsOK /\ reserve \in [Keys -> U64]
      /\ UNCHANGED <<feeData, now>>
  BY <1>2, <1>3 DEF CancelTokenStream, IInv, lamportVars, feeVars
<1>5. /\ Suspended' /\ Kept(s, k, Keys) /\ s \notin DOMAIN stream'
      /\ now < stream[s].end_time
      /\ Due(stream[s], now, CancelAmount(stream[s]))
  BY <1>1, <1>4, CancelPromise
<1>6. Promise!Pay(s)
  BY <1>2, <1>4, <1>5, PaymentPays
<1>7. /\ DOMAIN Pledges' \ {s} = DOMAIN Pledges \ {s} /\ s \in DOMAIN Pledges
      /\ s \notin DOMAIN Pledges'
      /\ \A x \in DOMAIN Pledges \ {s} : Pledges'[x] = Pledges[x]
      /\ Pledges = [x \in DOMAIN Pledges |-> Pledges[x]]
      /\ Pledges' = [x \in DOMAIN Pledges' |-> Pledges'[x]]
      /\ Pledges[s] = Promised(stream[s], now, k)
  <2>1. CancelTokenStream(s, n)
    BY <1>2
  <2>2. PICK sd \in Senders : Touches(s, sd, n) /\ InOwnMint(s, n)
    BY <1>1, <1>2, <2>1, CancelKeeps
  <2>3. k = <<sd, n>>
    BY <1>3, <2>2 DEF Touches
  <2> QED
    BY <1>4, <1>5, <2>2, <2>3, OthersKept
<1>8. now < Pledges[s].end
  BY <1>5, <1>7 DEF Promised
<1>9. Pledges[s].cancellable
  <2>1. Promised(stream[s], now, k).cancellable = stream[s].can_cancel
    BY Zenon DEF Promised
  <2>2. stream[s].can_cancel
    BY <1>4 DEF EndStream, EndPasses, Cancellable
  <2> QED
    BY <1>7, <2>1, <2>2
<1>10. Pledges' = [x \in DOMAIN Pledges \ {s} |-> Pledges[x]]
  BY <1>7
<1> QED
  BY <1>4, <1>5, <1>6, <1>7, <1>8, <1>9, <1>10 DEF Promise!Cancel, Promise!End, Pledges

LEMMA NothingMoves ==
  ASSUME Suspended, UNCHANGED <<now, stream, token_mint>>
  PROVE  Suspended' /\ UNCHANGED <<now, Pledges>>
<1>1. Suspended'
  BY DEF Suspended, PausedSince
<1>2. UNCHANGED Pledges
  BY PledgesAre
<1> QED
  BY <1>1, <1>2

(* Deposits and withdrawals move the sender's money, and no promise.       *)
LEMMA VaultMoves ==
  ASSUME IInv, IInv', Suspended, NEW k \in Keys, NEW v, SetVault(k, v),
         UNCHANGED <<now, stream, token_mint>>
  PROVE  Suspended' /\ Promise!MoveFunds(k)
<1>1. Suspended' /\ UNCHANGED Pledges
  BY NothingMoves
<1>2. Funds' = [Funds EXCEPT ![k] = v]
  BY FundsStep
<1>3. Funds'[k] \in Nat
  <2>1. Funds'[k] = tokenVault'[k] /\ k \in DOMAIN tokenVault'
    BY DEF SetVault, Funds, Keys, Balance
  <2> QED
    BY <2>1, UtilsAssumption DEF IInv, U64
<1>4. Funds' = [Funds EXCEPT ![k] = Funds'[k]]
  BY <1>2 DEF Funds, Keys
<1> QED
  BY <1>1, <1>3, <1>4 DEF Promise!MoveFunds, Pledges, Funds

LEMMA TakeMoves ==
  ASSUME IInv, IInv', Suspended, NEW sd \in Senders, NEW n \in Mints, NEW u, NEW a,
         TakeTokens(sd, n, u, a)
  PROVE  Suspended' /\ \E k \in Keys : Promise!MoveFunds(k)
<1>1. PICK k \in Keys : k = <<sd, n>>
  BY DEF Keys
<1>2. /\ k \in DOMAIN tokenVault
      /\ tokenVault' = [tokenVault EXCEPT ![k] = tokenVault[k] - a]
      /\ UNCHANGED <<now, stream, token_mint>>
  BY <1>1 DEF TakeTokens, lamportVars
<1>3. SetVault(k, tokenVault[k] - a)
  <2>1. DOMAIN tokenVault \cup {k} = DOMAIN tokenVault /\ tokenVault \in [DOMAIN tokenVault -> U64]
    BY <1>2 DEF IInv
  <2> QED
    BY <1>2, <2>1 DEF SetVault
<1> QED
  BY <1>2, <1>3, VaultMoves

-----------------------------------------------------------------------------
(* The refinement                                                          *)

LEMMA StepRefines ==
  ASSUME IInv, Suspended, OwnMintNext, RunningWhenRevised
  PROVE  /\ Suspended'
         /\ Promise!Next \/ UNCHANGED <<now, Pledges, Funds>>
<1> USE StreamAssumption
<1> DEFINE Same == UNCHANGED <<now, Pledges, Funds>>
<1>0. IInv'
  BY OwnMintStep
<1>a. Promise!Next <=>
        \/ Promise!Pass
        \/ \E s \in Streams : \/ Promise!Open(s) \/ Promise!Revise(s) \/ Promise!Toggle(s)
                              \/ Promise!Claim(s) \/ Promise!Cancel(s)
        \/ \E k \in Keys : Promise!MoveFunds(k)
  BY DEF Promise!Next, Keys
<1>1. CASE Tick
  BY <1>1, <1>a, TickPasses
<1>2. CASE UNCHANGED <<now, stream, token_mint, tokenVault>>
  BY <1>2, NothingMoves, FundsSame
<1>3. ASSUME NEW sd \in Senders, NEW n \in Mints, NEW a \in DepositAmounts,
             DepositToken(sd, n, a)
      PROVE  Suspended' /\ Promise!Next
  <2>1. PICK k \in Keys : k = <<sd, n>>
    BY DEF Keys
  <2>2. SetVault(k, Balance(k) + a) /\ UNCHANGED <<now, stream, token_mint>>
    BY <1>3, <2>1 DEF DepositToken
  <2> QED
    BY <1>0, <1>a, <2>2, VaultMoves
<1>4. ASSUME NEW sd \in Senders, NEW n \in Mints, NEW u, NEW a, TakeTokens(sd, n, u, a)
      PROVE  Suspended' /\ Promise!Next
  BY <1>0, <1>4, <1>a, TakeMoves
<1>5. ASSUME NEW u, NEW n, NEW w, NEW a, SendTokenDirectly(u, n, w, a)
      PROVE  Suspended' /\ Same
  BY <1>2, <1>5, NothingMoves, FundsSame DEF SendTokenDirectly, lamportVars
<1>6. ASSUME NEW f, NEW n, WithdrawFeesToken(f, n)
      PROVE  Suspended' /\ Same
  BY <1>6, NothingMoves, FundsSame DEF WithdrawFeesToken, lamportVars
<1>7. ASSUME NEW sd \in Senders, NEW n \in Mints, NEW s \in Streams, NEW r \in Receivers,
             NEW f \in FeeOwners, NEW t1 \in StreamTimes, NEW t2 \in StreamTimes,
             NEW a \in StreamAmounts, NEW cc \in CanCancel, NEW cu \in CanUpdate,
             OpenTokenStream(s, sd, n, r, f, t1, t2, a, cc, cu)
      PROVE  Suspended' /\ Promise!Next
  BY <1>7, <1>a, OpenOpens
<1>8. ASSUME NEW s \in Streams, NEW t1 \in StreamTimes, NEW t2 \in StreamTimes,
             NEW a \in StreamAmounts, UpdateTokenStream(s, t1, t2, a)
      PROVE  Suspended' /\ (Promise!Next \/ Same)
  BY <1>8, <1>a, UpdateRevises
<1>9. ASSUME NEW s \in Streams, WithdrawTokenStream(s) \/ PauseResumeTokenStream(s)
      PROVE  Suspended' /\ Promise!Next
  BY <1>9, <1>a, WithdrawClaims, PauseToggles
<1>10. ASSUME NEW s \in DOMAIN stream, CancelTokenStream(s, token_mint[s])
       PROVE  Suspended' /\ Promise!Next
  <2>1. s \in Streams
    BY DEF IInv, StreamsOK
  <2> QED
    BY <1>10, <1>a, <2>1, CancelCancels
<1> QED
  BY <1>1, <1>2, <1>3, <1>4, <1>5, <1>6, <1>7, <1>8, <1>9, <1>10
     DEF OwnMintNext, NextButCancel, TokenWithdrawal, InstantTokenTransfer

(* The token streams keep the promise of module StreamPromise, if no       *)
(* stream is updated while it is paused and cancellations name the         *)
(* stream's mint: every claim and every cancellation pays, out of the      *)
(* vault of that mint alone, exactly what the running time has earned.     *)
THEOREM Refines == CarefulSpec => PromiseKept
<1>1. Init => Suspended /\ Promise!Init
  BY DEF Init, Suspended, Promise!Init, Balance
<1>2. IInv /\ Suspended /\ [OwnMintNext /\ RunningWhenRevised]_vars => IInv' /\ Suspended'
  <2>1. ASSUME IInv, Suspended, UNCHANGED vars PROVE IInv' /\ Suspended'
    BY <2>1, StutterKeeps, NothingMoves DEF vars
  <2> QED
    BY <2>1, OwnMintStep, StepRefines
<1>3. IInv /\ Suspended /\ [OwnMintNext /\ RunningWhenRevised]_vars
        => [Promise!Next]_(Promise!vars)
  <2>1. ASSUME IInv, Suspended, UNCHANGED vars PROVE UNCHANGED <<now, Pledges, Funds>>
    BY <2>1, NothingMoves, FundsSame DEF vars
  <2>2. UNCHANGED <<now, Pledges, Funds>> => UNCHANGED Promise!vars
    BY DEF Promise!vars, Pledges, Funds
  <2> QED
    BY <2>1, <2>2, StepRefines
<1> QED
  BY <1>1, <1>2, <1>3, IInvInit, PTL DEF CarefulSpec, PromiseKept, Promise!Spec

=============================================================================
