---------------------------- MODULE StreamTerms -----------------------------
(***************************************************************************)
(* What the two kinds of streams have in common.  The handlers for SOL     *)
(* (native_stream/mod.rs) and for tokens (token_stream/mod.rs) repeat the  *)
(* same record, schedule and arithmetic; only the accounts they move money *)
(* between, and the accounts they count it in, differ.                     *)
(***************************************************************************)
EXTENDS FeeAccount

CONSTANTS
  Senders, Receivers,       \* users who open streams, users who are paid
  Streams,                  \* addresses of stream data accounts
  MaxTime,                  \* bound: the clock stops here
  InitialWallet,            \* lamports of each user in the initial state
  StreamTimes,              \* start_time and end_time arguments tried
  StreamAmounts,            \* amount arguments of streams tried
  DepositAmounts,           \* ... of deposits
  TransferAmounts,          \* ... of withdrawals and transfers by the sender
  CanCancel, CanUpdate      \* flags a stream may be created with

ASSUME StreamAssumption ==
  /\ IsFiniteSet(Streams)
  /\ Senders \subseteq Users /\ Receivers \subseteq Users
  /\ MaxTime \in U64
  /\ InitialWallet \in [Users -> U64]
  /\ StreamTimes \subseteq U64
  /\ StreamAmounts \subseteq U64
  /\ DepositAmounts \subseteq U64
  /\ TransferAmounts \subseteq U64
  /\ CanCancel \subseteq BOOLEAN /\ CanUpdate \subseteq BOOLEAN

VARIABLES
  now,        \* unix_timestamp of the Clock sysvar
  stream,     \* the Stream or StreamToken record of each data account
  reserve,    \* amount of each withdraw_data account: what streams are owed
  vault       \* lamports of the sender's zebec_vault; 0 if there is none

StreamRecord ==
  [start_time : U64, end_time : U64, amount : U64, paused : {0, 1},
   withdraw_limit : U64, sender : Senders, receiver : Receivers,
   withdrawn : U64, paused_at : U64, fee_owner : FeeOwners,
   fee_percentage : 0 .. FeeScale, paused_amt : U64,
   can_cancel : BOOLEAN, can_update : BOOLEAN]

-----------------------------------------------------------------------------
(* What a stream has to give                                               *)

(* (Faulty... definitions: see FeeAccount.)                                *)

FaultyVested(st, t) == IF t > st.end_time THEN st.amount ELSE AllowedAmt(st, t + 1)

(* The released amount: the schedule, and everything from the end on.      *)
Vested(st, t) == IF t >= st.end_time THEN st.amount ELSE AllowedAmt(st, t)

FaultyLimit(st, released) == released

(* While a stream is paused, the limit recorded by the pause counts.       *)
Limit(st, released) == IF st.paused = 1 THEN st.withdraw_limit ELSE released

(* The two checked_sub that turn the limit into what is payable now.       *)
PayableFits(st, released) ==
  /\ Fits(Limit(st, released) - st.paused_amt)
  /\ Fits(Limit(st, released) - st.paused_amt - st.withdrawn)

Payable(st, released) ==
  Limit(st, released) - st.paused_amt - st.withdrawn

FaultyMissed(st) == AllowedAmt(st, now)

(* What a paused stream would have released since it was paused.           *)
Missed(st) == AllowedAmt(st, now) - AllowedAmt(st, st.paused_at)

FaultySettled(st) == st.paused = 1

NeverSettled(st) == FALSE

(* A paused stream past its end can not be resumed any more: the next      *)
(* claim is the last, and the rest of the amount is no longer owed.        *)
Settled(st) == st.paused = 1 /\ now > st.end_time

FaultyDeduction(st, allowed, transfered) == allowed

(* How much less is owed after a claim of `allowed`.                       *)
Deduction(st, allowed, transfered) ==
  IF Settled(st) THEN st.amount - transfered + allowed ELSE allowed

FaultyReceiverAmount(amount, comission) == amount

ReceiverAmount(amount, comission) == amount - comission

-----------------------------------------------------------------------------
(* How the handlers change a stream, and the withdraw_data account k that  *)
(* counts it                                                               *)

NewStream(f, sd, r, start_time, end_time, amount, can_cancel, can_update) ==
  [start_time |-> start_time, end_time |-> end_time, amount |-> amount,
   paused |-> 0, withdraw_limit |-> 0, sender |-> sd, receiver |-> r,
   withdrawn |-> 0, paused_at |-> 0, fee_owner |-> f,
   fee_percentage |-> feeData[f], paused_amt |-> 0,
   can_cancel |-> can_cancel, can_update |-> can_update]

StartStream(s, k, f, sd, r, start_time, end_time, amount, can_cancel, can_update) ==
  /\ s \notin DOMAIN stream
  /\ f \in DOMAIN feeData
  /\ CheckOverflow(now, start_time, end_time)
  /\ Fits(reserve[k] + amount)
  /\ stream' = [x \in DOMAIN stream \cup {s} |->
       IF x # s THEN stream[x]
       ELSE NewStream(f, sd, r, start_time, end_time, amount, can_cancel, can_update)]
  /\ reserve' = [reserve EXCEPT ![k] = @ + amount]

FaultyUpdatable(st) == st.can_update /\ now < st.end_time

Updatable(st) == st.can_update /\ now <= st.start_time

ReviseStream(s, k, start_time, end_time, amount) ==
  LET st == stream[s]
  IN  /\ s \in DOMAIN stream
      /\ CheckOverflow(now, start_time, end_time)
      /\ Updatable(st)
      /\ Fits(reserve[k] - st.amount)
      /\ Fits(reserve[k] - st.amount + amount)
      /\ reserve' = [reserve EXCEPT ![k] = @ - st.amount + amount]
      /\ stream' = [stream EXCEPT ![s].start_time = start_time,
                                  ![s].end_time = end_time,
                                  ![s].amount = amount]

CloseAccount(s) == [x \in DOMAIN stream \ {s} |-> stream[x]]

ClaimAmount(st) == Payable(st, Vested(st, now))

(* What is paid and written off after a claim; a plain u64 sum.            *)
Transfered(st) == WrapU64(st.withdrawn + ClaimAmount(st) + st.paused_amt)

ClaimDeduction(st) == Deduction(st, ClaimAmount(st), Transfered(st))

(* The checks of a claim.  (A handler is split into its checks, here and   *)
(* in the definitions ...Passes below, and what it does when they pass, so *)
(* that a property can say that no check stands in the way.)               *)
ClaimPasses(s, k) ==
  LET st == stream[s]
  IN  /\ s \in DOMAIN stream
      /\ now > st.start_time
      /\ PayableFits(st, Vested(st, now))
      /\ Fits(st.withdrawn + ClaimAmount(st))
      /\ Settled(st) => Fits(st.amount - Transfered(st)) /\ Fits(ClaimDeduction(st))
      /\ Fits(reserve[k] - ClaimDeduction(st))

(* A claim by the receiver.  It closes a settled stream, and one with      *)
(* nothing left to pay.                                                    *)
ClaimStream(s, k) ==
  LET st == stream[s]
  IN  /\ ClaimPasses(s, k)
      /\ stream' = IF Settled(st) \/ Transfered(st) >= st.amount
                     THEN CloseAccount(s)
                     ELSE [stream EXCEPT ![s].withdrawn = @ + ClaimAmount(st)]
      /\ reserve' = [reserve EXCEPT ![k] = @ - ClaimDeduction(st)]

TogglePasses(s, k) ==
  LET st == stream[s]
      missed == Missed(st)
  IN  /\ s \in DOMAIN stream
      /\ st.start_time <= now /\ now < st.end_time
      /\ st.paused = 1 =>
           /\ Fits(missed)
           /\ Fits(st.paused_amt + missed)
           /\ Fits(reserve[k] - missed)

(* The sender toggles the pause.  Resuming writes off what would have been *)
(* released while the stream was paused.                                   *)
ToggleStream(s, k) ==
  LET st == stream[s]
      missed == Missed(st)
  IN  /\ TogglePasses(s, k)
      /\ \/ /\ st.paused = 1
            /\ stream' = [stream EXCEPT ![s].paused_amt = @ + missed,
                                        ![s].paused = 0,
                                        ![s].paused_at = 0]
            /\ reserve' = [reserve EXCEPT ![k] = @ - missed]
         \/ /\ st.paused # 1
            /\ stream' = [stream EXCEPT ![s].paused = 1,
                                        ![s].withdraw_limit = AllowedAmt(st, now),
                                        ![s].paused_at = now]
            /\ UNCHANGED reserve

FaultyCancellable(st) == now < st.end_time

Cancellable(st) == st.can_cancel /\ now < st.end_time

CancelAmount(st) ==
  IF now < st.start_time THEN 0 ELSE Payable(st, AllowedAmt(st, now))

(* As if the payment were counted as withdrawn before the reserve is       *)
(* adjusted.                                                               *)
FaultyEndPasses(s, k) ==
  LET st == stream[s]
      withdrawn == st.withdrawn + CancelAmount(st)
  IN  /\ s \in DOMAIN stream
      /\ Cancellable(st)
      /\ PayableFits(st, AllowedAmt(st, now))
      /\ Fits(reserve[k] + withdrawn)
      /\ Fits(reserve[k] + withdrawn + st.paused_amt)
      /\ Fits(reserve[k] + withdrawn + st.paused_amt - st.amount)

EndPasses(s, k) ==
  LET st == stream[s]
  IN  /\ s \in DOMAIN stream
      /\ Cancellable(st)
      /\ PayableFits(st, AllowedAmt(st, now))
      /\ Fits(reserve[k] + st.withdrawn)
      /\ Fits(reserve[k] + st.withdrawn + st.paused_amt)
      /\ Fits(reserve[k] + st.withdrawn + st.paused_amt - st.amount)

EndStream(s, k) ==
  LET st == stream[s]
  IN  /\ EndPasses(s, k)
      /\ reserve' = [reserve EXCEPT ![k] = @ + st.withdrawn + st.paused_amt - st.amount]
      /\ stream' = CloseAccount(s)

FaultyCovered(k, balance, amount) == reserve[k] = 0 \/ balance >= reserve[k]

(* What remains in a vault covers what is owed to streams, if anything.    *)
Covered(k, balance, amount) == reserve[k] = 0 \/ balance - amount >= reserve[k]

(* External: the Clock sysvar moves on between transactions.               *)
ClockMoves == now < MaxTime /\ now' = now + 1

(* The rent a deposit has to add when it finds no vault.                   *)
VaultRent(sd) == IF vault[sd] = 0 THEN RentExemptMin ELSE 0

(* The part of the stream's amount that was neither paid nor written off.  *)
Owed(st) == st.amount - st.withdrawn - st.paused_amt

(* The sum of the u64s that f maps to, counted unit by unit: the pairs of  *)
(* an element of the domain and a number up to its value.                  *)
Units(f) == {u \in (DOMAIN f) \X (1 .. MaxU64) : u[2] <= f[u[1]]}

Total(f) == Cardinality(Units(f))

(* External: all the lamports there are make a u64.                        *)
ASSUME SupplyAssumption == Total(InitialWallet) <= MaxU64

OwedTo(streams) == Total([s \in streams |-> Owed(stream[s])])

(* What the receiver has earned is never less than what was paid plus what *)
(* was written off, whatever the interleaving of claims, pauses and        *)
(* resumptions: the checked_sub of the handlers never fail.                *)
SettlementFits ==
  \A s \in DOMAIN stream :
    LET st == stream[s]
    IN  now > st.start_time =>
          st.withdrawn + st.paused_amt <= Limit(st, Vested(st, now))

-----------------------------------------------------------------------------
(* Streams and promises                                                    *)

Terms(st) == <<st.start_time, st.end_time, st.amount>>

(* Senders who do not change the terms of a stream they have paused.       *)
RunningWhenRevised ==
  \A s \in DOMAIN stream \cap DOMAIN stream' :
    Terms(stream'[s]) # Terms(stream[s]) => stream[s].paused = 0

(* The promise (module StreamPromise) a stream stands for, paid from k.    *)
Abstract(st, k) ==
  LET released == IF now <= st.start_time THEN 0 ELSE Vested(st, now)
      earned == Limit(st, released) - st.paused_amt
  IN  [start |-> st.start_time, end |-> st.end_time, total |-> st.amount,
       sender |-> k, cancellable |-> st.can_cancel,
       running |-> st.paused = 0,
       earned |-> earned,
       missed |-> released - earned,
       paid |-> st.withdrawn]
=============================================================================
