---------------------------- MODULE TokenStream -----------------------------
(***************************************************************************)
(* Token streams (token_stream/mod.rs): the streams of StreamTerms, paid   *)
(* in SPL tokens.  A sender has a vault and a withdraw_data account for    *)
(* each mint.  An instruction names the mint, and its accounts must match  *)
(* the mint of the stream, except in cancel_token_stream, which takes any. *)
(***************************************************************************)
EXTENDS StreamTerms

CONSTANTS
  Mints,           \* the tokens
  InitialTokens    \* balance of each user and mint in the initial state

ASSUME TokenAssumption ==
  /\ IsFiniteSet(Mints)
  /\ InitialTokens \in [Users \X Mints -> U64]

VARIABLES
  token_mint,   \* the mint recorded in each data account
  tokens,       \* balance of the token account of each user and mint
  tokenVault,   \* balance of the vault of each sender and mint, if it exists
  feeTokens     \* balance of the token account of each fee vault and mint

vars == <<wallet, feeVars, now, stream, reserve, vault,
          token_mint, tokens, tokenVault, feeTokens>>

TypeOK ==
  /\ FeeTypeOK
  /\ now \in U64
  /\ DOMAIN stream \subseteq Streams
  /\ stream = [s \in DOMAIN stream |-> stream[s]]
  /\ \A s \in DOMAIN stream :
       stream[s] \in StreamRecord /\ stream[s].fee_owner \in DOMAIN feeData
  /\ token_mint \in [DOMAIN stream -> Mints]
  /\ reserve \in [Senders \X Mints -> U64]
  /\ vault \in [Senders -> U64]
  /\ tokens \in [Users \X Mints -> U64]
  /\ DOMAIN tokenVault \subseteq Senders \X Mints
  /\ tokenVault \in [DOMAIN tokenVault -> U64]
  /\ feeTokens \in [FeeOwners \X Mints -> U64]

Init ==
  /\ wallet = InitialWallet
  /\ FeeInit
  /\ now = 0
  /\ stream = [s \in {} |-> 0]
  /\ token_mint = [s \in {} |-> 0]
  /\ reserve = [k \in Senders \X Mints |-> 0]
  /\ vault = [sd \in Senders |-> 0]
  /\ tokens = InitialTokens
  /\ tokenVault = [k \in {} |-> 0]
  /\ feeTokens = [k \in FeeOwners \X Mints |-> 0]

lamportVars == <<wallet, feeVars, now, vault>>

-----------------------------------------------------------------------------
(* Balances.  A vault that does not exist counts as empty where it is      *)
(* created if needed.                                                      *)
Balance(k) == IF k \in DOMAIN tokenVault THEN tokenVault[k] ELSE 0

SetVault(k, amount) ==
  tokenVault' = [x \in DOMAIN tokenVault \cup {k} |->
                   IF x = k THEN amount ELSE tokenVault[x]]

(* Key of the accounts that belong to the stream's own mint.               *)
Key(s) == <<stream[s].sender, token_mint[s]>>

PaymentPasses(st, m, amount) ==
  LET comission == CalculateComission(st.fee_percentage, amount)
      receiver_amount == ReceiverAmount(amount, comission)
  IN  /\ amount <= Balance(<<st.sender, m>>)
      /\ ComissionFits(st.fee_percentage, amount)
      /\ Fits(receiver_amount)
      /\ Fits(tokens[<<st.receiver, m>>] + receiver_amount)
      /\ Fits(feeTokens[<<st.fee_owner, m>>] + comission)

(* Pay `amount` tokens of m out of the sender's vault: the receiver gets   *)
(* it less the commission, which goes to the fee vault's token account.    *)
PayTokens(st, m, amount) ==
  LET k == <<st.sender, m>>
      comission == CalculateComission(st.fee_percentage, amount)
      receiver_amount == ReceiverAmount(amount, comission)
  IN  /\ PaymentPasses(st, m, amount)
      /\ SetVault(k, Balance(k) - amount)
      /\ tokens' = [tokens EXCEPT ![<<st.receiver, m>>] = @ + receiver_amount]
      /\ feeTokens' = [feeTokens EXCEPT ![<<st.fee_owner, m>>] = @ + comission]

MintsOfLiveStreams == token_mint' = [s \in DOMAIN stream' |-> token_mint[s]]

-----------------------------------------------------------------------------
(* Instructions                                                            *)

(* Creates the vaults if needed, for SOL and for the mint; the rent of the *)
(* SOL vault is the sender's.                                              *)
DepositToken(sd, m, amount) ==
  /\ amount <= tokens[<<sd, m>>]
  /\ Fits(Balance(<<sd, m>>) + amount)
  /\ VaultRent(sd) <= wallet[sd]
  /\ Fits(vault[sd] + VaultRent(sd))
  /\ wallet' = [wallet EXCEPT ![sd] = @ - VaultRent(sd)]
  /\ vault' = [vault EXCEPT ![sd] = @ + VaultRent(sd)]
  /\ tokens' = [tokens EXCEPT ![<<sd, m>>] = @ - amount]
  /\ SetVault(<<sd, m>>, Balance(<<sd, m>>) + amount)
  /\ UNCHANGED <<feeVars, now, stream, reserve, token_mint, feeTokens>>

OpenTokenStream(s, sd, m, r, f, start_time, end_time, amount, can_cancel, can_update) ==
  /\ StartStream(s, <<sd, m>>, f, sd, r, start_time, end_time, amount,
                 can_cancel, can_update)
  /\ token_mint' = [x \in DOMAIN stream' |-> IF x = s THEN m ELSE token_mint[x]]
  /\ UNCHANGED <<lamportVars, tokens, tokenVault, feeTokens>>

UpdateTokenStream(s, start_time, end_time, amount) ==
  /\ ReviseStream(s, Key(s), start_time, end_time, amount)
  /\ UNCHANGED <<lamportVars, token_mint, tokens, tokenVault, feeTokens>>

(* A claim does not create the vault.                                      *)
WithdrawPasses(s) ==
  /\ ClaimPasses(s, Key(s))
  /\ Key(s) \in DOMAIN tokenVault
  /\ PaymentPasses(stream[s], token_mint[s], ClaimAmount(stream[s]))

WithdrawTokenStream(s) ==
  /\ ClaimStream(s, Key(s))
  /\ Key(s) \in DOMAIN tokenVault
  /\ PayTokens(stream[s], token_mint[s], ClaimAmount(stream[s]))
  /\ MintsOfLiveStreams
  /\ UNCHANGED lamportVars

PauseResumeTokenStream(s) ==
  /\ ToggleStream(s, Key(s))
  /\ UNCHANGED <<lamportVars, token_mint, tokens, tokenVault, feeTokens>>

(* The accounts are those of the mint m the sender names.                  *)
CancelPasses(s, m) ==
  /\ EndPasses(s, <<stream[s].sender, m>>)
  /\ PaymentPasses(stream[s], m, CancelAmount(stream[s]))

CancelTokenStream(s, m) ==
  /\ EndStream(s, <<stream[s].sender, m>>)
  /\ PayTokens(stream[s], m, CancelAmount(stream[s]))
  /\ MintsOfLiveStreams
  /\ UNCHANGED lamportVars

(* Tokens leave the vault for `u`, unless they are owed to streams.        *)
TakeTokens(sd, m, u, amount) ==
  LET k == <<sd, m>>
  IN  /\ k \in DOMAIN tokenVault
      /\ amount <= tokenVault[k]
      /\ Covered(k, tokenVault[k], amount)
      /\ Fits(tokens[<<u, m>>] + amount)
      /\ tokenVault' = [tokenVault EXCEPT ![k] = @ - amount]
      /\ tokens' = [tokens EXCEPT ![<<u, m>>] = @ + amount]
      /\ UNCHANGED <<lamportVars, stream, reserve, token_mint, feeTokens>>

TokenWithdrawal(sd, m, amount) == TakeTokens(sd, m, sd, amount)

InstantTokenTransfer(sd, m, r, amount) == TakeTokens(sd, m, r, amount)

SendTokenDirectly(u, m, v, amount) ==
  LET debited == [tokens EXCEPT ![<<u, m>>] = @ - amount]
  IN  /\ amount <= tokens[<<u, m>>]
      /\ Fits(debited[<<v, m>>] + amount)
      /\ tokens' = [debited EXCEPT ![<<v, m>>] = @ + amount]
      /\ UNCHANGED <<lamportVars, stream, reserve, token_mint, tokenVault, feeTokens>>

(* The fee vault only signs: whether it still holds lamports is no matter. *)
WithdrawFeesToken(f, m) ==
  /\ f \in DOMAIN feeData
  /\ Fits(tokens[<<f, m>>] + feeTokens[<<f, m>>])
  /\ tokens' = [tokens EXCEPT ![<<f, m>>] = @ + feeTokens[<<f, m>>]]
  /\ feeTokens' = [feeTokens EXCEPT ![<<f, m>>] = 0]
  /\ UNCHANGED <<lamportVars, stream, reserve, token_mint, tokenVault>>

Tick ==
  /\ ClockMoves
  /\ UNCHANGED <<wallet, feeVars, stream, reserve, vault,
                 token_mint, tokens, tokenVault, feeTokens>>

NextButCancel ==
  \/ Tick
  \/ /\ FeeNext
     /\ UNCHANGED <<now, stream, reserve, vault, token_mint, tokens, tokenVault, feeTokens>>
  \/ \E f \in FeeOwners, m \in Mints : WithdrawFeesToken(f, m)
  \/ \E sd \in Senders, m \in Mints :
       \/ \E a \in DepositAmounts : DepositToken(sd, m, a)
       \/ \E a \in TransferAmounts :
            \/ TokenWithdrawal(sd, m, a)
            \/ \E r \in Receivers :
                 InstantTokenTransfer(sd, m, r, a) \/ SendTokenDirectly(sd, m, r, a)
       \/ \E s \in Streams, r \in Receivers, f \in FeeOwners,
             t1, t2 \in StreamTimes, a \in StreamAmounts,
             cc \in CanCancel, cu \in CanUpdate :
            OpenTokenStream(s, sd, m, r, f, t1, t2, a, cc, cu)
  \/ \E s \in Streams :
       \/ \E t1, t2 \in StreamTimes, a \in StreamAmounts :
            UpdateTokenStream(s, t1, t2, a)
       \/ WithdrawTokenStream(s) \/ PauseResumeTokenStream(s)

Next ==
  \/ NextButCancel
  \/ \E s \in Streams, m \in Mints : CancelTokenStream(s, m)

Spec == Init /\ [][Next]_vars

(* Senders who name the stream's own mint when they cancel.                *)
OwnMintNext ==
  \/ NextButCancel
  \/ \E s \in DOMAIN stream : CancelTokenStream(s, token_mint[s])

OwnMintSpec == Init /\ [][OwnMintNext]_vars

-----------------------------------------------------------------------------
(* Properties                                                              *)

(* The streams of sd in the given mints.                                   *)
StreamsOf(sd, mints) ==
  {s \in DOMAIN stream : stream[s].sender = sd /\ token_mint[s] \in mints}

(* Whatever mint a cancellation names, the reserves of a sender in all     *)
(* mints together are what all the sender's streams are owed.              *)
ReservesAddUp ==
  \A sd \in Senders :
    Total([m \in Mints |-> reserve[<<sd, m>>]]) = OwedTo(StreamsOf(sd, Mints))

(* Each withdraw_data account is the sum of what the streams of its mint   *)
(* are owed, as long as cancellations name the stream's mint.              *)
ReserveOfMintExact ==
  \A sd \in Senders, m \in Mints :
    reserve[<<sd, m>>] = OwedTo(StreamsOf(sd, {m}))

InMint(balance, m) ==
  Total([k \in {k \in DOMAIN balance : k[2] = m} |-> balance[k]])

(* External: the supply of a mint is a u64.                                *)
ASSUME TokenSupplyAssumption == \A m \in Mints : InMint(InitialTokens, m) <= MaxU64

(* No instruction turns tokens of one mint into another's, creates or      *)
(* loses any.                                                              *)
TokensConserved ==
  \A m \in Mints :
    InMint(tokens, m) + InMint(tokenVault, m) + InMint(feeTokens, m)
      = InMint(InitialTokens, m)

(* The vault of the stream's mint covers its reserve, and the commission   *)
(* of the whole amount is a u64.  The SOL vaults do not matter.            *)
Backed(s) ==
  /\ Key(s) \in DOMAIN tokenVault
  /\ tokenVault[Key(s)] >= reserve[Key(s)]
  /\ ComissionFits(stream[s].fee_percentage, stream[s].amount)

(* A stream whose sender keeps the vault covered can be claimed once it    *)
(* started and cancelled while cancellable, whatever the other streams,    *)
(* mints and the owner of the fee vault did in between.  A cancellation    *)
(* also adds up the stream's whole amount and what the other streams of    *)
(* the mint are owed.                                                      *)
BackedPays ==
  \A s \in DOMAIN stream :
    LET st == stream[s]
    IN  Backed(s) =>
          /\ now > st.start_time => WithdrawPasses(s)
          /\ /\ Cancellable(st)
             /\ Fits(st.amount + OwedTo(StreamsOf(st.sender, {token_mint[s]}) \ {s}))
             => CancelPasses(s, token_mint[s])

(* A vault that covers its reserve goes on covering it.                    *)
BackedStaysBacked ==
  [][\A k \in DOMAIN tokenVault :
       tokenVault[k] >= reserve[k] /\ reserve'[k] <= reserve[k]
         => tokenVault'[k] >= reserve'[k]]_vars

(* What a sender may withdraw leaves in the vault what the streams of its  *)
(* mint are owed.                                                          *)
WithdrawalLeavesOwed ==
  [][\A sd \in Senders, m \in Mints :
       (\E a \in TransferAmounts : TokenWithdrawal(sd, m, a))
         => tokenVault'[<<sd, m>>] >= OwedTo(StreamsOf(sd, {m}))]_vars

(* From the end on, a stream that is not paused pays everything if the     *)
(* vault has it.                                                           *)
EndedStreamPays ==
  \A s \in DOMAIN stream :
    /\ now >= stream[s].end_time /\ stream[s].paused = 0
    /\ Key(s) \in DOMAIN tokenVault
    /\ tokenVault[Key(s)] >= reserve[Key(s)]
      => WithdrawPasses(s)
=============================================================================
