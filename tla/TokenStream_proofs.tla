------------------------- MODULE TokenStream_proofs -------------------------
(***************************************************************************)
(* Proofs about the token streams: the inductive invariant of the streams  *)
(* and balances of all mints, and what follows from it for every word      *)
(* size, fee scale, clock bound and set of users, mints, streams and       *)
(* arguments.                                                              *)
(***************************************************************************)
EXTENDS TokenStream, StreamTerms_proofs

Keys == Senders \X Mints

UserKeys == Users \X Mints

FeeKeys == FeeOwners \X Mints

(* Every stream satisfies its own invariant, every balance is a u64.       *)
IInv ==
  /\ FeeTypeOK
  /\ StreamsOK
  /\ vault \in [Senders -> U64]
  /\ reserve \in [Keys -> U64]
  /\ token_mint \in [DOMAIN stream -> Mints]
  /\ tokens \in [UserKeys -> U64]
  /\ DOMAIN tokenVault \subseteq Keys
  /\ tokenVault \in [DOMAIN tokenVault -> U64]
  /\ feeTokens \in [FeeKeys -> U64]

LEMMA TypesFromIInv == IInv => TypeOK
  BY DEF IInv, StreamsOK, TypeOK, Keys, UserKeys, FeeKeys

-----------------------------------------------------------------------------
(* Balances of a mint                                                      *)

LEMMA KeysFinite ==
  /\ IsFiniteSet(Keys) /\ IsFiniteSet(UserKeys)
  /\ IsFiniteSet(FeeKeys)
  BY FS_Product, FeeOwnersFinite, FeeAssumption, TokenAssumption DEF Keys, UserKeys, FeeKeys

LEMMA InMintType ==
  ASSUME NEW f, IsFiniteSet(DOMAIN f), NEW m
  PROVE  InMint(f, m) \in Nat
<1> DEFINE S == {k \in DOMAIN f : k[2] = m}
<1>1. S \in SUBSET DOMAIN f
  OBVIOUS
<1>2. IsFiniteSet(S)
  BY <1>1, FS_Subset
<1> QED
  BY <1>2, TotalType DEF InMint

MintOf(k) == k[2]

(* What a change by d of the balance of k adds to the balances in mint m.  *)
InMintOf(k, m, d) == IF MintOf(k) = m THEN d ELSE 0

(* When one balance changes, its mint's sum changes as much, and no other. *)
LEMMA InMintStep ==
  ASSUME NEW f, NEW g, NEW x, IsFiniteSet(DOMAIN f),
         DOMAIN g \ {x} = DOMAIN f \ {x},
         \A y \in DOMAIN f \ {x} : g[y] = f[y],
         At(f, x) \in U64, At(g, x) \in U64, NEW m
  PROVE  InMint(g, m) = InMint(f, m) + InMintOf(x, m, At(g, x) - At(f, x))
<1> DEFINE S == {k \in DOMAIN f : k[2] = m}
           T == {k \in DOMAIN g : k[2] = m}
           a == [k \in S |-> f[k]]
           b == [k \in T |-> g[k]]
<1>1. IsFiniteSet(DOMAIN a)
  <2>1. S \in SUBSET DOMAIN f
    OBVIOUS
  <2> QED
    BY <2>1, FS_Subset
<1>2. InMint(f, m) = Total(a) /\ InMint(g, m) = Total(b)
  BY DEF InMint
<1>3. CASE MintOf(x) = m
  <2>1. At(a, x) = At(f, x) /\ At(b, x) = At(g, x)
    BY <1>3 DEF At, MintOf
  <2>2. DOMAIN b \ {x} = DOMAIN a \ {x} /\ \A y \in DOMAIN a \ {x} : b[y] = a[y]
    OBVIOUS
  <2> HIDE DEF a, b
  <2>3. Total(b) = Total(a) + At(b, x) - At(a, x)
    BY <1>1, <2>1, <2>2, TotalStep
  <2>4. Total(a) \in Nat /\ At(f, x) \in Nat /\ At(g, x) \in Nat
    BY <1>1, TotalType, UtilsAssumption DEF U64
  <2> QED
    BY <1>2, <1>3, <2>1, <2>3, <2>4 DEF InMintOf
<1>4. CASE MintOf(x) # m
  <2>1. DOMAIN b = DOMAIN a /\ \A y \in DOMAIN a : b[y] = a[y]
    BY <1>4 DEF MintOf
  <2> HIDE DEF a, b
  <2>2. Total(b) = Total(a) /\ Total(a) \in Nat
    BY <1>1, <2>1, TotalSame, TotalType
  <2> QED
    BY <1>2, <1>4, <2>2 DEF InMintOf
<1> QED
  BY <1>3, <1>4

LEMMA InMintExcept ==
  ASSUME NEW S, IsFiniteSet(S), NEW f \in [S -> U64],
         NEW x \in S, NEW v \in U64, NEW m
  PROVE  InMint([f EXCEPT ![x] = v], m)
           = InMint(f, m) + InMintOf(x, m, v - f[x])
<1> DEFINE g == [f EXCEPT ![x] = v]
<1>1. DOMAIN g = DOMAIN f /\ \A y \in DOMAIN f \ {x} : g[y] = f[y]
  OBVIOUS
<1>2. At(f, x) = f[x] /\ At(g, x) = v /\ f[x] \in U64
  BY DEF At
<1> HIDE DEF g
<1>3. InMint(g, m) = InMint(f, m) + InMintOf(x, m, At(g, x) - At(f, x))
  BY <1>1, <1>2, InMintStep
<1> QED
  BY <1>2, <1>3 DEF g

LEMMA VaultSet ==
  ASSUME IInv, NEW k \in Keys, NEW v \in U64, SetVault(k, v)
  PROVE  /\ DOMAIN tokenVault' = DOMAIN tokenVault \cup {k}
         /\ DOMAIN tokenVault' \subseteq Keys
         /\ tokenVault' \in [DOMAIN tokenVault' -> U64]
         /\ tokenVault'[k] = v
         /\ \A x \in DOMAIN tokenVault \ {k} : tokenVault'[x] = tokenVault[x]
         /\ Balance(k) \in U64
         /\ \A m : InMint(tokenVault', m)
                     = InMint(tokenVault, m) + InMintOf(k, m, v - Balance(k))
<1>1. /\ DOMAIN tokenVault' = DOMAIN tokenVault \cup {k}
      /\ tokenVault'[k] = v
      /\ \A x \in DOMAIN tokenVault \ {k} : tokenVault'[x] = tokenVault[x]
  BY DEF SetVault
<1>2. /\ DOMAIN tokenVault' \subseteq Keys
      /\ tokenVault' \in [DOMAIN tokenVault' -> U64]
  BY DEF SetVault, IInv
<1>3. Balance(k) \in U64 /\ Balance(k) = At(tokenVault, k) /\ At(tokenVault', k) = v
  BY <1>1, UtilsAssumption DEF Balance, At, IInv, U64
<1>4. IsFiniteSet(DOMAIN tokenVault)
  <2>1. DOMAIN tokenVault \in SUBSET Keys
    BY DEF IInv
  <2> QED
    BY <2>1, KeysFinite, FS_Subset
<1>5. ASSUME NEW m
      PROVE  InMint(tokenVault', m)
               = InMint(tokenVault, m) + InMintOf(k, m, v - Balance(k))
  <2>1. DOMAIN tokenVault' \ {k} = DOMAIN tokenVault \ {k}
    BY <1>1
  <2> QED
    BY <1>1, <1>3, <1>4, <2>1, InMintStep
<1> QED
  BY <1>1, <1>2, <1>3, <1>5

(* All the tokens of a mint.                                               *)
Held(m) == InMint(tokens, m) + InMint(tokenVault, m) + InMint(feeTokens, m)

LEMMA HeldType ==
  IInv => \A m : /\ InMint(tokens, m) \in Nat /\ InMint(tokenVault, m) \in Nat
                 /\ InMint(feeTokens, m) \in Nat
<1> SUFFICES ASSUME IInv, NEW m
             PROVE  /\ InMint(tokens, m) \in Nat /\ InMint(tokenVault, m) \in Nat
                    /\ InMint(feeTokens, m) \in Nat
  OBVIOUS
<1>1. DOMAIN tokens = UserKeys /\ DOMAIN feeTokens = FeeKeys
  BY DEF IInv
<1>2. DOMAIN tokenVault \in SUBSET Keys
  BY DEF IInv
<1>3. IsFiniteSet(DOMAIN tokenVault)
  BY <1>2, KeysFinite, FS_Subset
<1> QED
  BY <1>1, <1>3, InMintType, KeysFinite

HeldKept == \A m : Held(m)' = Held(m)

LEMMA IInvInit == Init => IInv /\ ReservesAddUp /\ ReserveOfMintExact /\ TokensConserved
<1> SUFFICES ASSUME Init
             PROVE  IInv /\ ReservesAddUp /\ ReserveOfMintExact /\ TokensConserved
  OBVIOUS
<1> USE UtilsAssumption, FeeAssumption, StreamAssumption, TokenAssumption
<1>1. IInv
  <2>1. FeeTypeOK
    BY DEF Init, FeeInit, FeeTypeOK, U64
  <2>2. StreamsOK
    BY DEF Init, StreamsOK, U64
  <2>3. 0 \in U64
    BY DEF U64
  <2> QED
    BY <2>1, <2>2, <2>3 DEF Init, IInv, Keys, UserKeys, FeeKeys
<1>2. \A sd, mints : OwedTo(StreamsOf(sd, mints)) = 0
  BY TotalZero DEF Init, OwedTo, StreamsOf
<1>3. ReservesAddUp
  <2>1. SUFFICES ASSUME NEW sd \in Senders
                 PROVE  Total([m \in Mints |-> reserve[<<sd, m>>]]) = 0
    BY <1>2 DEF ReservesAddUp
  <2>2. \A m \in Mints : reserve[<<sd, m>>] = 0
    BY DEF Init
  <2> QED
    BY <2>2, TotalZero
<1>4. ReserveOfMintExact
  BY <1>2 DEF Init, ReserveOfMintExact
<1>5. TokensConserved
  <2>1. SUFFICES ASSUME NEW m \in Mints
                 PROVE  InMint(tokens, m) + InMint(tokenVault, m) + InMint(feeTokens, m)
                          = InMint(InitialTokens, m)
    BY DEF TokensConserved
  <2>2. InMint(tokenVault, m) = 0 /\ InMint(feeTokens, m) = 0
    BY TotalZero DEF Init, InMint
  <2> QED
    BY <1>1, <2>2, HeldType DEF Init
<1> QED
  BY <1>1, <1>3, <1>4, <1>5

-----------------------------------------------------------------------------
(* The instructions keep the invariant                                     *)

(* The vault of k, and no other, pays at least as little as comes off the  *)
(* reserve of k.                                                           *)
Paid(k, amount) ==
  /\ amount \in U64 /\ amount <= Balance(k)
  /\ DOMAIN tokenVault' = DOMAIN tokenVault \cup {k}
  /\ tokenVault'[k] = Balance(k) - amount
  /\ \A x \in DOMAIN tokenVault \ {k} : tokenVault'[x] = tokenVault[x]
  /\ reserve'[k] <= reserve[k] - amount

(* A step that changes no stream but s, of the sender sd, and the reserve  *)
(* of sd in the mint n with it.                                            *)
Touches(s, sd, n) ==
  /\ Kept(s, <<sd, n>>, Keys)
  /\ s \in DOMAIN stream => stream[s].sender = sd
  /\ s \in DOMAIN stream' => stream'[s].sender = sd
  /\ token_mint' \in [DOMAIN stream' -> Mints]
  /\ \A x \in DOMAIN stream \cap DOMAIN stream' : token_mint'[x] = token_mint[x]

(* ... which is the reserve the stream belongs to.                         *)
InOwnMint(s, n) ==
  /\ s \in DOMAIN stream => token_mint[s] = n
  /\ s \in DOMAIN stream' => token_mint'[s] = n

(* A payment moves tokens of one mint from the vault to the receiver and   *)
(* to the fee vault.                                                       *)
LEMMA PaymentKeeps ==
  ASSUME IInv, NEW s \in DOMAIN stream, NEW n \in Mints, NEW amount \in U64,
         NEW k, k = <<stream[s].sender, n>>, PayTokens(stream[s], n, amount)
  PROVE  /\ tokens' \in [UserKeys -> U64]
         /\ feeTokens' \in [FeeKeys -> U64]
         /\ DOMAIN tokenVault' \subseteq Keys
         /\ tokenVault' \in [DOMAIN tokenVault' -> U64]
         /\ HeldKept
         /\ amount <= Balance(k)
         /\ DOMAIN tokenVault' = DOMAIN tokenVault \cup {k}
         /\ tokenVault'[k] = Balance(k) - amount
         /\ \A x \in DOMAIN tokenVault \ {k} : tokenVault'[x] = tokenVault[x]
<1> DEFINE st == stream[s]
           comission == CalculateComission(st.fee_percentage, amount)
           r == <<st.receiver, n>>
           f == <<st.fee_owner, n>>
<1>1. /\ st.sender \in Senders /\ st.receiver \in Users /\ st.fee_owner \in FeeOwners
      /\ st.fee_percentage \in Nat /\ amount \in Nat
  BY UtilsAssumption, StreamAssumption DEF IInv, StreamsOK, StreamRecord, U64
<1>2. comission \in Nat
  BY <1>1, ComissionType
<1>3. k \in Keys /\ r \in UserKeys /\ f \in FeeKeys
      /\ MintOf(k) = n /\ MintOf(r) = n /\ MintOf(f) = n
  BY <1>1 DEF Keys, UserKeys, FeeKeys, MintOf
<1>4. /\ amount <= Balance(k)
      /\ tokens[r] + (amount - comission) \in U64
      /\ feeTokens[f] + comission \in U64
      /\ SetVault(k, Balance(k) - amount)
      /\ tokens' = [tokens EXCEPT ![r] = tokens[r] + (amount - comission)]
      /\ feeTokens' = [feeTokens EXCEPT ![f] = feeTokens[f] + comission]
  BY DEF PayTokens, PaymentPasses, ReceiverAmount, Fits
<1> HIDE DEF comission, r, f
<1>5. /\ tokens \in [UserKeys -> U64] /\ feeTokens \in [FeeKeys -> U64]
  BY DEF IInv
<1>6. Balance(k) - amount \in U64
  <2>1. Balance(k) \in U64
    BY <1>3, UtilsAssumption DEF Balance, IInv, U64
  <2> QED
    BY <1>1, <1>4, <2>1, UtilsAssumption DEF U64
<1>7. /\ DOMAIN tokenVault' = DOMAIN tokenVault \cup {k}
      /\ DOMAIN tokenVault' \subseteq Keys
      /\ tokenVault' \in [DOMAIN tokenVault' -> U64]
      /\ tokenVault'[k] = Balance(k) - amount
      /\ \A x \in DOMAIN tokenVault \ {k} : tokenVault'[x] = tokenVault[x]
      /\ Balance(k) \in U64
      /\ \A m : InMint(tokenVault', m) = InMint(tokenVault, m)
                  + InMintOf(k, m, (Balance(k) - amount) - Balance(k))
  BY <1>3, <1>4, <1>6, VaultSet
<1>8. /\ tokens' \in [UserKeys -> U64] /\ feeTokens' \in [FeeKeys -> U64]
  BY <1>4, <1>5
<1>9. ASSUME NEW m PROVE Held(m)' = Held(m)
  <2>1. InMint(tokens', m) = InMint(tokens, m)
          + InMintOf(r, m, (tokens[r] + (amount - comission)) - tokens[r])
    BY <1>3, <1>4, <1>5, InMintExcept, KeysFinite
  <2>2. InMint(feeTokens', m) = InMint(feeTokens, m)
          + InMintOf(f, m, (feeTokens[f] + comission) - feeTokens[f])
    BY <1>3, <1>4, <1>5, InMintExcept, KeysFinite
  <2>3. tokens[r] \in Nat /\ feeTokens[f] \in Nat /\ Balance(k) \in Nat
    BY <1>3, <1>5, <1>7, UtilsAssumption DEF U64
  <2>4. /\ InMint(tokens, m) \in Nat /\ InMint(tokenVault, m) \in Nat
        /\ InMint(feeTokens, m) \in Nat
    BY HeldType
  <2>5. Held(m)' = InMint(tokens', m) + InMint(tokenVault', m) + InMint(feeTokens', m)
    BY DEF Held, InMint
  <2>6. CASE n = m
    BY <1>1, <1>2, <1>3, <1>7, <2>1, <2>2, <2>3, <2>4, <2>5, <2>6 DEF Held, InMintOf
  <2>7. CASE n # m
    BY <1>3, <1>7, <2>1, <2>2, <2>4, <2>5, <2>7 DEF Held, InMintOf
  <2> QED
    BY <2>6, <2>7
<1> QED
  BY <1>4, <1>7, <1>8, <1>9 DEF HeldKept

(* Tokens of one mint move between a user's account and a sender's vault.  *)
LEMMA MoveKeeps ==
  ASSUME IInv, NEW k \in Keys, NEW u \in UserKeys, MintOf(u) = MintOf(k),
         NEW v \in U64, NEW w \in U64, v + w = Balance(k) + tokens[u],
         SetVault(k, v), tokens' = [tokens EXCEPT ![u] = w],
         FeeTypeOK', vault' \in [Senders -> U64], DOMAIN feeData \subseteq DOMAIN feeData',
         UNCHANGED <<now, stream, reserve, token_mint, feeTokens>>
  PROVE  IInv' /\ HeldKept
<1>1. tokens \in [UserKeys -> U64]
  BY DEF IInv
<1>2. /\ DOMAIN tokenVault' \subseteq Keys
      /\ tokenVault' \in [DOMAIN tokenVault' -> U64]
      /\ Balance(k) \in U64
      /\ \A m : InMint(tokenVault', m) = InMint(tokenVault, m)
                  + InMintOf(k, m, v - Balance(k))
  BY VaultSet
<1>3. StreamsOK'
  BY StreamsSame DEF IInv
<1>4. tokens' \in [UserKeys -> U64]
  BY <1>1
<1>5. IInv'
  BY <1>2, <1>3, <1>4 DEF IInv
<1>6. ASSUME NEW m PROVE Held(m)' = Held(m)
  <2>1. InMint(tokens', m) = InMint(tokens, m) + InMintOf(u, m, w - tokens[u])
    BY <1>1, InMintExcept, KeysFinite
  <2>2. /\ tokens[u] \in Nat /\ Balance(k) \in Nat /\ v \in Nat /\ w \in Nat
        /\ InMint(tokens, m) \in Nat /\ InMint(tokenVault, m) \in Nat
        /\ InMint(feeTokens, m) \in Nat
    BY <1>1, <1>2, HeldType, UtilsAssumption DEF U64
  <2>3. Held(m)' = InMint(tokens', m) + InMint(tokenVault', m) + InMint(feeTokens, m)
    BY DEF Held, InMint
  <2> QED
    BY <1>2, <2>1, <2>2, <2>3 DEF Held, InMintOf
<1> QED
  BY <1>5, <1>6 DEF HeldKept

LEMMA DepositKeeps ==
  ASSUME IInv, NEW sd \in Senders, NEW n \in Mints, NEW a \in DepositAmounts,
         DepositToken(sd, n, a)
  PROVE  /\ IInv' /\ HeldKept
         /\ DOMAIN tokenVault \subseteq DOMAIN tokenVault'
         /\ \A x \in DOMAIN tokenVault : tokenVault'[x] >= tokenVault[x]
<1> DEFINE k == <<sd, n>>
           rent == VaultRent(sd)
<1>1. /\ sd \in Users /\ a \in Nat /\ k \in Keys /\ k \in UserKeys /\ MintOf(k) = n
  BY StreamAssumption, UtilsAssumption DEF Keys, UserKeys, U64, MintOf
<1>2. /\ wallet \in [Users -> U64] /\ vault \in [Senders -> U64]
      /\ tokens \in [UserKeys -> U64]
      /\ wallet[sd] \in Nat /\ wallet[sd] <= MaxU64 /\ vault[sd] \in Nat
      /\ tokens[k] \in Nat /\ tokens[k] <= MaxU64
      /\ Balance(k) \in Nat
  BY <1>1, UtilsAssumption DEF IInv, FeeTypeOK, U64, Balance
<1>3. rent \in Nat
  BY UtilsAssumption DEF VaultRent
<1>4. /\ a <= tokens[k] /\ Balance(k) + a \in U64
      /\ rent <= wallet[sd] /\ vault[sd] + rent \in U64
      /\ wallet' = [wallet EXCEPT ![sd] = wallet[sd] - rent]
      /\ vault' = [vault EXCEPT ![sd] = vault[sd] + rent]
      /\ tokens' = [tokens EXCEPT ![k] = tokens[k] - a]
      /\ SetVault(k, Balance(k) + a)
      /\ UNCHANGED <<feeVars, now, stream, reserve, token_mint, feeTokens>>
  BY DEF DepositToken, Fits
<1> HIDE DEF k, rent
<1>5. wallet[sd] - rent \in U64 /\ tokens[k] - a \in U64
  BY <1>1, <1>2, <1>3, <1>4, UtilsAssumption DEF U64
<1>6. wallet' \in [Users -> U64] /\ vault' \in [Senders -> U64]
  BY <1>2, <1>4, <1>5
<1>7. FeeTypeOK' /\ DOMAIN feeData \subseteq DOMAIN feeData'
  BY <1>4, <1>6 DEF IInv, FeeTypeOK, feeVars
<1>8. Balance(k) + a + (tokens[k] - a) = Balance(k) + tokens[k]
  BY <1>1, <1>2
<1>9. IInv' /\ HeldKept
  BY <1>1, <1>4, <1>5, <1>6, <1>7, <1>8, MoveKeeps
<1>10. /\ DOMAIN tokenVault \subseteq DOMAIN tokenVault'
       /\ \A x \in DOMAIN tokenVault \ {k} : tokenVault'[x] = tokenVault[x]
       /\ tokenVault'[k] = Balance(k) + a
  BY <1>4 DEF SetVault
<1>11. ASSUME NEW x \in DOMAIN tokenVault PROVE tokenVault'[x] >= tokenVault[x]
  <2>1. CASE x = k
    BY <1>1, <1>2, <1>10, <2>1 DEF Balance
  <2>2. CASE x # k
    BY <1>10, <2>2, UtilsAssumption DEF IInv, U64
  <2> QED
    BY <2>1, <2>2
<1> QED
  BY <1>9, <1>10, <1>11

LEMMA TakeKeeps ==
  ASSUME IInv, NEW sd \in Senders, NEW n \in Mints, NEW u \in Users,
         NEW a \in TransferAmounts, TakeTokens(sd, n, u, a)
  PROVE  IInv' /\ HeldKept
<1> DEFINE k == <<sd, n>>
           x == <<u, n>>
<1>1. a \in Nat /\ k \in Keys /\ x \in UserKeys /\ MintOf(k) = n /\ MintOf(x) = n
  BY StreamAssumption, UtilsAssumption DEF Keys, UserKeys, U64, MintOf
<1>2. /\ k \in DOMAIN tokenVault /\ a <= tokenVault[k]
      /\ tokens[x] + a \in U64
      /\ tokenVault' = [tokenVault EXCEPT ![k] = tokenVault[k] - a]
      /\ tokens' = [tokens EXCEPT ![x] = tokens[x] + a]
      /\ UNCHANGED <<lamportVars, stream, reserve, token_mint, feeTokens>>
  BY DEF TakeTokens, Fits
<1> HIDE DEF k, x
<1>3. tokenVault[k] \in U64 /\ Balance(k) = tokenVault[k] /\ tokens[x] \in U64
  BY <1>1, <1>2 DEF IInv, Balance
<1>4. tokenVault[k] \in Nat /\ tokenVault[k] <= MaxU64 /\ tokens[x] \in Nat
  BY <1>3, UtilsAssumption DEF U64
<1>5. tokenVault[k] - a \in U64 /\ tokenVault[k] - a + (tokens[x] + a) = Balance(k) + tokens[x]
  BY <1>1, <1>2, <1>3, <1>4, UtilsAssumption DEF U64
<1>6. SetVault(k, tokenVault[k] - a)
  <2>1. DOMAIN tokenVault \cup {k} = DOMAIN tokenVault
    BY <1>2
  <2> QED
    BY <1>2, <2>1 DEF SetVault
<1>7. /\ FeeTypeOK' /\ vault' \in [Senders -> U64] /\ DOMAIN feeData \subseteq DOMAIN feeData'
      /\ UNCHANGED now
  BY <1>2 DEF IInv, FeeTypeOK, lamportVars, feeVars
<1> QED
  BY <1>1, <1>2, <1>5, <1>6, <1>7, MoveKeeps

LEMMA DirectKeeps ==
  ASSUME IInv, NEW u \in Users, NEW w \in Users, NEW n \in Mints,
         NEW a \in TransferAmounts, SendTokenDirectly(u, n, w, a)
  PROVE  IInv' /\ HeldKept
<1> DEFINE x == <<u, n>>
           y == <<w, n>>
           mid == [tokens EXCEPT ![x] = tokens[x] - a]
<1>1. /\ a \in Nat /\ x \in UserKeys /\ y \in UserKeys /\ MintOf(x) = n /\ MintOf(y) = n
      /\ tokens \in [UserKeys -> U64]
  BY StreamAssumption, UtilsAssumption DEF UserKeys, U64, MintOf, IInv
<1>2. /\ a <= tokens[x] /\ mid[y] + a \in U64
      /\ tokens' = [mid EXCEPT ![y] = mid[y] + a]
      /\ UNCHANGED <<lamportVars, stream, reserve, token_mint, tokenVault, feeTokens>>
  BY DEF SendTokenDirectly, Fits
<1> HIDE DEF x, y
<1>3. tokens[x] \in U64 /\ tokens[x] \in Nat /\ tokens[x] - a \in U64
  BY <1>1, <1>2, UtilsAssumption DEF U64
<1>4. mid \in [UserKeys -> U64] /\ mid[y] \in Nat
  BY <1>1, <1>3, UtilsAssumption DEF U64
<1>5. \A m : InMint(mid, m) = InMint(tokens, m) + InMintOf(x, m, (tokens[x] - a) - tokens[x])
  BY <1>1, <1>3, InMintExcept, KeysFinite
<1> HIDE DEF mid
<1>6. \A m : InMint(tokens', m) = InMint(mid, m) + InMintOf(y, m, (mid[y] + a) - mid[y])
  BY <1>1, <1>2, <1>4, InMintExcept, KeysFinite
<1>7. tokens' \in [UserKeys -> U64]
  BY <1>1, <1>2, <1>4
<1>8. StreamsOK'
  BY <1>2, StreamsSame DEF IInv, lamportVars, feeVars
<1>9. IInv'
  BY <1>2, <1>7, <1>8 DEF IInv, FeeTypeOK, lamportVars, feeVars
<1>10. ASSUME NEW m PROVE Held(m)' = Held(m)
  <2>1. InMint(tokens', m) = InMint(tokens, m)
    BY <1>1, <1>3, <1>4, <1>5, <1>6, HeldType DEF InMintOf
  <2>2. Held(m)' = InMint(tokens', m) + InMint(tokenVault, m) + InMint(feeTokens, m)
    BY <1>2 DEF Held, InMint
  <2> QED
    BY <2>1, <2>2 DEF Held
<1> QED
  BY <1>9, <1>10 DEF HeldKept

LEMMA FeesKeep ==
  ASSUME IInv, NEW f \in FeeOwners, NEW n \in Mints, WithdrawFeesToken(f, n)
  PROVE  IInv' /\ HeldKept
<1> DEFINE k == <<f, n>>
<1>1. /\ k \in UserKeys /\ k \in FeeKeys /\ MintOf(k) = n
      /\ tokens \in [UserKeys -> U64] /\ feeTokens \in [FeeKeys -> U64]
  BY FeeAssumption DEF UserKeys, FeeKeys, MintOf, IInv
<1>2. /\ tokens[k] + feeTokens[k] \in U64 /\ 0 \in U64
      /\ tokens' = [tokens EXCEPT ![k] = tokens[k] + feeTokens[k]]
      /\ feeTokens' = [feeTokens EXCEPT ![k] = 0]
      /\ UNCHANGED <<lamportVars, stream, reserve, token_mint, tokenVault>>
  BY UtilsAssumption DEF WithdrawFeesToken, Fits, U64
<1> HIDE DEF k
<1>3. tokens' \in [UserKeys -> U64] /\ feeTokens' \in [FeeKeys -> U64]
  BY <1>1, <1>2
<1>4. StreamsOK'
  BY <1>2, StreamsSame DEF IInv, lamportVars, feeVars
<1>5. IInv'
  BY <1>2, <1>3, <1>4 DEF IInv, FeeTypeOK, lamportVars, feeVars
<1>6. ASSUME NEW m PROVE Held(m)' = Held(m)
  <2>1. InMint(tokens', m) = InMint(tokens, m)
                               + InMintOf(k, m, (tokens[k] + feeTokens[k]) - tokens[k])
    BY <1>1, <1>2, InMintExcept, KeysFinite
  <2>2. InMint(feeTokens', m) = InMint(feeTokens, m) + InMintOf(k, m, 0 - feeTokens[k])
    BY <1>1, <1>2, InMintExcept, KeysFinite
  <2>3. Held(m)' = InMint(tokens', m) + InMint(tokenVault, m) + InMint(feeTokens', m)
    BY <1>2 DEF Held, InMint
  <2>4. tokens[k] \in Nat /\ feeTokens[k] \in Nat
    BY <1>1, UtilsAssumption DEF U64
  <2> QED
    BY <2>1, <2>2, <2>3, <2>4, HeldType DEF Held, InMintOf
<1> QED
  BY <1>5, <1>6 DEF HeldKept

LEMMA OpenKeeps ==
  ASSUME IInv, NEW s \in Streams, NEW sd \in Senders, NEW n \in Mints,
         NEW r \in Receivers, NEW f, NEW t1 \in StreamTimes, NEW t2 \in StreamTimes,
         NEW a \in StreamAmounts, NEW cc \in CanCancel, NEW cu \in CanUpdate,
         OpenTokenStream(s, sd, n, r, f, t1, t2, a, cc, cu)
  PROVE  IInv' /\ HeldKept /\ Touches(s, sd, n) /\ InOwnMint(s, n) /\ s \notin DOMAIN stream
<1>1. /\ t1 \in U64 /\ t2 \in U64 /\ a \in U64 /\ cc \in BOOLEAN /\ cu \in BOOLEAN
  BY StreamAssumption
<1>2. PICK k \in Keys : k = <<sd, n>>
  BY DEF Keys
<1>3. /\ StartStream(s, k, f, sd, r, t1, t2, a, cc, cu)
      /\ StreamsOK /\ FeeTypeOK /\ reserve \in [Keys -> U64]
      /\ UNCHANGED <<feeData, now>>
  BY <1>2 DEF OpenTokenStream, IInv, lamportVars, feeVars
<1>4. /\ Kept(s, k, Keys) /\ s \notin DOMAIN stream
      /\ DOMAIN stream' = DOMAIN stream \cup {s} /\ stream'[s].sender = sd
  <2>1. Kept(s, k, Keys)
    BY <1>1, <1>3, StartKeeps
  <2>2. /\ DOMAIN stream' = DOMAIN stream \cup {s} /\ s \notin DOMAIN stream
        /\ stream'[s].sender = sd
    BY <1>3 DEF StartStream, NewStream
  <2> QED
    BY <2>1, <2>2
<1>5. /\ token_mint' = [x \in DOMAIN stream' |-> IF x = s THEN n ELSE token_mint[x]]
      /\ UNCHANGED <<lamportVars, tokens, tokenVault, feeTokens>>
  BY DEF OpenTokenStream
<1>6. /\ token_mint' \in [DOMAIN stream' -> Mints] /\ token_mint'[s] = n
      /\ \A x \in DOMAIN stream : token_mint'[x] = token_mint[x]
  BY <1>4, <1>5 DEF IInv
<1>7. HeldKept
  BY <1>5 DEF HeldKept, Held, InMint
<1>8. Touches(s, sd, n) /\ InOwnMint(s, n)
  BY <1>2, <1>4, <1>6 DEF Touches, InOwnMint
<1>9. IInv'
  BY <1>4, <1>5, <1>6 DEF Kept, IInv, FeeTypeOK, lamportVars, feeVars
<1> QED
  BY <1>4, <1>7, <1>8, <1>9

LEMMA UpdateKeeps ==
  ASSUME IInv, NEW s \in Streams, NEW t1 \in StreamTimes, NEW t2 \in StreamTimes,
         NEW a \in StreamAmounts, UpdateTokenStream(s, t1, t2, a)
  PROVE  /\ IInv' /\ HeldKept
         /\ \E sd \in Senders, n \in Mints : Touches(s, sd, n) /\ InOwnMint(s, n)
<1>1. t1 \in U64 /\ t2 \in U64 /\ a \in U64
  BY StreamAssumption
<1>2. s \in DOMAIN stream /\ stream[s] \in StreamRecord
  BY DEF UpdateTokenStream, ReviseStream, IInv, StreamsOK
<1>3. PICK sd \in Senders, n \in Mints : sd = stream[s].sender /\ n = token_mint[s]
  BY <1>2 DEF IInv, StreamRecord
<1>4. PICK k \in Keys : k = <<sd, n>>
  BY DEF Keys
<1>5. /\ ReviseStream(s, k, t1, t2, a)
      /\ StreamsOK /\ reserve \in [Keys -> U64]
      /\ UNCHANGED <<feeData, now>>
  BY <1>3, <1>4 DEF UpdateTokenStream, IInv, lamportVars, feeVars, Key
<1>6. /\ Kept(s, k, Keys) /\ DOMAIN stream' = DOMAIN stream
      /\ stream'[s] = Revised(stream[s], t1, t2, a)
  BY <1>1, <1>5, ReviseKeeps
<1>7. stream'[s].sender = stream[s].sender
  BY <1>2, <1>6 DEF StreamRecord, Revised
<1>8. UNCHANGED <<lamportVars, token_mint, tokens, tokenVault, feeTokens>>
  BY DEF UpdateTokenStream
<1>9. HeldKept
  BY <1>8 DEF HeldKept, Held, InMint
<1>10. Touches(s, sd, n) /\ InOwnMint(s, n)
  BY <1>3, <1>4, <1>6, <1>7, <1>8 DEF Touches, InOwnMint, IInv
<1>11. IInv'
  BY <1>6, <1>8 DEF Kept, IInv, FeeTypeOK, lamportVars, feeVars
<1> QED
  BY <1>9, <1>10, <1>11

LEMMA PauseKeeps ==
  ASSUME IInv, NEW s \in Streams, PauseResumeTokenStream(s)
  PROVE  /\ IInv' /\ HeldKept
         /\ \E sd \in Senders, n \in Mints : Touches(s, sd, n) /\ InOwnMint(s, n)
<1>2. s \in DOMAIN stream /\ stream[s] \in StreamRecord
  BY DEF PauseResumeTokenStream, ToggleStream, TogglePasses, IInv, StreamsOK
<1>3. PICK sd \in Senders, n \in Mints : sd = stream[s].sender /\ n = token_mint[s]
  BY <1>2 DEF IInv, StreamRecord
<1>4. PICK k \in Keys : k = <<sd, n>>
  BY DEF Keys
<1>5. /\ ToggleStream(s, k)
      /\ StreamsOK /\ reserve \in [Keys -> U64]
      /\ UNCHANGED <<feeData, now>>
  BY <1>3, <1>4 DEF PauseResumeTokenStream, IInv, lamportVars, feeVars, Key
<1>6. /\ Kept(s, k, Keys) /\ DOMAIN stream' = DOMAIN stream
      /\ \/ stream'[s] = [stream[s] EXCEPT !.paused_amt = stream[s].paused_amt + Missed(stream[s]),
                                           !.paused = 0, !.paused_at = 0]
         \/ stream'[s] = [stream[s] EXCEPT !.paused = 1,
                                           !.withdraw_limit = AllowedAmt(stream[s], now),
                                           !.paused_at = now]
  BY <1>5, ToggleKeeps
<1>7. stream'[s].sender = stream[s].sender
  BY <1>2, <1>6 DEF StreamRecord
<1>8. UNCHANGED <<lamportVars, token_mint, tokens, tokenVault, feeTokens>>
  BY DEF PauseResumeTokenStream
<1>9. HeldKept
  BY <1>8 DEF HeldKept, Held, InMint
<1>10. Touches(s, sd, n) /\ InOwnMint(s, n)
  BY <1>3, <1>4, <1>6, <1>7, <1>8 DEF Touches, InOwnMint, IInv
<1>11. IInv'
  BY <1>6, <1>8 DEF Kept, IInv, FeeTypeOK, lamportVars, feeVars
<1> QED
  BY <1>9, <1>10, <1>11

LEMMA WithdrawKeeps ==
  ASSUME IInv, NEW s \in Streams, WithdrawTokenStream(s)
  PROVE  /\ IInv' /\ HeldKept
         /\ \E sd \in Senders, n \in Mints :
              /\ Touches(s, sd, n) /\ InOwnMint(s, n)
              /\ Paid(<<sd, n>>, ClaimAmount(stream[s]))
<1>2. s \in DOMAIN stream /\ stream[s] \in StreamRecord
  BY DEF WithdrawTokenStream, ClaimStream, ClaimPasses, IInv, StreamsOK
<1>3. PICK sd \in Senders, n \in Mints : sd = stream[s].sender /\ n = token_mint[s]
  BY <1>2 DEF IInv, StreamRecord
<1>4. PICK k \in Keys : k = <<sd, n>>
  BY DEF Keys
<1>5. /\ ClaimStream(s, k)
      /\ PayTokens(stream[s], n, ClaimAmount(stream[s]))
      /\ StreamsOK /\ reserve \in [Keys -> U64]
      /\ UNCHANGED lamportVars /\ UNCHANGED <<feeData, now>>
      /\ token_mint' = [x \in DOMAIN stream' |-> token_mint[x]]
  BY <1>3, <1>4 DEF WithdrawTokenStream, IInv, lamportVars, feeVars, Key, MintsOfLiveStreams
<1>6. /\ Kept(s, k, Keys)
      /\ ClaimAmount(stream[s]) \in U64
      /\ reserve'[k] <= reserve[k] - ClaimAmount(stream[s])
      /\ DOMAIN stream' = DOMAIN stream \ {s} \/ DOMAIN stream' = DOMAIN stream
      /\ s \in DOMAIN stream' =>
           stream'[s] = [stream[s] EXCEPT !.withdrawn = stream[s].withdrawn + ClaimAmount(stream[s])]
  BY <1>5, ClaimKeeps
<1>7. s \in DOMAIN stream' => stream'[s].sender = stream[s].sender
  BY <1>2, <1>6 DEF StreamRecord
<1>8. /\ token_mint' \in [DOMAIN stream' -> Mints]
      /\ \A x \in DOMAIN stream \cap DOMAIN stream' : token_mint'[x] = token_mint[x]
  BY <1>5, <1>6 DEF IInv
<1>9. /\ tokens' \in [UserKeys -> U64] /\ feeTokens' \in [FeeKeys -> U64]
      /\ DOMAIN tokenVault' \subseteq Keys /\ tokenVault' \in [DOMAIN tokenVault' -> U64]
      /\ HeldKept
      /\ ClaimAmount(stream[s]) <= Balance(k)
      /\ DOMAIN tokenVault' = DOMAIN tokenVault \cup {k}
      /\ tokenVault'[k] = Balance(k) - ClaimAmount(stream[s])
      /\ \A x \in DOMAIN tokenVault \ {k} : tokenVault'[x] = tokenVault[x]
  <2>1. PICK amount \in U64 : amount = ClaimAmount(stream[s])
    BY <1>6
  <2>2. s \in DOMAIN stream /\ k = <<stream[s].sender, n>>
    BY <1>2, <1>3, <1>4
  <2>3. PayTokens(stream[s], n, amount)
    BY <1>5, <2>1
  <2>4. /\ tokens' \in [UserKeys -> U64] /\ feeTokens' \in [FeeKeys -> U64]
        /\ DOMAIN tokenVault' \subseteq Keys /\ tokenVault' \in [DOMAIN tokenVault' -> U64]
        /\ HeldKept
        /\ amount <= Balance(k)
        /\ DOMAIN tokenVault' = DOMAIN tokenVault \cup {k}
        /\ tokenVault'[k] = Balance(k) - amount
        /\ \A x \in DOMAIN tokenVault \ {k} : tokenVault'[x] = tokenVault[x]
    BY <2>2, <2>3, PaymentKeeps
  <2> QED
    BY <2>1, <2>4
<1>10. Touches(s, sd, n) /\ InOwnMint(s, n)
  BY <1>2, <1>3, <1>4, <1>6, <1>7, <1>8 DEF Touches, InOwnMint
<1>11. IInv'
  BY <1>5, <1>6, <1>8, <1>9 DEF Kept, IInv, FeeTypeOK, lamportVars, feeVars
<1>12. Paid(k, ClaimAmount(stream[s]))
  BY <1>6, <1>9 DEF Paid
<1> QED
  BY <1>4, <1>9, <1>10, <1>11, <1>12

LEMMA CancelKeeps ==
  ASSUME IInv, NEW s \in Streams, NEW n \in Mints, CancelTokenStream(s, n)
  PROVE  /\ IInv' /\ HeldKept
         /\ \E sd \in Senders :
              /\ Touches(s, sd, n) /\ (n = token_mint[s] => InOwnMint(s, n))
              /\ Paid(<<sd, n>>, CancelAmount(stream[s]))
<1>2. s \in DOMAIN stream /\ stream[s] \in StreamRecord
  BY DEF CancelTokenStream, EndStream, EndPasses, IInv, StreamsOK
<1>3. PICK sd \in Senders : sd = stream[s].sender
  BY <1>2 DEF StreamRecord
<1>4. PICK k \in Keys : k = <<sd, n>>
  BY DEF Keys
<1>5. /\ EndStream(s, k)
      /\ PayTokens(stream[s], n, CancelAmount(stream[s]))
      /\ StreamsOK /\ reserve \in [Keys -> U64]
      /\ UNCHANGED lamportVars /\ UNCHANGED <<feeData, now>>
      /\ token_mint' = [x \in DOMAIN stream' |-> token_mint[x]]
  BY <1>3, <1>4 DEF CancelTokenStream, IInv, lamportVars, feeVars, MintsOfLiveStreams
<1>6. /\ Kept(s, k, Keys)
      /\ DOMAIN stream' = DOMAIN stream \ {s}
      /\ CancelAmount(stream[s]) \in U64
      /\ reserve'[k] <= reserve[k] - CancelAmount(stream[s])
  BY <1>5, EndKeeps
<1>8. /\ token_mint' \in [DOMAIN stream' -> Mints]
      /\ \A x \in DOMAIN stream \cap DOMAIN stream' : token_mint'[x] = token_mint[x]
  BY <1>5, <1>6 DEF IInv
<1>9. /\ tokens' \in [UserKeys -> U64] /\ feeTokens' \in [FeeKeys -> U64]
      /\ DOMAIN tokenVault' \subseteq Keys /\ tokenVault' \in [DOMAIN tokenVault' -> U64]
      /\ HeldKept
      /\ CancelAmount(stream[s]) <= Balance(k)
      /\ DOMAIN tokenVault' = DOMAIN tokenVault \cup {k}
      /\ tokenVault'[k] = Balance(k) - CancelAmount(stream[s])
      /\ \A x \in DOMAIN tokenVault \ {k} : tokenVault'[x] = tokenVault[x]
  BY <1>2, <1>3, <1>4, <1>5, <1>6, PaymentKeeps
<1>10. Touches(s, sd, n) /\ (n = token_mint[s] => InOwnMint(s, n))
  BY <1>2, <1>3, <1>4, <1>6, <1>8 DEF Touches, InOwnMint
<1>11. IInv'
  BY <1>5, <1>6, <1>8, <1>9 DEF Kept, IInv, FeeTypeOK, lamportVars, feeVars
<1>12. Paid(k, CancelAmount(stream[s]))
  BY <1>6, <1>9 DEF Paid
<1> QED
  BY <1>4, <1>9, <1>10, <1>11, <1>12

(* Every step keeps the invariant and the tokens of each mint, and changes *)
(* at most one stream, and a reserve of its sender with it.                *)
LEMMA StepKeeps ==
  ASSUME IInv, NextButCancel
  PROVE  /\ IInv' /\ HeldKept
         /\ \/ UNCHANGED <<stream, reserve, token_mint>>
            \/ \E s \in Streams, sd \in Senders, n \in Mints :
                 Touches(s, sd, n) /\ InOwnMint(s, n)
<1> USE StreamAssumption
<1> DEFINE Same == UNCHANGED <<stream, reserve, token_mint>>
<1>1. CASE Tick
  <2>1. /\ UNCHANGED <<wallet, feeVars, stream, reserve, vault,
                       token_mint, tokens, tokenVault, feeTokens>>
        /\ ClockMoves
    BY <1>1 DEF Tick
  <2>2. StreamsOK'
    BY <2>1, StreamsTick DEF IInv, feeVars
  <2>3. IInv' /\ HeldKept
    BY <2>1, <2>2 DEF IInv, FeeTypeOK, HeldKept, Held, InMint, feeVars
  <2> QED
    BY <2>1, <2>3
<1>2. CASE /\ FeeNext
           /\ UNCHANGED <<now, stream, reserve, vault, token_mint, tokens, tokenVault, feeTokens>>
  <2>1. FeeTypeOK' /\ DOMAIN feeData \subseteq DOMAIN feeData'
    BY <1>2, FeeKeeps DEF IInv
  <2>2. StreamsOK'
    BY <1>2, <2>1, StreamsSame DEF IInv
  <2>3. IInv' /\ HeldKept
    BY <1>2, <2>1, <2>2 DEF IInv, HeldKept, Held, InMint
  <2> QED
    BY <1>2, <2>3
<1>3. ASSUME NEW f \in FeeOwners, NEW n \in Mints, WithdrawFeesToken(f, n)
      PROVE  IInv' /\ HeldKept /\ Same
  BY <1>3, FeesKeep DEF WithdrawFeesToken
<1>4. ASSUME NEW sd \in Senders, NEW n \in Mints, NEW a \in DepositAmounts,
             DepositToken(sd, n, a)
      PROVE  IInv' /\ HeldKept /\ Same
  BY <1>4, DepositKeeps DEF DepositToken
<1>5. ASSUME NEW sd \in Senders, NEW n \in Mints, NEW a \in TransferAmounts,
             \/ TokenWithdrawal(sd, n, a)
             \/ \E r \in Receivers :
                  InstantTokenTransfer(sd, n, r, a) \/ SendTokenDirectly(sd, n, r, a)
      PROVE  IInv' /\ HeldKept /\ Same
  <2>1. ASSUME NEW u \in Users, TakeTokens(sd, n, u, a)
        PROVE  IInv' /\ HeldKept /\ Same
    BY <2>1, TakeKeeps DEF TakeTokens
  <2>2. ASSUME NEW u \in Users, SendTokenDirectly(sd, n, u, a)
        PROVE  IInv' /\ HeldKept /\ Same
    BY <2>2, DirectKeeps DEF SendTokenDirectly
  <2> QED
    BY <1>5, <2>1, <2>2 DEF TokenWithdrawal, InstantTokenTransfer
<1>6. ASSUME NEW sd \in Senders, NEW n \in Mints, NEW s \in Streams, NEW r \in Receivers,
             NEW f \in FeeOwners, NEW t1 \in StreamTimes, NEW t2 \in StreamTimes,
             NEW a \in StreamAmounts, NEW cc \in CanCancel, NEW cu \in CanUpdate,
             OpenTokenStream(s, sd, n, r, f, t1, t2, a, cc, cu)
      PROVE  IInv' /\ HeldKept /\ Touches(s, sd, n) /\ InOwnMint(s, n)
  BY <1>6, OpenKeeps
<1>7. ASSUME NEW s \in Streams, NEW t1 \in StreamTimes, NEW t2 \in StreamTimes,
             NEW a \in StreamAmounts, UpdateTokenStream(s, t1, t2, a)
      PROVE  /\ IInv' /\ HeldKept
             /\ \E sd \in Senders, n \in Mints : Touches(s, sd, n) /\ InOwnMint(s, n)
  BY <1>7, UpdateKeeps
<1>8. ASSUME NEW s \in Streams, WithdrawTokenStream(s) \/ PauseResumeTokenStream(s)
      PROVE  /\ IInv' /\ HeldKept
             /\ \E sd \in Senders, n \in Mints : Touches(s, sd, n) /\ InOwnMint(s, n)
  BY <1>8, WithdrawKeeps, PauseKeeps
<1> QED
  BY <1>1, <1>2, <1>3, <1>4, <1>5, <1>6, <1>7, <1>8 DEF NextButCancel

LEMMA StutterKeeps ==
  ASSUME IInv, UNCHANGED vars
  PROVE  IInv' /\ HeldKept
<1>1. StreamsOK'
  BY StreamsSame DEF vars, feeVars, IInv
<1> QED
  BY <1>1 DEF vars, feeVars, IInv, FeeTypeOK, HeldKept, Held, InMint

LEMMA AnyStep ==
  ASSUME IInv, Next
  PROVE  /\ IInv' /\ HeldKept
         /\ \/ UNCHANGED <<stream, reserve, token_mint>>
            \/ \E s \in Streams, sd \in Senders, n \in Mints : Touches(s, sd, n)
  BY StepKeeps, CancelKeeps DEF Next

LEMMA OwnMintStep ==
  ASSUME IInv, OwnMintNext
  PROVE  /\ IInv'
         /\ \/ UNCHANGED <<stream, reserve, token_mint>>
            \/ \E s \in Streams, sd \in Senders, n \in Mints :
                 Touches(s, sd, n) /\ InOwnMint(s, n)
<1>1. ASSUME NEW s \in DOMAIN stream, CancelTokenStream(s, token_mint[s])
      PROVE  /\ IInv'
             /\ \E sd \in Senders, n \in Mints : Touches(s, sd, n) /\ InOwnMint(s, n)
  <2>1. s \in Streams /\ token_mint[s] \in Mints
    BY DEF IInv, StreamsOK
  <2> QED
    BY <1>1, <2>1, CancelKeeps
<1>2. DOMAIN stream \subseteq Streams
  BY DEF IInv, StreamsOK
<1> QED
  BY <1>1, <1>2, StepKeeps DEF OwnMintNext

LEMMA IInvAlways == Spec => []IInv
<1>1. IInv /\ [Next]_vars => IInv'
  BY AnyStep, StutterKeeps
<1> QED
  BY <1>1, IInvInit, PTL DEF Spec

LEMMA OwnMintIInvAlways == OwnMintSpec => []IInv
<1>1. IInv /\ [OwnMintNext]_vars => IInv'
  BY OwnMintStep, StutterKeeps
<1> QED
  BY <1>1, IInvInit, PTL DEF OwnMintSpec

-----------------------------------------------------------------------------
(* Invariants                                                              *)

(* Every variable keeps its type, for every sequence of instructions.      *)
THEOREM TypeCorrect == Spec => []TypeOK
  BY IInvAlways, TypesFromIInv, PTL

(* The checked subtractions of token claims and cancellations never fail,  *)
(* whatever mints the cancellations name.                                  *)
THEOREM SettlementSafe == Spec => []SettlementFits
<1>1. IInv => SettlementFits
  BY SettlementOK DEF IInv
<1> QED
  BY <1>1, IInvAlways, PTL

(* No payment, transfer or withdrawal of fees creates or loses tokens, or  *)
(* turns those of one mint into another's.                                 *)
THEOREM TokensSafe == Spec => []TokensConserved
<1>1. IInv /\ TokensConserved /\ [Next]_vars => TokensConserved'
  BY AnyStep, StutterKeeps DEF HeldKept, Held, TokensConserved
<1> QED
  BY <1>1, IInvInit, IInvAlways, PTL DEF Spec

(* What the streams of sd in some mints are owed changes with the one      *)
(* stream a step changes.                                                  *)
LEMMA OwedInMints ==
  ASSUME IInv, IInv', NEW s \in Streams, NEW d \in Senders, NEW n \in Mints,
         Touches(s, d, n), NEW sd, NEW mints, NEW gone, NEW come,
         gone = (IF s \in StreamsOf(sd, mints) THEN Owed(stream[s]) ELSE 0),
         come = (IF s \in StreamsOf(sd, mints)' THEN Owed(stream'[s]) ELSE 0)
  PROVE  /\ OwedTo(StreamsOf(sd, mints))' = OwedTo(StreamsOf(sd, mints)) + come - gone
         /\ OwedTo(StreamsOf(sd, mints)) \in Nat
         /\ gone \in Nat /\ come \in Nat
<1> DEFINE before == StreamsOf(sd, mints)
           after == {x \in DOMAIN stream' : stream'[x].sender = sd /\ token_mint'[x] \in mints}
<1>1. /\ StreamsOK /\ StreamsOK' /\ OnlyStream(s)
      /\ \A x \in DOMAIN stream \cap DOMAIN stream' : token_mint'[x] = token_mint[x]
  BY DEF Touches, Kept, IInv
<1>2. before \subseteq DOMAIN stream /\ after \subseteq DOMAIN stream'
  BY DEF StreamsOf
<1>3. after \ {s} = before \ {s}
  BY <1>1 DEF StreamsOf, OnlyStream
<1>4. /\ OwedTo(StreamsOf(sd, mints))' = Total([x \in after |-> Owed(stream'[x])])
      /\ OwedTo(before) = Total([x \in before |-> Owed(stream[x])])
      /\ StreamsOf(sd, mints)' = after
  BY DEF OwedTo, StreamsOf
<1> HIDE DEF before, after
<1>5. /\ Total([x \in after |-> Owed(stream'[x])])
           = Total([x \in before |-> Owed(stream[x])])
               + (IF s \in after THEN Owed(stream'[s]) ELSE 0)
               - (IF s \in before THEN Owed(stream[s]) ELSE 0)
      /\ Total([x \in before |-> Owed(stream[x])]) \in Nat
      /\ s \in before => Owed(stream[s]) \in U64
      /\ s \in after => Owed(stream'[s]) \in U64
  BY <1>1, <1>2, <1>3, OwedStep
<1>6. gone = (IF s \in before THEN Owed(stream[s]) ELSE 0)
  BY DEF before
<1>7. come = (IF s \in after THEN Owed(stream'[s]) ELSE 0)
  BY <1>4
<1>8. OwedTo(before) = OwedTo(StreamsOf(sd, mints))
  BY DEF before
<1>9. gone \in Nat /\ come \in Nat
  BY <1>5, <1>6, <1>7, UtilsAssumption DEF U64
<1> QED
  BY <1>4, <1>5, <1>6, <1>7, <1>8, <1>9

(* The reserve a step changes, in terms of the stream it changes.          *)
LEMMA ReserveStep ==
  ASSUME IInv, IInv', NEW s \in Streams, NEW d \in Senders, NEW n \in Mints,
         Touches(s, d, n)
  PROVE  /\ reserve'[<<d, n>>] = reserve[<<d, n>>]
              + (IF s \in DOMAIN stream' THEN Owed(stream'[s]) ELSE 0)
              - (IF s \in DOMAIN stream THEN Owed(stream[s]) ELSE 0)
         /\ \A x \in Keys : x # <<d, n>> => reserve'[x] = reserve[x]
         /\ reserve[<<d, n>>] \in U64 /\ reserve'[<<d, n>>] \in U64
<1>1. PICK k \in Keys : k = <<d, n>>
  BY DEF Keys
<1>2. reserve \in [Keys -> U64] /\ reserve' \in [Keys -> U64]
  BY DEF IInv
<1>3. reserve' = [reserve EXCEPT ![k] = reserve[k]
         + (IF s \in DOMAIN stream' THEN Owed(stream'[s]) ELSE 0)
         - (IF s \in DOMAIN stream THEN Owed(stream[s]) ELSE 0)]
  BY <1>1 DEF Touches, Kept, ReserveFollows
<1> QED
  BY <1>1, <1>2, <1>3

LEMMA AddUpStep ==
  ASSUME IInv, IInv', ReservesAddUp, NEW s \in Streams, NEW d \in Senders,
         NEW n \in Mints, Touches(s, d, n)
  PROVE  ReservesAddUp'
<1> SUFFICES ASSUME NEW sd \in Senders
             PROVE  Total([m \in Mints |-> reserve'[<<sd, m>>]]) = OwedTo(StreamsOf(sd, Mints))'
  BY DEF ReservesAddUp
<1> DEFINE f == [m \in Mints |-> reserve[<<sd, m>>]]
           g == [m \in Mints |-> reserve'[<<sd, m>>]]
<1>1. PICK gone : gone = (IF s \in StreamsOf(sd, Mints) THEN Owed(stream[s]) ELSE 0)
  OBVIOUS
<1>2. PICK come : come = (IF s \in StreamsOf(sd, Mints)' THEN Owed(stream'[s]) ELSE 0)
  OBVIOUS
<1>3. /\ OwedTo(StreamsOf(sd, Mints))' = OwedTo(StreamsOf(sd, Mints)) + come - gone
      /\ OwedTo(StreamsOf(sd, Mints)) \in Nat
      /\ gone \in Nat /\ come \in Nat
  BY <1>1, <1>2, OwedInMints
<1>4. Total(f) = OwedTo(StreamsOf(sd, Mints))
  BY DEF ReservesAddUp
<1>5. /\ s \in StreamsOf(sd, Mints) <=> (s \in DOMAIN stream /\ sd = d)
      /\ s \in StreamsOf(sd, Mints)' <=> (s \in DOMAIN stream' /\ sd = d)
  BY DEF Touches, StreamsOf, IInv
<1>6. /\ reserve'[<<d, n>>] = reserve[<<d, n>>]
              + (IF s \in DOMAIN stream' THEN Owed(stream'[s]) ELSE 0)
              - (IF s \in DOMAIN stream THEN Owed(stream[s]) ELSE 0)
      /\ \A x \in Keys : x # <<d, n>> => reserve'[x] = reserve[x]
      /\ reserve[<<d, n>>] \in U64 /\ reserve'[<<d, n>>] \in U64
  BY ReserveStep
<1>7. CASE sd = d
  <2>1. reserve'[<<d, n>>] = reserve[<<d, n>>] + come - gone
    BY <1>1, <1>2, <1>5, <1>6, <1>7
  <2>2. f \in [Mints -> U64] /\ f[n] = reserve[<<d, n>>]
    BY <1>7 DEF IInv, Keys
  <2>3. g = [f EXCEPT ![n] = reserve'[<<d, n>>]]
    <3>1. \A m \in Mints : m # n => <<sd, m>> \in Keys /\ <<sd, m>> # <<d, n>>
      BY DEF Keys
    <3> QED
      BY <1>6, <1>7, <3>1
  <2> HIDE DEF f, g
  <2>4. Total(g) = Total(f) + reserve'[<<d, n>>] - f[n]
    BY <1>6, <2>2, <2>3, TotalExcept, TokenAssumption
  <2>5. reserve[<<d, n>>] \in Nat
    BY <1>6, UtilsAssumption DEF U64
  <2>6. Total(g) = OwedTo(StreamsOf(sd, Mints))'
    BY <1>3, <1>4, <2>1, <2>2, <2>4, <2>5
  <2> QED
    BY <2>6 DEF g
<1>8. CASE sd # d
  <2>1. come = 0 /\ gone = 0
    BY <1>1, <1>2, <1>5, <1>8
  <2>2. g = f
    <3>1. \A m \in Mints : <<sd, m>> \in Keys /\ <<sd, m>> # <<d, n>>
      BY <1>8 DEF Keys
    <3> QED
      BY <1>6, <3>1
  <2> HIDE DEF f, g
  <2>3. Total(g) = OwedTo(StreamsOf(sd, Mints))'
    BY <1>3, <1>4, <2>1, <2>2
  <2> QED
    BY <2>3 DEF g
<1> QED
  BY <1>7, <1>8

(* Whatever mints the cancellations name, the reserves of a sender in all  *)
(* mints together are always what all the sender's streams are owed.       *)
THEOREM AddUpSafe == Spec => []ReservesAddUp
<1>1. IInv /\ IInv' /\ ReservesAddUp /\ [Next]_vars => ReservesAddUp'
  <2> SUFFICES ASSUME IInv, IInv', ReservesAddUp, [Next]_vars PROVE ReservesAddUp'
    OBVIOUS
  <2>1. CASE UNCHANGED <<stream, reserve, token_mint>>
    BY <2>1 DEF ReservesAddUp, OwedTo, StreamsOf
  <2> QED
    BY <2>1, AnyStep, AddUpStep DEF vars
<1> QED
  BY <1>1, IInvInit, IInvAlways, PTL DEF Spec

LEMMA ExactStep ==
  ASSUME IInv, IInv', ReserveOfMintExact, NEW s \in Streams, NEW d \in Senders,
         NEW n \in Mints, Touches(s, d, n), InOwnMint(s, n)
  PROVE  ReserveOfMintExact'
<1> SUFFICES ASSUME NEW sd \in Senders, NEW m \in Mints
             PROVE  reserve'[<<sd, m>>] = OwedTo(StreamsOf(sd, {m}))'
  BY DEF ReserveOfMintExact
<1>1. PICK gone : gone = (IF s \in StreamsOf(sd, {m}) THEN Owed(stream[s]) ELSE 0)
  OBVIOUS
<1>2. PICK come : come = (IF s \in StreamsOf(sd, {m})' THEN Owed(stream'[s]) ELSE 0)
  OBVIOUS
<1>3. /\ OwedTo(StreamsOf(sd, {m}))' = OwedTo(StreamsOf(sd, {m})) + come - gone
      /\ OwedTo(StreamsOf(sd, {m})) \in Nat
      /\ gone \in Nat /\ come \in Nat
  BY <1>1, <1>2, OwedInMints
<1>4. reserve[<<sd, m>>] = OwedTo(StreamsOf(sd, {m}))
  BY DEF ReserveOfMintExact
<1>5. /\ s \in StreamsOf(sd, {m}) <=> (s \in DOMAIN stream /\ sd = d /\ m = n)
      /\ s \in StreamsOf(sd, {m})' <=> (s \in DOMAIN stream' /\ sd = d /\ m = n)
  BY DEF Touches, InOwnMint, StreamsOf
<1>6. /\ reserve'[<<d, n>>] = reserve[<<d, n>>]
              + (IF s \in DOMAIN stream' THEN Owed(stream'[s]) ELSE 0)
              - (IF s \in DOMAIN stream THEN Owed(stream[s]) ELSE 0)
      /\ \A x \in Keys : x # <<d, n>> => reserve'[x] = reserve[x]
  BY ReserveStep
<1>7. CASE sd = d /\ m = n
  BY <1>1, <1>2, <1>3, <1>4, <1>5, <1>6, <1>7
<1>8. CASE sd # d \/ m # n
  <2>1. come = 0 /\ gone = 0
    BY <1>1, <1>2, <1>5, <1>8
  <2>2. <<sd, m>> \in Keys /\ <<sd, m>> # <<d, n>>
    BY <1>8 DEF Keys
  <2> QED
    BY <1>3, <1>4, <1>6, <2>1, <2>2
<1> QED
  BY <1>7, <1>8

(* If cancellations name the stream's mint, each withdraw_data account is  *)
(* at all times exactly the sum of what the streams of its mint are owed.  *)
THEOREM MintExactSafe == OwnMintSpec => []ReserveOfMintExact
<1>1. IInv /\ IInv' /\ ReserveOfMintExact /\ [OwnMintNext]_vars => ReserveOfMintExact'
  <2> SUFFICES ASSUME IInv, IInv', ReserveOfMintExact, [OwnMintNext]_vars
               PROVE  ReserveOfMintExact'
    OBVIOUS
  <2>1. CASE UNCHANGED <<stream, reserve, token_mint>>
    <3>1. \A sd, mints : OwedTo(StreamsOf(sd, mints))' = OwedTo(StreamsOf(sd, mints))
      BY <2>1 DEF OwedTo, StreamsOf
    <3> QED
      BY <2>1, <3>1 DEF ReserveOfMintExact
  <2> QED
    BY <2>1, OwnMintStep, ExactStep DEF vars
<1> QED
  BY <1>1, IInvInit, OwnMintIInvAlways, PTL DEF OwnMintSpec

-----------------------------------------------------------------------------
(* The vaults and the reserves                                             *)

LEMMA PaidCovered ==
  ASSUME IInv, IInv', NEW s \in Streams, NEW d \in Senders, NEW n \in Mints, NEW a,
         Touches(s, d, n), Paid(<<d, n>>, a),
         NEW x \in DOMAIN tokenVault, tokenVault[x] >= reserve[x]
  PROVE  tokenVault'[x] >= reserve'[x]
<1>1. PICK k \in Keys : k = <<d, n>>
  BY DEF Keys
<1>2. /\ x \in Keys /\ reserve[x] \in Nat /\ reserve'[x] \in Nat
      /\ tokenVault[x] \in Nat /\ a \in Nat
  BY UtilsAssumption DEF IInv, Paid, U64
<1>3. CASE x = k
  BY <1>1, <1>2, <1>3 DEF Paid, Balance
<1>4. CASE x # k
  <2>1. tokenVault'[x] = tokenVault[x]
    BY <1>1, <1>4 DEF Paid
  <2>2. reserve'[x] = reserve[x]
    BY <1>1, <1>2, <1>4, ReserveStep
  <2> QED
    BY <2>1, <2>2
<1> QED
  BY <1>3, <1>4

(* What leaves a vault otherwise leaves the reserve in it.                 *)
LEMMA TakeCovered ==
  ASSUME IInv, NEW d, NEW n, NEW u, NEW a \in U64, TakeTokens(d, n, u, a),
         NEW x \in DOMAIN tokenVault, tokenVault[x] >= reserve[x]
  PROVE  tokenVault'[x] >= reserve'[x]
<1>1. /\ reserve[x] \in Nat /\ tokenVault[x] \in Nat /\ a \in Nat /\ reserve' = reserve
  BY UtilsAssumption DEF IInv, TakeTokens, U64
<1>2. PICK k : k = <<d, n>>
  OBVIOUS
<1>3. /\ k \in DOMAIN tokenVault
      /\ reserve[k] = 0 \/ tokenVault[k] - a >= reserve[k]
      /\ a <= tokenVault[k]
      /\ tokenVault' = [tokenVault EXCEPT ![k] = tokenVault[k] - a]
  BY <1>2 DEF TakeTokens, Covered
<1> QED
  BY <1>1, <1>3

(* No step of any user takes from a vault what is owed to the streams of   *)
(* its mint, whatever mints the cancellations name.                        *)
THEOREM BackedSafe == Spec => BackedStaysBacked
<1> DEFINE Ok == \A k \in DOMAIN tokenVault :
                   tokenVault[k] >= reserve[k] /\ reserve'[k] <= reserve[k]
                     => tokenVault'[k] >= reserve'[k]
<1>1. IInv /\ [Next]_vars => [Ok]_vars
  <2> SUFFICES ASSUME IInv, Next, NEW k \in DOMAIN tokenVault,
                      tokenVault[k] >= reserve[k], reserve'[k] <= reserve[k]
               PROVE  tokenVault'[k] >= reserve'[k]
    OBVIOUS
  <2>1. IInv'
    BY AnyStep
  <2>2. /\ k \in Keys /\ tokenVault[k] \in Nat /\ reserve[k] \in Nat
        /\ reserve'[k] \in Nat
    BY <2>1, UtilsAssumption DEF IInv, U64
  <2>3. CASE tokenVault' = tokenVault
    BY <2>2, <2>3
  <2>4. ASSUME NEW d \in Senders, NEW n \in Mints, NEW a \in DepositAmounts,
               DepositToken(d, n, a)
        PROVE  tokenVault'[k] >= reserve'[k]
    <3>1. tokenVault'[k] >= tokenVault[k] /\ reserve'[k] = reserve[k]
      BY <2>4, DepositKeeps DEF DepositToken
    <3>2. tokenVault'[k] \in Nat
      BY <2>1, <2>4, DepositKeeps, UtilsAssumption DEF IInv, U64
    <3> QED
      BY <2>2, <3>1, <3>2
  <2>5. ASSUME NEW d \in Senders, NEW n \in Mints, NEW a \in TransferAmounts,
               \/ TokenWithdrawal(d, n, a)
               \/ \E r \in Receivers : InstantTokenTransfer(d, n, r, a)
        PROVE  tokenVault'[k] >= reserve'[k]
    BY <2>5, TakeCovered, StreamAssumption DEF TokenWithdrawal, InstantTokenTransfer
  <2>6. ASSUME NEW s \in Streams, WithdrawTokenStream(s)
        PROVE  tokenVault'[k] >= reserve'[k]
    BY <2>1, <2>6, WithdrawKeeps, PaidCovered
  <2>7. ASSUME NEW s \in Streams, NEW n \in Mints, CancelTokenStream(s, n)
        PROVE  tokenVault'[k] >= reserve'[k]
    BY <2>1, <2>7, CancelKeeps, PaidCovered
  <2>8. ASSUME NEW d, NEW n, NEW r, NEW a, SendTokenDirectly(d, n, r, a)
        PROVE  tokenVault' = tokenVault
    BY <2>8 DEF SendTokenDirectly
  <2>9. ASSUME NEW x, NEW d, NEW n, NEW r, NEW f, NEW t1, NEW t2, NEW a, NEW cc, NEW cu,
               OpenTokenStream(x, d, n, r, f, t1, t2, a, cc, cu)
        PROVE  tokenVault' = tokenVault
    BY <2>9 DEF OpenTokenStream
  <2>10. ASSUME NEW x, NEW t1, NEW t2, NEW a,
                UpdateTokenStream(x, t1, t2, a) \/ PauseResumeTokenStream(x)
        PROVE  tokenVault' = tokenVault
    BY <2>10 DEF UpdateTokenStream, PauseResumeTokenStream
  <2>11. ASSUME NEW f, NEW n, WithdrawFeesToken(f, n)
         PROVE  tokenVault' = tokenVault
    BY <2>11 DEF WithdrawFeesToken
  <2>12. CASE Tick
    BY <2>3, <2>12 DEF Tick
  <2> QED
    BY <2>3, <2>4, <2>5, <2>6, <2>7, <2>8, <2>9, <2>10, <2>11, <2>12
       DEF Next, NextButCancel
<1> QED
  BY <1>1, IInvAlways, PTL DEF Spec, BackedStaysBacked

-----------------------------------------------------------------------------
(* Payments that can be made                                               *)

(* No balance is larger than the sum of its mint.                          *)
LEMMA InMintBound ==
  ASSUME NEW f, IsFiniteSet(DOMAIN f), NEW k \in DOMAIN f, f[k] \in U64,
         NEW m, MintOf(k) = m
  PROVE  f[k] <= InMint(f, m)
<1> DEFINE S == {x \in DOMAIN f : x[2] = m}
           g == [x \in S |-> f[x]]
<1>1. S \in SUBSET DOMAIN f
  OBVIOUS
<1>2. IsFiniteSet(DOMAIN g)
  BY <1>1, FS_Subset
<1>3. k \in DOMAIN g /\ g[k] = f[k]
  BY DEF MintOf
<1> HIDE DEF g
<1>4. g[k] <= Total(g)
  BY <1>2, <1>3, TotalBound
<1> QED
  BY <1>3, <1>4 DEF InMint, g

(* What is owed to a stream can be paid from a vault that has it: the      *)
(* receiver and the fee owner have room, since all the tokens of the mint  *)
(* together are a u64.                                                     *)
LEMMA PaymentGoes ==
  ASSUME IInv, TokensConserved, NEW s \in DOMAIN stream, NEW n \in Mints,
         NEW k, k = <<stream[s].sender, n>>, k \in DOMAIN tokenVault,
         ComissionFits(stream[s].fee_percentage, stream[s].amount),
         NEW amount \in U64, amount <= Owed(stream[s]), amount <= tokenVault[k]
  PROVE  PaymentPasses(stream[s], n, amount)
<1> DEFINE st == stream[s]
           comission == CalculateComission(st.fee_percentage, amount)
           r == <<st.receiver, n>>
           f == <<st.fee_owner, n>>
<1>1. /\ st.receiver \in Users /\ st.fee_owner \in FeeOwners
      /\ st.fee_percentage \in 0 .. FeeScale /\ amount \in Nat /\ st.amount \in Nat
  BY UtilsAssumption, StreamAssumption DEF IInv, StreamsOK, StreamRecord, U64
<1>2. Owed(st) \in 0 .. st.amount
  BY OwedType DEF IInv, StreamsOK
<1>3. comission \in 0 .. amount /\ ComissionFits(st.fee_percentage, amount)
  <2>1. amount \in 0 .. st.amount
    BY <1>1, <1>2
  <2> QED
    BY <1>1, <2>1, ComissionBound
<1>4. r \in UserKeys /\ f \in FeeKeys /\ MintOf(r) = n /\ MintOf(f) = n /\ MintOf(k) = n
  BY <1>1 DEF UserKeys, FeeKeys, MintOf
<1> HIDE DEF r, f
<1>5. /\ DOMAIN tokens = UserKeys /\ DOMAIN feeTokens = FeeKeys
      /\ tokens[r] \in U64 /\ feeTokens[f] \in U64 /\ tokenVault[k] \in U64
  BY <1>4 DEF IInv
<1>6. IsFiniteSet(DOMAIN tokenVault)
  <2>1. DOMAIN tokenVault \in SUBSET Keys
    BY DEF IInv
  <2> QED
    BY <2>1, KeysFinite, FS_Subset
<1>7. /\ tokens[r] <= InMint(tokens, n)
      /\ feeTokens[f] <= InMint(feeTokens, n)
      /\ tokenVault[k] <= InMint(tokenVault, n)
  <2>1. tokens[r] <= InMint(tokens, n)
    BY <1>4, <1>5, InMintBound, KeysFinite
  <2>2. feeTokens[f] <= InMint(feeTokens, n)
    BY <1>4, <1>5, InMintBound, KeysFinite
  <2>3. tokenVault[k] <= InMint(tokenVault, n)
    BY <1>4, <1>5, <1>6, InMintBound
  <2> QED
    BY <2>1, <2>2, <2>3
<1>8. /\ InMint(tokens, n) \in Nat /\ InMint(tokenVault, n) \in Nat
      /\ InMint(feeTokens, n) \in Nat
      /\ InMint(tokens, n) + InMint(tokenVault, n) + InMint(feeTokens, n) <= MaxU64
      /\ MaxU64 \in Nat
  BY HeldType, TokenSupplyAssumption, UtilsAssumption DEF TokensConserved
<1>9. /\ tokens[r] \in Nat /\ feeTokens[f] \in Nat /\ tokenVault[k] \in Nat
  BY <1>5, UtilsAssumption DEF U64
<1> HIDE DEF comission
<1>10. /\ amount - comission \in U64
       /\ tokens[r] + (amount - comission) \in U64
       /\ feeTokens[f] + comission \in U64
  BY <1>1, <1>3, <1>7, <1>8, <1>9 DEF U64
<1> QED
  BY <1>3, <1>10 DEF PaymentPasses, ReceiverAmount, Balance, Fits, comission, r, f

(* No check of withdraw_token_stream or cancel_token_stream stands in the  *)
(* way of a stream whose sender keeps the vault of its mint covered,       *)
(* whatever the other streams, mints and fee owners did in between, if     *)
(* cancellations name the stream's mint.                                   *)
THEOREM PaysSafe == OwnMintSpec => []BackedPays
<1>1. IInv /\ ReserveOfMintExact /\ TokensConserved => BackedPays
  <2> SUFFICES ASSUME IInv, ReserveOfMintExact, TokensConserved,
                      NEW s \in DOMAIN stream, Backed(s)
               PROVE  /\ now > stream[s].start_time => WithdrawPasses(s)
                      /\ Cancellable(stream[s]) =>
                           (Fits(stream[s].amount
                                   + OwedTo(StreamsOf(stream[s].sender, {token_mint[s]}) \ {s}))
                              => CancelPasses(s, token_mint[s]))
    BY DEF BackedPays
  <2>1. stream[s].sender \in Senders /\ token_mint[s] \in Mints /\ StreamsOK
    BY DEF IInv, StreamsOK, StreamRecord
  <2>2. PICK sd \in Senders, n \in Mints : sd = stream[s].sender /\ n = token_mint[s]
    BY <2>1
  <2>3. PICK k \in Keys : k = <<sd, n>>
    BY <2>2 DEF Keys
  <2>4. Key(s) = k
    BY <2>2, <2>3 DEF Key
  <2>5. reserve[k] \in U64 /\ reserve[k] = OwedTo(StreamsOf(sd, {n}))
    BY <2>3 DEF IInv, ReserveOfMintExact
  <2>6. /\ reserve[k] = OwedTo(StreamsOf(sd, {n}) \ {s}) + Owed(stream[s])
        /\ OwedTo(StreamsOf(sd, {n}) \ {s}) \in Nat
        /\ Owed(stream[s]) <= reserve[k]
    <3>1. StreamsOf(sd, {n}) \subseteq DOMAIN stream /\ s \in StreamsOf(sd, {n})
      BY <2>2 DEF StreamsOf
    <3>2. /\ OwedTo(StreamsOf(sd, {n})) = OwedTo(StreamsOf(sd, {n}) \ {s}) + Owed(stream[s])
          /\ OwedTo(StreamsOf(sd, {n}) \ {s}) \in Nat /\ Owed(stream[s]) \in Nat
      BY <2>1, <3>1, OwedCounted
    <3> QED
      BY <2>5, <3>2
  <2>7. /\ k \in DOMAIN tokenVault /\ tokenVault[k] >= reserve[k]
        /\ ComissionFits(stream[s].fee_percentage, stream[s].amount)
    BY <2>4 DEF Backed
  <2>8. ASSUME NEW amount \in U64, amount <= Owed(stream[s])
        PROVE  PaymentPasses(stream[s], n, amount)
    <3>1. amount <= tokenVault[k]
      <4>1. /\ amount \in Nat /\ reserve[k] \in Nat /\ tokenVault[k] \in Nat
            /\ Owed(stream[s]) \in Int
        BY <2>1, <2>5, <2>7, OwedType, UtilsAssumption DEF IInv, StreamsOK, U64
      <4> QED
        BY <2>6, <2>7, <2>8, <4>1
    <3> QED
      BY <2>2, <2>3, <2>7, <2>8, <3>1, PaymentGoes
  <2>9. ASSUME now > stream[s].start_time PROVE WithdrawPasses(s)
    <3>1. /\ ClaimPasses(s, k)
          /\ ClaimAmount(stream[s]) \in U64 /\ ClaimAmount(stream[s]) <= Owed(stream[s])
      BY <2>1, <2>5, <2>6, <2>9, ClaimGoes
    <3> QED
      BY <2>2, <2>4, <2>7, <2>8, <3>1 DEF WithdrawPasses
  <2>10. ASSUME Cancellable(stream[s]),
                Fits(stream[s].amount + OwedTo(StreamsOf(sd, {n}) \ {s}))
         PROVE  CancelPasses(s, token_mint[s])
    <3>1. /\ EndPasses(s, k)
          /\ CancelAmount(stream[s]) \in U64 /\ CancelAmount(stream[s]) <= Owed(stream[s])
      BY <2>1, <2>5, <2>6, <2>10, EndGoes
    <3> QED
      BY <2>2, <2>3, <2>8, <3>1 DEF CancelPasses
  <2> QED
    BY <2>2, <2>9, <2>10
<1>2. OwnMintSpec => Spec
  <2>1. IInv /\ [OwnMintNext]_vars => [Next]_vars
    <3>1. ASSUME IInv, NEW s \in DOMAIN stream, CancelTokenStream(s, token_mint[s])
          PROVE  Next
      BY <3>1 DEF IInv, StreamsOK, Next
    <3> QED
      BY <3>1 DEF OwnMintNext, Next
  <2> QED
    BY <2>1, OwnMintIInvAlways, PTL DEF OwnMintSpec, Spec
<1> QED
  BY <1>1, <1>2, OwnMintIInvAlways, MintExactSafe, TokensSafe, PTL
=============================================================================
