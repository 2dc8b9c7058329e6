------------------------ MODULE MultisigCalls_proofs ------------------------
(***************************************************************************)
(* Executions call by call are executions in one step: the simulation      *)
(* behind CallsAreAtomic, for every limit of nested calls.                 *)
(***************************************************************************)
EXTENDS MultisigCalls, SequenceTheorems, TLAPS

-----------------------------------------------------------------------------
(* Executions as relations between the accounts before and after: on the   *)
(* way out of nested calls those before are in `saved`.                    *)

(* Executable, given the multisigs.                                        *)
Able(ms, tx) ==
  /\ ms[tx.multisig].owner_set_seqno = tx.owner_set_seqno
  /\ ms[tx.multisig].nonce \in PdaNonces
  /\ ~ tx.did_execute
  /\ SigCount(tx) >= ms[tx.multisig].threshold

(* Effect, as a relation between the multisigs before and after.           *)
Leads(before, after, ix, signed) ==
  \/ ix.op = "call" /\ after = before
  \/ /\ ix.op \in {"set_owners", "change_threshold", "set_owners_and_change_threshold"}
     /\ ix.multisig \in DOMAIN before \cap signed
     /\ LET ms == before[ix.multisig]
            organised == IF ix.op = "change_threshold" THEN ms ELSE SetOwners(ms, ix.owners)
        IN  /\ ix.op # "change_threshold" => SetOwnersFits(ix.owners)
            /\ ix.op # "set_owners" => ChangeThresholdFits(organised, ix.threshold)
            /\ after = [before EXCEPT ![ix.multisig] =
                 IF ix.op = "set_owners" THEN organised
                 ELSE ChangeThreshold(organised, ix.threshold)]

LEMMA EffectLeads ==
  \A ix, signed : Effect(ix, signed) => Leads(multisig, multisig', ix, signed)
  BY DEF Effect, Leads

LEMMA AtomicEffect ==
  \A ix, signed :
    Leads(Committed.multisig, Committed'.multisig, ix, signed) => Atomic!Effect(ix, signed)
  BY DEF Leads, Atomic!Effect, SetOwners, Atomic!SetOwners, ChangeThreshold,
         Atomic!ChangeThreshold, SetOwnersFits, Atomic!SetOwnersFits, ChangeThresholdFits,
         Atomic!ChangeThresholdFits, Clamp, Atomic!Clamp, NextSeqno, Atomic!NextSeqno,
         AssertUniqueOwners, Atomic!AssertUniqueOwners, IsInjective, Atomic!IsInjective

LEMMA LeadsNowhere == \A before, after, t, signed : ~ Leads(before, after, ExecuteIx(t), signed)
  BY DEF Leads, ExecuteIx

LEMMA AbleIs == \A tx : Executable(tx) => Able(multisig, tx)
  BY DEF Executable, Able, Current, EnoughSigners

LEMMA AtomicAble == \A tx : Able(Committed.multisig, tx) => Atomic!Executable(tx)
  BY DEF Able, Atomic!Executable, Atomic!Current, Atomic!EnoughSigners, SigCount,
         Atomic!SigCount, Cardinality, Atomic!Cardinality, IsFiniteSet

-----------------------------------------------------------------------------
(* The accounts and the stack                                              *)

HasFlag(tx) == "did_execute" \in DOMAIN tx

(* The accounts as others see them: what was marked was performed once.    *)
Shaped(tr, pf) ==
  /\ DOMAIN tr \subseteq Txs
  /\ tr = [t \in DOMAIN tr |-> tr[t]]
  /\ \A t \in DOMAIN tr : HasFlag(tr[t])
  /\ pf \in [Txs -> Nat]
  /\ \A t \in Txs : pf[t] = IF t \in DOMAIN tr /\ tr[t].did_execute THEN 1 ELSE 0

Frames(tr) ==
  [transaction : DOMAIN tr, account : {tr[t] : t \in DOMAIN tr}, returned : BOOLEAN]

(* Every call in progress loaded its account as it was before the          *)
(* outermost call and found it executable; each but the innermost waits    *)
(* for the next.                                                           *)
Nested(frames) ==
  /\ frames \in Seq(Frames(saved.transaction)) /\ Len(frames) <= MaxHeight
  /\ \A i \in 1 .. Len(frames) :
       /\ frames[i].account = saved.transaction[frames[i].transaction]
       /\ Able(saved.multisig, frames[i].account)
  /\ \A i \in 1 .. Len(frames) - 1 :
       /\ ~ frames[i].returned
       /\ frames[i].account.instruction = ExecuteIx(frames[i + 1].transaction)

(* A transaction that is entered again runs through the same calls again.  *)
Recurring(frames) ==
  \A i, j \in 1 .. Len(frames) :
    i < j /\ frames[i].transaction = frames[j].transaction =>
      frames[i + (Len(frames) - j)].transaction = frames[Len(frames)].transaction

(* On the way in nothing has changed yet.                                  *)
Descending ==
  /\ multisig = saved.multisig /\ transaction = saved.transaction
  /\ performed = saved.performed
  /\ ~ Top.returned
  /\ Recurring(stack)

(* On the way out the last instruction of the chain c has taken effect,    *)
(* and the calls of the chain that have returned are stored.               *)
Left(c) == {c[i] : i \in Len(stack) + 1 .. Len(c)}

Unwinding(c) ==
  /\ Len(stack) <= Len(c)
  /\ \A i \in 1 .. Len(stack) : stack[i].transaction = c[i]
  /\ \A i \in 1 .. Len(c) :
       /\ c[i] \in DOMAIN saved.transaction
       /\ Able(saved.multisig, saved.transaction[c[i]])
  /\ \A i \in 1 .. Len(c) - 1 : saved.transaction[c[i]].instruction = ExecuteIx(c[i + 1])
  /\ Leads(saved.multisig, multisig, saved.transaction[c[Len(c)]].instruction,
           {saved.transaction[c[i]].multisig : i \in 1 .. Len(c)})
  /\ transaction = [t \in DOMAIN saved.transaction |->
       IF t \in Left(c) THEN Burn(saved.transaction[t]) ELSE saved.transaction[t]]
  /\ performed = [t \in Txs |->
       IF t \in Left(c) THEN saved.performed[t] + 1 ELSE saved.performed[t]]
  /\ Top.returned

CallsInv ==
  /\ Shaped(Committed.transaction, Committed.performed)
  /\ stack # <<>> => Nested(stack) /\ (Descending \/ \E c \in Chains : Unwinding(c))

-----------------------------------------------------------------------------
(* Sequences of calls                                                      *)

LEMMA ReturnedIs ==
  ASSUME NEW tr, NEW frames \in Seq(Frames(tr)), frames # <<>>
  PROVE  /\ Returned(frames) \in Seq(Frames(tr))
         /\ Len(Returned(frames)) = Len(frames)
         /\ \A i \in 1 .. Len(frames) - 1 : Returned(frames)[i] = frames[i]
         /\ Returned(frames)[Len(frames)].transaction = frames[Len(frames)].transaction
         /\ Returned(frames)[Len(frames)].account = frames[Len(frames)].account
         /\ Returned(frames)[Len(frames)].returned
<1> DEFINE n == Len(frames)
           new == [frames[n] EXCEPT !.returned = TRUE]
<1>1. n \in Nat \ {0} /\ frames[n] \in Frames(tr)
  OBVIOUS
<1>2. /\ new \in Frames(tr) /\ new.returned
      /\ new.transaction = frames[n].transaction /\ new.account = frames[n].account
  BY <1>1 DEF Frames
<1>3. Returned(frames) = [frames EXCEPT ![n] = new]
  BY DEF Returned
<1> HIDE DEF new
<1> QED
  BY <1>1, <1>2, <1>3

LEMMA AppendIs ==
  ASSUME NEW S, NEW frames \in Seq(S), NEW e \in S
  PROVE  /\ Append(frames, e) \in Seq(S)
         /\ Len(frames) \in Nat
         /\ Len(Append(frames, e)) = Len(frames) + 1
         /\ \A i \in 1 .. Len(frames) : Append(frames, e)[i] = frames[i]
         /\ Append(frames, e)[Len(frames) + 1] = e
  OBVIOUS

LEMMA FrontIs ==
  ASSUME NEW S, NEW frames \in Seq(S), frames # <<>>
  PROVE  /\ Front(frames) \in Seq(S)
         /\ Len(frames) \in Nat \ {0}
         /\ Len(Front(frames)) = Len(frames) - 1
         /\ \A i \in 1 .. Len(frames) - 1 : Front(frames)[i] = frames[i]
<1>1. Len(frames) \in Nat \ {0}
  OBVIOUS
<1>2. 1 \in Int /\ Len(frames) - 1 \in Int /\ \A i \in 1 .. Len(frames) - 1 : frames[i] \in S
  BY <1>1
<1>3. Front(frames) = SubSeq(frames, 1, Len(frames) - 1)
  BY DEF Front
<1>4. /\ Front(frames) \in Seq(S)
      /\ Len(Front(frames)) = IF 1 <= Len(frames) - 1 THEN Len(frames) - 1 - 1 + 1 ELSE 0
      /\ \A i \in 1 .. Len(frames) - 1 - 1 + 1 : Front(frames)[i] = frames[1 + i - 1]
  BY ONLY <1>2, <1>3, SubSeqProperties
<1>5. Len(Front(frames)) = Len(frames) - 1
  <2>1. \A n \in Nat \ {0} : (IF 1 <= n - 1 THEN n - 1 - 1 + 1 ELSE 0) = n - 1
    OBVIOUS
  <2> QED
    BY ONLY <1>1, <1>4, <2>1, Zenon
<1>6. ASSUME NEW i \in 1 .. Len(frames) - 1 PROVE Front(frames)[i] = frames[i]
  <2>1. i \in 1 .. Len(frames) - 1 - 1 + 1 /\ 1 + i - 1 = i
    BY <1>1
  <2>2. Front(frames)[i] = frames[1 + i - 1]
    BY <1>4, <2>1
  <2> QED
    BY <2>1, <2>2
<1> QED
  BY <1>1, <1>4, <1>5, <1>6

-----------------------------------------------------------------------------
(* The way in                                                              *)

(* While calls go in, one that repeats a transaction repeats all that      *)
(* followed it: what the instructions of both execute is the same.         *)
LEMMA EnterRecurs ==
  ASSUME Nested(stack), Recurring(stack), NEW f, f \in Frames(saved.transaction),
         stack # <<>> => Top.account.instruction = ExecuteIx(f.transaction)
  PROVE  Recurring(Append(stack, f))
<1> DEFINE n == Len(stack)
           new == Append(stack, f)
           T(i) == stack[i].transaction
<1>1. /\ n \in Nat /\ Len(new) = n + 1 /\ new[n + 1] = f
      /\ \A i \in 1 .. n : new[i] = stack[i]
  BY AppendIs DEF Nested
<1>2. \A i \in 1 .. n : stack[i].account = saved.transaction[T(i)]
  BY DEF Nested
<1>3. \A i \in 1 .. n - 1 : stack[i].account.instruction = ExecuteIx(T(i + 1))
  BY DEF Nested
<1> HIDE DEF new, n
<1> SUFFICES ASSUME NEW i \in 1 .. n + 1, NEW j \in 1 .. n + 1, i < j,
                    new[i].transaction = new[j].transaction
             PROVE  new[i + ((n + 1) - j)].transaction = new[n + 1].transaction
  BY <1>1 DEF Recurring, new
<1>4. CASE j = n + 1
  BY <1>1, <1>4
<1>5. CASE j # n + 1
  <2>1. j \in 1 .. n /\ i \in 1 .. n /\ T(i) = T(j)
    BY <1>1, <1>5
  <2> DEFINE k == i + (n - j)
  <2>2. T(k) = T(n)
    BY <2>1 DEF Recurring, n
  <2>3. k \in 1 .. n - 1 /\ n \in 1 .. n /\ k + 1 = i + ((n + 1) - j)
    BY <1>1, <2>1
  <2> HIDE DEF k
  <2>4. stack[k].account = stack[n].account
    BY <1>2, <2>2, <2>3
  <2>5. stack # <<>> /\ stack[n].account.instruction = ExecuteIx(f.transaction)
    BY <2>3 DEF Top, n
  <2>6. ExecuteIx(T(k + 1)) = ExecuteIx(f.transaction)
    BY <1>3, <2>3, <2>4, <2>5
  <2>7. T(k + 1) = f.transaction
    BY <2>6 DEF ExecuteIx
  <2>8. new[k + 1] = stack[k + 1]
    BY <1>1, <2>3
  <2> QED
    BY <1>1, <2>3, <2>7, <2>8
<1> QED
  BY <1>4, <1>5

LEMMA EnterKeeps ==
  ASSUME CallsInv, NEW t \in Txs, Enter(t)
  PROVE  /\ CallsInv'
         /\ Committed'.multisig = Committed.multisig
         /\ Committed'.transaction = Committed.transaction
         /\ Committed'.performed = Committed.performed
<1> DEFINE f == Frame(t)
<1>1. /\ t \in DOMAIN transaction /\ Executable(transaction[t])
      /\ stack' = Append(stack, f) /\ Len(stack) < MaxHeight
      /\ multisig' = multisig /\ transaction' = transaction /\ performed' = performed
  BY DEF Enter, multisigVars
<1>2. /\ f.transaction = t /\ f.account = transaction[t] /\ ~ f.returned
      /\ f \in Frames(transaction)
  BY <1>1 DEF Frame, Frames
<1>3. Able(multisig, transaction[t])
  BY <1>1, AbleIs
<1>4. CASE stack = <<>>
  <2>1. /\ saved' = Accounts /\ Committed = Accounts
    BY <1>4 DEF Enter, Committed
  <2>2. /\ saved'.multisig = multisig /\ saved'.transaction = transaction
        /\ saved'.performed = performed
    BY <2>1 DEF Accounts
  <2>3. stack' = <<f>>
    BY <1>1, <1>4
  <2>4. Committed' = saved'
    BY <2>3 DEF Committed
  <2>5. stack' \in Seq(Frames(transaction)) /\ Len(stack') = 1 /\ stack'[1] = f
    BY <1>2, <2>3
  <2> HIDE DEF f
  <2>6. Nested(stack)'
    BY <1>1, <1>2, <1>3, <1>4, <2>2, <2>5, MultisigAssumption DEF Nested
  <2>7. Descending'
    BY <1>1, <1>2, <2>2, <2>5 DEF Descending, Recurring, Top
  <2>8. /\ Committed'.multisig = Committed.multisig
        /\ Committed'.transaction = Committed.transaction
        /\ Committed'.performed = Committed.performed
    BY <2>1, <2>4
  <2> QED
    BY <2>6, <2>7, <2>8 DEF CallsInv
<1>5. CASE stack # <<>>
  <2>1. saved' = saved /\ ~ Top.returned /\ Top.account.instruction = ExecuteIx(t)
    BY <1>5 DEF Enter
  <2>2. Nested(stack) /\ Descending
    BY <1>5, <2>1 DEF CallsInv, Unwinding
  <2>3. /\ stack' \in Seq(Frames(saved.transaction)) /\ Len(stack') = Len(stack) + 1
        /\ Len(stack) \in Nat \ {0}
        /\ \A i \in 1 .. Len(stack) : stack'[i] = stack[i]
        /\ stack'[Len(stack) + 1] = f
    BY <1>1, <1>2, <1>5, <2>2, AppendIs DEF Nested, Descending
  <2> HIDE DEF f
  <2>4. Nested(stack)'
    <3>1. \A i \in 1 .. Len(stack') :
            /\ stack'[i].account = saved.transaction[stack'[i].transaction]
            /\ Able(saved.multisig, stack'[i].account)
      BY <1>2, <1>3, <2>2, <2>3 DEF Nested, Descending
    <3>2. \A i \in 1 .. Len(stack') - 1 :
            /\ ~ stack'[i].returned
            /\ stack'[i].account.instruction = ExecuteIx(stack'[i + 1].transaction)
      <4> SUFFICES ASSUME NEW i \in 1 .. Len(stack)
                   PROVE  /\ ~ stack'[i].returned
                          /\ stack'[i].account.instruction
                               = ExecuteIx(stack'[i + 1].transaction)
        BY <2>3
      <4>1. CASE i = Len(stack)
        BY <1>2, <2>1, <2>3, <4>1 DEF Top
      <4>2. CASE i # Len(stack)
        <5>1. i \in 1 .. Len(stack) - 1 /\ i + 1 \in 1 .. Len(stack)
          BY <2>3, <4>2
        <5> QED
          BY <2>2, <2>3, <5>1 DEF Nested
      <4> QED
        BY <4>1, <4>2
    <3> QED
      BY <1>1, <2>1, <2>3, <3>1, <3>2, MultisigAssumption DEF Nested
  <2>5. Recurring(stack')
    BY <1>1, <1>2, <2>1, <2>2, EnterRecurs DEF Descending
  <2>6. Descending'
    BY <1>1, <1>2, <2>1, <2>2, <2>3, <2>5 DEF Descending, Top
  <2>7. Committed' = Committed
    BY <1>5, <2>1, <2>3 DEF Committed
  <2> QED
    BY <2>4, <2>6, <2>7 DEF CallsInv
<1> QED
  BY <1>4, <1>5

LEMMA ReturnedNested ==
  ASSUME NEW frames, Nested(frames), frames # <<>>,
         stack' = Returned(frames), saved' = saved
  PROVE  /\ Nested(stack)' /\ Len(stack') = Len(frames)
         /\ \A i \in 1 .. Len(frames) : stack'[i].transaction = frames[i].transaction
         /\ Top'.returned
         /\ Committed' = saved
<1>1. frames \in Seq(Frames(saved.transaction)) /\ Len(frames) \in Nat \ {0}
  BY DEF Nested
<1>2. /\ stack' \in Seq(Frames(saved.transaction)) /\ Len(stack') = Len(frames)
      /\ \A i \in 1 .. Len(frames) - 1 : stack'[i] = frames[i]
      /\ stack'[Len(frames)].transaction = frames[Len(frames)].transaction
      /\ stack'[Len(frames)].account = frames[Len(frames)].account
      /\ stack'[Len(frames)].returned
  BY <1>1, ReturnedIs
<1>3. \A i \in 1 .. Len(frames) :
        /\ stack'[i].transaction = frames[i].transaction
        /\ stack'[i].account = frames[i].account
  BY <1>1, <1>2
<1>4. \A i \in 1 .. Len(frames) :
        /\ stack'[i].account = saved.transaction[stack'[i].transaction]
        /\ Able(saved.multisig, stack'[i].account)
  BY <1>3 DEF Nested
<1>5. \A i \in 1 .. Len(frames) - 1 :
        /\ ~ stack'[i].returned
        /\ stack'[i].account.instruction = ExecuteIx(stack'[i + 1].transaction)
  <2> SUFFICES ASSUME NEW i \in 1 .. Len(frames) - 1
               PROVE  /\ ~ stack'[i].returned
                      /\ stack'[i].account.instruction = ExecuteIx(stack'[i + 1].transaction)
    OBVIOUS
  <2>1. i + 1 \in 1 .. Len(frames) /\ i \in 1 .. Len(frames)
    BY <1>1
  <2> QED
    BY <1>2, <1>3, <2>1 DEF Nested
<1>6. Nested(stack)'
  BY <1>2, <1>4, <1>5 DEF Nested
<1>7. Committed' = saved
  BY <1>1, <1>2 DEF Committed
<1> QED
  BY <1>2, <1>3, <1>6, <1>7 DEF Top

-----------------------------------------------------------------------------
(* The turning point                                                       *)

(* When an instruction other than an execution is invoked, the calls in    *)
(* progress are of distinct transactions.                                  *)
LEMMA NoRecurrence ==
  ASSUME Nested(stack), Recurring(stack), stack # <<>>, NEW after, NEW signed,
         Leads(multisig, after, Top.account.instruction, signed)
  PROVE  \A i, j \in 1 .. Len(stack) :
           stack[i].transaction = stack[j].transaction => i = j
<1> DEFINE n == Len(stack)
           T(i) == stack[i].transaction
<1>1. n \in Nat \ {0}
  BY DEF Nested
<1>2. ASSUME NEW i \in 1 .. n, NEW j \in 1 .. n, i < j, T(i) = T(j) PROVE FALSE
  <2> DEFINE k == i + (n - j)
  <2>1. T(k) = T(n)
    BY <1>2 DEF Recurring
  <2>2. k \in 1 .. n - 1 /\ k \in 1 .. n /\ n \in 1 .. n
    BY <1>1, <1>2
  <2> HIDE DEF k
  <2>3. stack[k].account = stack[n].account
    BY <2>1, <2>2 DEF Nested
  <2>4. stack[n].account.instruction = ExecuteIx(T(k + 1))
    BY <2>2, <2>3 DEF Nested
  <2> QED
    BY <2>4, LeadsNowhere DEF Top
<1> QED
  BY <1>1, <1>2

LEMMA InvokeKeeps ==
  ASSUME CallsInv, Invoke
  PROVE  CallsInv' /\ Committed' = Committed
<1> DEFINE n == Len(stack)
           signed == {stack[i].account.multisig : i \in DOMAIN stack}
<1>1. /\ stack # <<>> /\ ~ Top.returned
      /\ Effect(Top.account.instruction, signed)
      /\ stack' = Returned(stack) /\ saved' = saved
      /\ transaction' = transaction /\ performed' = performed
  BY DEF Invoke
<1>2. Nested(stack) /\ Descending
  BY <1>1 DEF CallsInv, Unwinding
<1>3. n \in Nat \ {0} /\ n <= MaxHeight /\ stack \in Seq(Frames(saved.transaction))
  BY <1>1, <1>2 DEF Nested
<1>4. Leads(saved.multisig, multisig', Top.account.instruction, signed)
  BY <1>1, <1>2, EffectLeads DEF Descending
<1>5. \A i, j \in 1 .. n : stack[i].transaction = stack[j].transaction => i = j
  BY <1>1, <1>2, <1>4, NoRecurrence DEF Descending
<1>6. \A i \in 1 .. n : /\ stack[i].transaction \in DOMAIN saved.transaction
                        /\ stack[i].account = saved.transaction[stack[i].transaction]
                        /\ Able(saved.multisig, stack[i].account)
  <2>1. \A i \in 1 .. n : stack[i] \in Frames(saved.transaction)
    BY <1>3
  <2> QED
    BY <1>2, <2>1 DEF Nested, Frames
<1>7. DOMAIN saved.transaction \subseteq Txs
  BY <1>1 DEF CallsInv, Shaped, Committed
<1>a. PICK c : c = [i \in 1 .. n |-> stack[i].transaction]
  OBVIOUS
<1>8. c \in [1 .. n -> Txs]
  BY <1>a, <1>6, <1>7
<1>9. \A i \in 1 .. n : c[i] = stack[i].transaction
  BY <1>a
<1>10. Len(c) = n /\ DOMAIN c = 1 .. n
  BY <1>3, <1>8
<1>11. c \in Chains
  <2>1. IsInjective(c)
    BY <1>5, <1>9, <1>10 DEF IsInjective
  <2>2. n \in 1 .. MaxHeight
    BY <1>3, MultisigAssumption
  <2> QED
    BY <1>8, <2>1, <2>2 DEF Chains
<1>12. signed = {saved.transaction[c[i]].multisig : i \in 1 .. Len(c)}
  <2>1. DOMAIN stack = 1 .. n
    BY <1>3
  <2> QED
    BY <1>6, <1>9, <1>10, <2>1
<1>13. /\ Nested(stack)' /\ Len(stack') = n
       /\ \A i \in 1 .. n : stack'[i].transaction = stack[i].transaction
       /\ Top'.returned
       /\ Committed' = Committed
  BY <1>1, <1>2, ReturnedNested DEF Committed
<1>14. Unwinding(c)'
  <2>1. \A i \in 1 .. n - 1 : saved.transaction[c[i]].instruction = ExecuteIx(c[i + 1])
    <3> SUFFICES ASSUME NEW i \in 1 .. n - 1
                 PROVE  saved.transaction[c[i]].instruction = ExecuteIx(c[i + 1])
      OBVIOUS
    <3>1. i \in 1 .. n /\ i + 1 \in 1 .. n
      BY <1>3
    <3>2. stack[i].account.instruction = ExecuteIx(stack[i + 1].transaction)
      BY <1>2 DEF Nested
    <3> QED
      BY <1>6, <1>9, <3>1, <3>2
  <2>2. Leads(saved.multisig, multisig', saved.transaction[c[n]].instruction,
              {saved.transaction[c[i]].multisig : i \in 1 .. Len(c)})
    <3>1. Top.account = saved.transaction[c[n]]
      BY <1>3, <1>6, <1>9 DEF Top
    <3> QED
      BY <1>4, <1>12, <3>1
  <2>3. Left(c)' = {}
    BY <1>3, <1>10, <1>13 DEF Left
  <2>4. /\ transaction' = [t \in DOMAIN saved.transaction |-> saved.transaction[t]]
        /\ performed' = [t \in Txs |-> saved.performed[t]]
    BY <1>1, <1>2 DEF CallsInv, Shaped, Committed, Descending
  <2> HIDE DEF signed
  <2>5. /\ transaction' = [t \in DOMAIN saved.transaction |->
             IF t \in Left(c)' THEN Burn(saved.transaction[t]) ELSE saved.transaction[t]]
        /\ performed' = [t \in Txs |->
             IF t \in Left(c)' THEN saved.performed[t] + 1 ELSE saved.performed[t]]
    BY <2>3, <2>4
  <2>6. \A i \in 1 .. n : c[i] \in DOMAIN saved.transaction
                          /\ Able(saved.multisig, saved.transaction[c[i]])
    BY <1>6, <1>9
  <2> QED
    BY <1>1, <1>3, <1>9, <1>10, <1>13, <2>1, <2>2, <2>5, <2>6 DEF Unwinding
<1> QED
  BY <1>11, <1>13, <1>14 DEF CallsInv

-----------------------------------------------------------------------------
(* The way out                                                             *)

LEMMA FrontNested ==
  ASSUME Nested(stack), NEW frames, frames = Front(stack), stack # <<>>
  PROVE  /\ Nested(frames) /\ Len(frames) = Len(stack) - 1
         /\ \A i \in 1 .. Len(frames) : frames[i] = stack[i]
<1>1. stack \in Seq(Frames(saved.transaction)) /\ Len(stack) <= MaxHeight
  BY DEF Nested
<1>2. /\ frames \in Seq(Frames(saved.transaction))
      /\ Len(stack) \in Nat \ {0}
      /\ Len(frames) = Len(stack) - 1
      /\ \A i \in 1 .. Len(stack) - 1 : frames[i] = stack[i]
  BY <1>1, FrontIs
<1>3. Len(frames) <= MaxHeight
  BY <1>1, <1>2, MultisigAssumption
<1>4. \A i \in 1 .. Len(frames) :
        /\ frames[i].account = saved.transaction[frames[i].transaction]
        /\ Able(saved.multisig, frames[i].account)
  BY <1>2 DEF Nested
<1>5. \A i \in 1 .. Len(frames) - 1 :
        /\ ~ frames[i].returned
        /\ frames[i].account.instruction = ExecuteIx(frames[i + 1].transaction)
  <2> SUFFICES ASSUME NEW i \in 1 .. Len(frames) - 1
               PROVE  /\ ~ frames[i].returned
                      /\ frames[i].account.instruction = ExecuteIx(frames[i + 1].transaction)
    OBVIOUS
  <2>1. i \in 1 .. Len(stack) - 1 /\ i + 1 \in 1 .. Len(stack) - 1
    BY <1>2
  <2> QED
    BY <1>2, <2>1 DEF Nested
<1> QED
  BY <1>2, <1>3, <1>4, <1>5 DEF Nested

LEMMA BurnTx ==
  ASSUME NEW tx, HasFlag(tx)
  PROVE  HasFlag(Burn(tx)) /\ Burn(tx).did_execute = TRUE
  BY Zenon DEF Burn, HasFlag

LEMMA SameBurn == \A tx : Exit(tx) = Burn(tx) /\ Atomic!Burn(tx) = Burn(tx)
  BY Zenon DEF Burn, Exit, Atomic!Burn

(* What a return leaves: the accounts with one more call of the chain      *)
(* stored.                                                                 *)
Stored(left) ==
  /\ transaction' = [t \in DOMAIN saved.transaction |->
       IF t \in left THEN Burn(saved.transaction[t]) ELSE saved.transaction[t]]
  /\ performed' = [t \in Txs |->
       IF t \in left THEN saved.performed[t] + 1 ELSE saved.performed[t]]
  /\ multisig' = multisig

LEMMA ReturnStores ==
  ASSUME CallsInv, Return, NEW c \in Chains, Unwinding(c),
         NEW left, left = {c[i] : i \in Len(stack) .. Len(c)}
  PROVE  Stored(left)
<1> DEFINE n == Len(stack)
           N == Len(c)
<1>1. stack # <<>> /\ Nested(stack) /\ Shaped(saved.transaction, saved.performed)
  BY DEF CallsInv, Return, Committed
<1>2. n \in Nat \ {0} /\ n <= N
  BY <1>1 DEF Nested, Unwinding
<1>3. PICK l \in 1 .. MaxHeight : c \in [1 .. l -> Txs]
  BY DEF Chains
<1>4. l = N /\ N \in Nat /\ c \in [1 .. N -> Txs]
  BY <1>3, MultisigAssumption
<1>5. \A i, j \in 1 .. N : c[i] = c[j] => i = j
  BY <1>4 DEF Chains, IsInjective
<1>6. Top.transaction = c[n] /\ Top.account = saved.transaction[c[n]]
      /\ c[n] \in DOMAIN saved.transaction /\ c[n] \in Txs
  BY <1>1, <1>2, <1>4 DEF Unwinding, Nested, Top
<1>7. Exit(Top.account) = Burn(saved.transaction[c[n]])
  BY <1>6, SameBurn
<1>8. left = Left(c) \cup {c[n]} /\ c[n] \notin Left(c)
  <2>1. \A i : i \in n .. N <=> i = n \/ i \in n + 1 .. N
    BY <1>2, <1>4
  <2>2. \A i \in n + 1 .. N : i \in 1 .. N /\ i # n /\ n \in 1 .. N
    BY <1>2, <1>4
  <2> QED
    BY <1>5, <2>1, <2>2 DEF Left
<1>9. transaction' = [transaction EXCEPT ![c[n]] = Burn(saved.transaction[c[n]])]
  BY <1>6, <1>7 DEF Return
<1>10. performed' = [performed EXCEPT ![c[n]] = performed[c[n]] + 1]
  BY <1>6 DEF Return
<1>11. transaction = [t \in DOMAIN saved.transaction |->
         IF t \in Left(c) THEN Burn(saved.transaction[t]) ELSE saved.transaction[t]]
  BY DEF Unwinding
<1>12. performed = [t \in Txs |->
         IF t \in Left(c) THEN saved.performed[t] + 1 ELSE saved.performed[t]]
  BY DEF Unwinding
<1>13. transaction' = [t \in DOMAIN saved.transaction |->
         IF t \in left THEN Burn(saved.transaction[t]) ELSE saved.transaction[t]]
  BY <1>6, <1>8, <1>9, <1>11
<1>14. performed' = [t \in Txs |->
         IF t \in left THEN saved.performed[t] + 1 ELSE saved.performed[t]]
  BY <1>6, <1>8, <1>10, <1>12
<1> QED
  BY <1>13, <1>14 DEF Return, Stored

(* While other calls wait, a return passes the chain on to the one before. *)
LEMMA InnerReturn ==
  ASSUME CallsInv, Return, Len(stack) # 1
  PROVE  CallsInv' /\ Committed' = Committed
<1> DEFINE n == Len(stack)
<1>1. /\ stack # <<>> /\ Nested(stack) /\ Top.returned
      /\ stack' = Returned(Front(stack)) /\ saved' = saved /\ Committed = saved
  BY DEF CallsInv, Return, Committed
<1>2. PICK c \in Chains : Unwinding(c)
  BY <1>1 DEF CallsInv, Descending
<1>3. n \in Nat \ {0, 1} /\ n <= Len(c)
  BY <1>1, <1>2 DEF Nested, Unwinding
<1>4. PICK frames : frames = Front(stack)
  OBVIOUS
<1>5. /\ Nested(frames) /\ Len(frames) = n - 1
      /\ \A i \in 1 .. n - 1 : frames[i] = stack[i]
  BY <1>1, <1>4, FrontNested
<1>6. frames # <<>>
  BY <1>3, <1>5
<1>7. /\ Nested(stack)' /\ Len(stack') = n - 1
      /\ \A i \in 1 .. n - 1 : stack'[i].transaction = stack[i].transaction
      /\ Top'.returned
      /\ Committed' = saved
  BY <1>1, <1>4, <1>5, <1>6, ReturnedNested
<1>8. PICK left : left = {c[i] : i \in n .. Len(c)}
  OBVIOUS
<1>9. /\ transaction' = [t \in DOMAIN saved.transaction |->
           IF t \in left THEN Burn(saved.transaction[t]) ELSE saved.transaction[t]]
      /\ performed' = [t \in Txs |->
           IF t \in left THEN saved.performed[t] + 1 ELSE saved.performed[t]]
      /\ multisig' = multisig
  <2>1. Stored(left)
    BY <1>2, <1>8, ReturnStores
  <2> QED
    BY <2>1 DEF Stored
<1>10. Left(c)' = left
  BY <1>3, <1>7, <1>8 DEF Left
<1>11. \A i \in 1 .. n - 1 : stack'[i].transaction = c[i]
  BY <1>2, <1>3, <1>7 DEF Unwinding
<1>12. n - 1 <= Len(c)
  <2>1. PICK l \in 1 .. MaxHeight : c \in [1 .. l -> Txs]
    BY DEF Chains
  <2> QED
    BY <1>3, <2>1, MultisigAssumption
<1>13. Unwinding(c)'
  BY <1>1, <1>2, <1>7, <1>9, <1>10, <1>11, <1>12 DEF Unwinding
<1> QED
  BY <1>1, <1>2, <1>7, <1>13 DEF CallsInv

(* The return of the outermost call: the execution of the whole chain.     *)
LEMMA OuterReturn ==
  ASSUME CallsInv, Return, Len(stack) = 1
  PROVE  CallsInv' /\ \E c \in Chains : Atomic!ExecuteTransaction(c)
<1>1. /\ stack # <<>> /\ Nested(stack) /\ Top.returned
      /\ stack' = Returned(Front(stack)) /\ Committed = saved
  BY DEF CallsInv, Return, Committed
<1>2. PICK c \in Chains : Unwinding(c)
  BY <1>1 DEF CallsInv, Descending
<1>3. PICK N \in 1 .. MaxHeight : c \in [1 .. N -> Txs]
  BY DEF Chains
<1>4. Len(c) = N /\ DOMAIN c = 1 .. N /\ N \in Nat \ {0}
  BY <1>3, MultisigAssumption
<1>5. PICK left : left = {c[i] : i \in 1 .. N}
  OBVIOUS
<1>6. /\ transaction' = [t \in DOMAIN saved.transaction |->
           IF t \in left THEN Burn(saved.transaction[t]) ELSE saved.transaction[t]]
      /\ performed' = [t \in Txs |->
           IF t \in left THEN saved.performed[t] + 1 ELSE saved.performed[t]]
      /\ multisig' = multisig
  <2>1. left = {c[i] : i \in Len(stack) .. Len(c)}
    BY <1>4, <1>5
  <2>2. Stored(left)
    BY <1>2, <2>1, ReturnStores
  <2> QED
    BY <2>2 DEF Stored
<1>7. stack' = <<>>
  <2>1. PICK frames : frames = Front(stack)
    OBVIOUS
  <2>2. Len(frames) = 0 /\ Nested(frames)
    BY <1>1, <2>1, FrontNested
  <2>3. frames = <<>>
    BY <2>2 DEF Nested
  <2> QED
    BY <1>1, <2>1, <2>3 DEF Returned
<1>8. Committed' = [multisig |-> multisig', transaction |-> transaction',
                    performed |-> performed']
  BY <1>7 DEF Committed, Accounts
<1>9. /\ Committed'.multisig = multisig' /\ Committed'.transaction = transaction'
      /\ Committed'.performed = performed'
  BY <1>8
<1>10. \A i \in 1 .. N : /\ c[i] \in DOMAIN saved.transaction
                         /\ Able(saved.multisig, saved.transaction[c[i]])
  BY <1>2, <1>4 DEF Unwinding
<1>11. Atomic!Range(c) = left
  BY <1>4, <1>5 DEF Atomic!Range
<1>12. Atomic!ExecuteTransaction(c)
  <2>1. /\ left \subseteq DOMAIN Committed.transaction
        /\ \A t \in left : Atomic!Executable(Committed.transaction[t])
    BY <1>1, <1>5, <1>10, AtomicAble
  <2>2. \A i \in 1 .. Len(c) - 1 :
          Committed.transaction[c[i]].instruction = Atomic!ExecuteIx(c[i + 1])
    BY <1>1, <1>2 DEF Unwinding, ExecuteIx, Atomic!ExecuteIx
  <2>3. Atomic!Effect(Committed.transaction[c[Len(c)]].instruction,
                      {Committed.transaction[t].multisig : t \in left})
    <3>1. {saved.transaction[c[i]].multisig : i \in 1 .. Len(c)}
            = {saved.transaction[t].multisig : t \in left}
      BY <1>4, <1>5
    <3>2. Leads(Committed.multisig, Committed'.multisig,
                Committed.transaction[c[Len(c)]].instruction,
                {Committed.transaction[t].multisig : t \in left})
      <4>1. Leads(saved.multisig, multisig, saved.transaction[c[Len(c)]].instruction,
                  {saved.transaction[c[i]].multisig : i \in 1 .. Len(c)})
        BY <1>2 DEF Unwinding
      <4>2. /\ Committed.multisig = saved.multisig /\ Committed'.multisig = multisig
            /\ Committed.transaction = saved.transaction
        BY <1>1, <1>6, <1>9
      <4> QED
        BY <3>1, <4>1, <4>2
    <3> QED
      BY <3>2, AtomicEffect
  <2>4. /\ Committed'.transaction = [t \in DOMAIN Committed.transaction |->
             IF t \in left THEN Atomic!Burn(Committed.transaction[t])
                           ELSE Committed.transaction[t]]
        /\ Committed'.performed = [t \in Txs |->
             IF t \in left THEN Committed.performed[t] + 1 ELSE Committed.performed[t]]
    BY <1>1, <1>6, <1>9, SameBurn
  <2> QED
    BY <1>11, <2>1, <2>2, <2>3, <2>4 DEF Atomic!ExecuteTransaction, Return
<1>13. Shaped(Committed'.transaction, Committed'.performed)
  <2>1. Shaped(saved.transaction, saved.performed)
    BY <1>1 DEF CallsInv
  <2>2. \A t \in left : HasFlag(saved.transaction[t]) /\ ~ saved.transaction[t].did_execute
    BY <1>5, <1>10, <2>1 DEF Shaped, Able
  <2>3. \A t \in left : /\ HasFlag(Burn(saved.transaction[t]))
                        /\ Burn(saved.transaction[t]).did_execute = TRUE
    BY <2>2, BurnTx
  <2>4. left \subseteq DOMAIN saved.transaction
    BY <1>5, <1>10
  <2>5. /\ DOMAIN transaction' = DOMAIN saved.transaction
        /\ \A t \in DOMAIN saved.transaction :
             transaction'[t] = IF t \in left THEN Burn(saved.transaction[t])
                                             ELSE saved.transaction[t]
    BY <1>6
  <2>6. \A t \in Txs : performed'[t] =
          IF t \in DOMAIN transaction' /\ transaction'[t].did_execute THEN 1 ELSE 0
    BY <1>6, <2>1, <2>2, <2>3, <2>4 DEF Shaped
  <2>7. /\ DOMAIN transaction' \subseteq Txs
        /\ transaction' = [t \in DOMAIN transaction' |-> transaction'[t]]
    BY <1>6, <2>1 DEF Shaped
  <2>8. \A t \in DOMAIN transaction' : HasFlag(transaction'[t])
    BY <2>1, <2>3, <2>5 DEF Shaped
  <2>9. performed' \in [Txs -> Nat]
    BY <1>6, <2>1 DEF Shaped
  <2> QED
    BY <1>9, <2>6, <2>7, <2>8, <2>9 DEF Shaped
<1> QED
  BY <1>7, <1>12, <1>13 DEF CallsInv

LEMMA AbortKeeps ==
  ASSUME CallsInv, Abort
  PROVE  /\ CallsInv'
         /\ Committed'.multisig = Committed.multisig
         /\ Committed'.transaction = Committed.transaction
         /\ Committed'.performed = Committed.performed
<1>1. Committed = saved /\ stack' = <<>>
  BY DEF Abort, Committed
<1>2. Committed' = [multisig |-> multisig', transaction |-> transaction',
                    performed |-> performed']
  BY <1>1 DEF Committed, Accounts
<1>3. /\ Committed'.multisig = Committed.multisig
      /\ Committed'.transaction = Committed.transaction
      /\ Committed'.performed = Committed.performed
  BY <1>1, <1>2 DEF Abort
<1> QED
  BY <1>1, <1>3 DEF CallsInv

-----------------------------------------------------------------------------
(* Between executions                                                      *)

Idle == stack = <<>> /\ stack' = stack /\ saved' = saved

LEMMA IdleIs ==
  ASSUME Idle
  PROVE  /\ Committed.multisig = multisig /\ Committed.transaction = transaction
         /\ Committed.performed = performed
         /\ Committed'.multisig = multisig' /\ Committed'.transaction = transaction'
         /\ Committed'.performed = performed'
<1>1. Committed = [multisig |-> multisig, transaction |-> transaction, performed |-> performed]
  BY DEF Idle, Committed, Accounts
<1>2. Committed' = [multisig |-> multisig', transaction |-> transaction',
                    performed |-> performed']
  BY DEF Idle, Committed, Accounts
<1> QED
  BY <1>1, <1>2

LEMMA IdleShaped ==
  ASSUME CallsInv, Idle
  PROVE  /\ Shaped(transaction, performed)
         /\ Shaped(transaction', performed') => CallsInv'
  BY IdleIs DEF CallsInv, Idle

LEMMA CreateMultisigKeeps ==
  ASSUME CallsInv, Idle, NEW m, NEW l, NEW th, NEW n, CreateMultisig(m, l, th, n)
  PROVE  CallsInv' /\ Atomic!CreateMultisig(m, l, th, n)
<1>1. CallsInv'
  BY IdleShaped DEF CreateMultisig
<1>2. Atomic!CreateMultisig(m, l, th, n)
  BY IdleIs DEF CreateMultisig, Atomic!CreateMultisig, AssertUniqueOwners,
                Atomic!AssertUniqueOwners, IsInjective, Atomic!IsInjective
<1> QED
  BY <1>1, <1>2

LEMMA CreateTransactionKeeps ==
  ASSUME CallsInv, Idle, NEW t \in Txs, NEW m, NEW p, NEW ix, CreateTransaction(t, m, p, ix)
  PROVE  CallsInv' /\ Atomic!CreateTransaction(t, m, p, ix)
<1>1. Shaped(transaction, performed) /\ t \notin DOMAIN transaction
  BY IdleShaped DEF CreateTransaction
<1>2. PICK tx :
        /\ HasFlag(tx) /\ ~ tx.did_execute
        /\ transaction' = [x \in DOMAIN transaction \cup {t} |->
             IF x # t THEN transaction[x] ELSE tx]
        /\ performed' = performed
  <2>1. PICK i \in DOMAIN multisig[m].owners :
          transaction' = [x \in DOMAIN transaction \cup {t} |->
            IF x # t THEN transaction[x] ELSE
            [multisig |-> m, instruction |-> ix,
             signers |-> [j \in DOMAIN multisig[m].owners |-> j = i],
             did_execute |-> FALSE,
             owner_set_seqno |-> multisig[m].owner_set_seqno]]
    BY DEF CreateTransaction
  <2>2. PICK tx : tx = [multisig |-> m, instruction |-> ix,
                        signers |-> [j \in DOMAIN multisig[m].owners |-> j = i],
                        did_execute |-> FALSE,
                        owner_set_seqno |-> multisig[m].owner_set_seqno]
    OBVIOUS
  <2>3. HasFlag(tx) /\ ~ tx.did_execute
    BY <2>2 DEF HasFlag
  <2> QED
    BY <2>1, <2>2, <2>3 DEF CreateTransaction
<1>3. Shaped(transaction', performed')
  BY <1>1, <1>2 DEF Shaped
<1>4. Atomic!CreateTransaction(t, m, p, ix)
  <2>1. PICK i \in DOMAIN multisig[m].owners :
          /\ multisig[m].owners[i] = p
          /\ transaction' = [x \in DOMAIN transaction \cup {t} |->
               IF x # t THEN transaction[x] ELSE
               [multisig |-> m, instruction |-> ix,
                signers |-> [j \in DOMAIN multisig[m].owners |-> j = i],
                did_execute |-> FALSE,
                owner_set_seqno |-> multisig[m].owner_set_seqno]]
    BY DEF CreateTransaction
  <2>2. /\ i \in DOMAIN Committed.multisig[m].owners
        /\ Committed.multisig[m].owners[i] = p
        /\ Committed'.transaction = [x \in DOMAIN Committed.transaction \cup {t} |->
               IF x # t THEN Committed.transaction[x] ELSE
               [multisig |-> m, instruction |-> ix,
                signers |-> [j \in DOMAIN Committed.multisig[m].owners |-> j = i],
                did_execute |-> FALSE,
                owner_set_seqno |-> Committed.multisig[m].owner_set_seqno]]
    BY <2>1, IdleIs
  <2>3. /\ t \notin DOMAIN Committed.transaction /\ m \in DOMAIN Committed.multisig
        /\ Committed'.multisig = Committed.multisig
        /\ Committed'.performed = Committed.performed
    BY IdleIs DEF CreateTransaction
  <2>4. approved' = [approved EXCEPT ![t] = {p}]
    BY DEF CreateTransaction
  <2> QED
    BY <2>2, <2>3, <2>4, Zenon DEF Atomic!CreateTransaction
<1> QED
  BY <1>3, <1>4, IdleShaped

LEMMA ApproveKeeps ==
  ASSUME CallsInv, Idle, NEW t \in Txs, NEW p, Approve(t, p)
  PROVE  CallsInv' /\ Atomic!Approve(t, p)
<1>1. Shaped(transaction, performed) /\ t \in DOMAIN transaction
  BY IdleShaped DEF Approve
<1>2. PICK i : transaction' = [transaction EXCEPT ![t].signers[i] = TRUE]
  BY DEF Approve
<1>3. PICK tx : tx = [transaction[t] EXCEPT !.signers[i] = TRUE]
  OBVIOUS
<1>4. transaction' = [transaction EXCEPT ![t] = tx] /\ performed' = performed
  BY <1>2, <1>3, Zenon DEF Approve
<1>5. HasFlag(tx) /\ tx.did_execute = transaction[t].did_execute
  <2>1. HasFlag(transaction[t])
    BY <1>1 DEF Shaped
  <2> QED
    BY <1>3, <2>1, Zenon DEF HasFlag
<1>6. Shaped(transaction', performed')
  BY <1>1, <1>4, <1>5 DEF Shaped
<1>7. Atomic!Approve(t, p)
  BY IdleIs, Zenon DEF Approve, Atomic!Approve, Current, Atomic!Current
<1> QED
  BY <1>6, <1>7, IdleShaped

-----------------------------------------------------------------------------
(* The theorems                                                            *)

LEMMA CallsInvInit == CallsInit => CallsInv /\ Atomic!MultisigInit
<1> SUFFICES ASSUME CallsInit PROVE CallsInv /\ Atomic!MultisigInit
  OBVIOUS
<1>1. stack = <<>> /\ MultisigInit
  BY DEF CallsInit
<1>2. Committed = [multisig |-> multisig, transaction |-> transaction, performed |-> performed]
  BY <1>1 DEF Committed, Accounts
<1>3. /\ Committed.multisig = multisig /\ Committed.transaction = transaction
      /\ Committed.performed = performed
  BY <1>2
<1>4. Shaped(transaction, performed)
  BY <1>1 DEF MultisigInit, Shaped
<1>5. Atomic!MultisigInit
  BY <1>1, <1>3 DEF MultisigInit, Atomic!MultisigInit
<1> QED
  BY <1>1, <1>3, <1>4, <1>5 DEF CallsInv

(* Nothing becomes visible, or one step of Multisig.                       *)
LEMMA CallsStep ==
  ASSUME CallsInv, [CallsNext]_callVars
  PROVE  CallsInv' /\ (Atomic!MultisigNext \/ UNCHANGED Atomic!multisigVars)
<1>1. ASSUME UNCHANGED callVars PROVE CallsInv' /\ UNCHANGED Atomic!multisigVars
  <2>1. /\ stack' = stack /\ saved' = saved /\ multisig' = multisig
        /\ transaction' = transaction /\ performed' = performed /\ approved' = approved
    BY <1>1 DEF callVars, multisigVars
  <2>2. Committed' = Committed
    BY <2>1 DEF Committed, Accounts
  <2>3. Nested(stack)' = Nested(stack) /\ Descending' = Descending
    BY <2>1 DEF Nested, Descending, Recurring, Top
  <2>4. \A c : Unwinding(c)' = Unwinding(c)
    BY <2>1 DEF Unwinding, Left, Top
  <2>5. CallsInv'
    BY <2>1, <2>2, <2>3, <2>4 DEF CallsInv
  <2> QED
    BY <2>1, <2>2, <2>5 DEF Atomic!multisigVars
<1>2. ASSUME NEW m \in Multisigs, NEW l \in OwnerLists, NEW th \in Thresholds,
             NEW n \in Nonces, Otherwise(CreateMultisig(m, l, th, n))
      PROVE  CallsInv' /\ Atomic!MultisigNext
  BY <1>2, CreateMultisigKeeps DEF Otherwise, Idle, Atomic!MultisigNext
<1>3. ASSUME NEW t \in Txs, NEW m \in Multisigs, NEW p \in Owners, NEW ix \in Instructions,
             Otherwise(CreateTransaction(t, m, p, ix))
      PROVE  CallsInv' /\ Atomic!MultisigNext
  <2>1. Instructions = Atomic!Instructions
    BY DEF Instructions, Atomic!Instructions, SetOwnersIx, Atomic!SetOwnersIx,
           ChangeThresholdIx, Atomic!ChangeThresholdIx, BothIx, Atomic!BothIx,
           ExecuteIx, Atomic!ExecuteIx, CallIx, Atomic!CallIx
  <2> QED
    BY <1>3, <2>1, CreateTransactionKeeps DEF Otherwise, Idle, Atomic!MultisigNext
<1>4. ASSUME NEW t \in Txs, NEW p \in Owners, Otherwise(Approve(t, p))
      PROVE  CallsInv' /\ Atomic!MultisigNext
  BY <1>4, ApproveKeeps DEF Otherwise, Idle, Atomic!MultisigNext
<1>5. ASSUME NEW t \in Txs, Enter(t) PROVE CallsInv' /\ UNCHANGED Atomic!multisigVars
  BY <1>5, EnterKeeps DEF Atomic!multisigVars, Enter, multisigVars
<1>6. ASSUME Invoke PROVE CallsInv' /\ UNCHANGED Atomic!multisigVars
  BY <1>6, InvokeKeeps DEF Atomic!multisigVars, Invoke
<1>7. ASSUME Return PROVE CallsInv' /\ (Atomic!MultisigNext \/ UNCHANGED Atomic!multisigVars)
  <2>1. Chains = Atomic!Chains
    BY DEF Chains, Atomic!Chains, IsInjective, Atomic!IsInjective
  <2>2. CASE Len(stack) # 1
    BY <1>7, <2>2, InnerReturn DEF Atomic!multisigVars, Return
  <2>3. CASE Len(stack) = 1
    BY <1>7, <2>1, <2>3, OuterReturn DEF Atomic!MultisigNext
  <2> QED
    BY <2>2, <2>3
<1>8. ASSUME Abort PROVE CallsInv' /\ UNCHANGED Atomic!multisigVars
  BY <1>8, AbortKeeps DEF Atomic!multisigVars, Abort
<1> QED
  BY <1>1, <1>2, <1>3, <1>4, <1>5, <1>6, <1>7, <1>8 DEF CallsNext

LEMMA CallsInvAlways == CallsSpec => []CallsInv
<1>1. CallsInv /\ [CallsNext]_callVars => CallsInv'
  BY CallsStep
<1> QED
  BY <1>1, CallsInvInit, PTL DEF CallsSpec

(* Executions call by call, with failures at any point and accounts        *)
(* entered again before they are marked, implement executions of distinct  *)
(* transactions in one step.                                               *)
THEOREM AtomicSafe == CallsSpec => CallsAreAtomic
<1>1. CallsInv /\ [CallsNext]_callVars => [Atomic!MultisigNext]_(Atomic!multisigVars)
  BY CallsStep
<1> QED
  BY <1>1, CallsInvAlways, CallsInvInit, PTL DEF CallsSpec, CallsAreAtomic, Atomic!MultisigSpec

(* Also while calls are in progress, no stored instruction has taken       *)
(* effect twice.                                                           *)
THEOREM OnceSafe == CallsSpec => []PerformedOnce
<1>1. CallsInv => PerformedOnce
  <2> SUFFICES ASSUME CallsInv PROVE PerformedOnce
    OBVIOUS
  <2>1. CASE stack = <<>>
    <3>1. Shaped(transaction, performed)
      BY <2>1 DEF CallsInv, Committed, Accounts
    <3> QED
      BY <3>1 DEF Shaped, PerformedOnce
  <2>2. CASE stack # <<>>
    <3>1. Shaped(saved.transaction, saved.performed)
      BY <2>2 DEF CallsInv, Committed
    <3>2. CASE Descending
      BY <3>1, <3>2 DEF Descending, Shaped, PerformedOnce
    <3>3. ASSUME NEW c \in Chains, Unwinding(c) PROVE PerformedOnce
      <4>1. PICK N \in 1 .. MaxHeight : c \in [1 .. N -> Txs]
        BY DEF Chains
      <4>2. Len(c) = N /\ N \in Nat
        BY <4>1, MultisigAssumption
      <4>3. Len(stack) \in Nat
        BY <2>2 DEF CallsInv, Nested
      <4>4. \A t \in Left(c) : /\ t \in DOMAIN saved.transaction
                               /\ ~ saved.transaction[t].did_execute
        BY <3>3, <4>2, <4>3 DEF Unwinding, Left, Able
      <4>5. \A t \in Left(c) : Burn(saved.transaction[t]).did_execute = TRUE
        BY <3>1, <4>4, BurnTx DEF Shaped
      <4> QED
        BY <3>1, <3>3, <4>4, <4>5 DEF Unwinding, Shaped, PerformedOnce
    <3> QED
      BY <2>2, <3>2, <3>3 DEF CallsInv
  <2> QED
    BY <2>1, <2>2
<1> QED
  BY <1>1, CallsInvAlways, PTL
=============================================================================
