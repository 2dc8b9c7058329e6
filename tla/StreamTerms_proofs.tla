-------------------------- MODULE StreamTerms_proofs -------------------------
(***************************************************************************)
(* Facts about what SOL and token streams have in common, for every word   *)
(* size, set of streams and arguments: the release schedule, the inductive *)
(* invariant of a stream, what each handler does to a stream and to the    *)
(* reserve that counts it, how sums of balances change, and how a stream   *)
(* follows its promise.                                                    *)
(***************************************************************************)
EXTENDS StreamTerms, FiniteSetTheorems, TLAPS

-----------------------------------------------------------------------------
(* Arithmetic                                                              *)

(* A u64 word: wrapping returns one, and leaves one unchanged.             *)
LEMMA WrapType == \A x \in Int : WrapU64(x) \in U64
  BY UtilsAssumption DEF WrapU64, U64

LEMMA WrapId == \A x \in U64 : WrapU64(x) = x
  BY UtilsAssumption DEF WrapU64, U64

(* The released amount is a u64 at every time, also when the elapsed time  *)
(* wraps before the start.                                                 *)
LEMMA AllowedAmtType ==
  ASSUME NEW st \in StreamRecord, st.start_time < st.end_time, NEW t \in U64
  PROVE  AllowedAmt(st, t) \in U64
<1>1. WrapU64(t - st.start_time) \in Nat /\ st.amount \in Nat
  BY WrapType, UtilsAssumption DEF U64, StreamRecord
<1>2. st.end_time - st.start_time \in Nat \ {0}
  BY UtilsAssumption DEF U64, StreamRecord
<1> DEFINE a == WrapU64(t - st.start_time) * st.amount
           d == st.end_time - st.start_time
<1>3. a \in Nat
  BY <1>1
<1>4. a \div d \in Int
  BY <1>2, <1>3
<1> QED
  BY <1>4, WrapType DEF AllowedAmt

(* Between start and end the elapsed time does not wrap.                   *)
LEMMA AllowedAmtInTerm ==
  ASSUME NEW st \in StreamRecord, NEW t \in U64,
         st.start_time <= t, t <= st.end_time, st.start_time < st.end_time
  PROVE  /\ AllowedAmt(st, t) =
              ((t - st.start_time) * st.amount) \div (st.end_time - st.start_time)
         /\ AllowedAmt(st, t) \in 0 .. st.amount
<1> DEFINE e == t - st.start_time
           m == st.amount
           d == st.end_time - st.start_time
<1>1. e \in U64 /\ m \in U64 /\ d \in Nat \ {0} /\ e <= d
  BY UtilsAssumption DEF U64, StreamRecord
<1>2. WrapU64(e) = e
  BY <1>1, WrapId
<1>3. e * m \in Nat /\ e * m <= m * d
  BY <1>1, UtilsAssumption DEF U64
<1>4. (e * m) \div d \in Nat /\ (e * m) \div d <= m
  BY <1>1, <1>3, UtilsAssumption DEF U64
<1>5. (e * m) \div d \in U64
  BY <1>1, <1>4, UtilsAssumption DEF U64
<1>6. AllowedAmt(st, t) = (e * m) \div d
  BY <1>2, <1>5, WrapId DEF AllowedAmt
<1> QED
  BY <1>1, <1>4, <1>6 DEF U64

(* Nothing is released at the start, everything at the end (the unit test  *)
(* test_allowed_amount, for all streams), and before the end not all.      *)
LEMMA AllowedAmtEnds ==
  ASSUME NEW st \in StreamRecord, st.start_time < st.end_time
  PROVE  /\ AllowedAmt(st, st.start_time) = 0
         /\ AllowedAmt(st, st.end_time) = st.amount
         /\ \A t \in U64 : st.start_time <= t /\ t < st.end_time /\ st.amount > 0
              => AllowedAmt(st, t) < st.amount
<1> DEFINE m == st.amount
           d == st.end_time - st.start_time
<1>1. m \in Nat /\ d \in Nat \ {0} /\ st.start_time \in U64 /\ st.end_time \in U64
  BY UtilsAssumption DEF U64, StreamRecord
<1>2. AllowedAmt(st, st.start_time) = 0
  <2>1. AllowedAmt(st, st.start_time) = ((st.start_time - st.start_time) * m) \div d
    BY <1>1, UtilsAssumption, AllowedAmtInTerm DEF U64
  <2>2. (st.start_time - st.start_time) * m = 0 /\ 0 \div d = 0
    BY <1>1, UtilsAssumption DEF U64
  <2> QED
    BY <2>1, <2>2
<1>3. AllowedAmt(st, st.end_time) = m
  <2>1. AllowedAmt(st, st.end_time) = (d * m) \div d
    BY <1>1, UtilsAssumption, AllowedAmtInTerm DEF U64
  <2>2. (d * m) \div d = m
    BY <1>1
  <2> QED
    BY <2>1, <2>2
<1>4. ASSUME NEW t \in U64, st.start_time <= t, t < st.end_time, m > 0
      PROVE  AllowedAmt(st, t) < m
  <2> DEFINE e == t - st.start_time
  <2>1. e \in Nat /\ e < d
    BY <1>1, <1>4, UtilsAssumption DEF U64
  <2>2. e * m \in Nat /\ e * m < m * d
    BY <1>1, <1>4, <2>1
  <2>3. (e * m) \div d < m
    BY <1>1, <2>2
  <2>4. AllowedAmt(st, t) = (e * m) \div d
    BY <1>1, <1>4, UtilsAssumption, AllowedAmtInTerm DEF U64
  <2> QED
    BY <2>3, <2>4
<1> QED
  BY <1>2, <1>3, <1>4

(* Between start and end the released amount never falls.                  *)
LEMMA AllowedAmtMonotone ==
  ASSUME NEW st \in StreamRecord, st.start_time < st.end_time,
         NEW t \in U64, NEW u \in U64,
         st.start_time <= t, t <= u, u <= st.end_time
  PROVE  AllowedAmt(st, t) <= AllowedAmt(st, u)
<1> DEFINE m == st.amount
           d == st.end_time - st.start_time
           e == t - st.start_time
           g == u - st.start_time
<1>1. m \in Nat /\ d \in Nat \ {0} /\ e \in Nat /\ g \in Nat /\ e <= g
  BY UtilsAssumption DEF U64, StreamRecord
<1>2. e * m \in Nat /\ g * m \in Nat /\ e * m <= g * m
  BY <1>1
<1>3. (e * m) \div d <= (g * m) \div d
  BY <1>1, <1>2
<1>4. t <= st.end_time /\ st.start_time <= u
  BY UtilsAssumption DEF U64, StreamRecord
<1>5. AllowedAmt(st, t) = (e * m) \div d /\ AllowedAmt(st, u) = (g * m) \div d
  BY <1>4, AllowedAmtInTerm
<1> QED
  BY <1>3, <1>5

-----------------------------------------------------------------------------
(* Sums                                                                    *)

LEMMA TotalType ==
  ASSUME NEW f, IsFiniteSet(DOMAIN f)
  PROVE  IsFiniteSet(Units(f)) /\ Total(f) \in Nat
<1>1. IsFiniteSet(1 .. MaxU64)
  BY FS_Interval, UtilsAssumption
<1>2. IsFiniteSet((DOMAIN f) \X (1 .. MaxU64))
  BY <1>1, FS_Product
<1>3. Units(f) \in SUBSET ((DOMAIN f) \X (1 .. MaxU64))
  BY DEF Units
<1>4. IsFiniteSet(Units(f))
  BY <1>2, <1>3, FS_Subset
<1> QED
  BY <1>4, FS_CardinalityType DEF Total

(* Functions with the same values have the same sum.                       *)
LEMMA TotalSame ==
  ASSUME NEW f, NEW g, DOMAIN g = DOMAIN f, \A x \in DOMAIN f : g[x] = f[x]
  PROVE  Total(g) = Total(f)
<1>1. Units(g) = Units(f)
  BY DEF Units
<1> QED
  BY <1>1 DEF Total

LEMMA TotalZero ==
  ASSUME NEW f, \A x \in DOMAIN f : f[x] = 0
  PROVE  Total(f) = 0
<1>1. Units(f) = {}
  BY UtilsAssumption DEF Units
<1> QED
  BY <1>1, FS_EmptySet DEF Total

Without(f, x) == [y \in DOMAIN f \ {x} |-> f[y]]

LEMMA TotalSplit ==
  ASSUME NEW f, IsFiniteSet(DOMAIN f), NEW x \in DOMAIN f, f[x] \in U64
  PROVE  Total(f) = Total(Without(f, x)) + f[x]
<1> DEFINE here == {x} \X (1 .. f[x])
           rest == Units(Without(f, x))
<1>1. f[x] \in Nat /\ f[x] <= MaxU64 /\ MaxU64 \in Nat
  BY UtilsAssumption DEF U64
<1>2. IsFiniteSet({x}) /\ Cardinality({x}) = 1
  BY FS_Singleton
<1>3. IsFiniteSet(1 .. f[x]) /\ Cardinality(1 .. f[x]) = f[x]
  BY <1>1, FS_Interval
<1>4. IsFiniteSet(here) /\ Cardinality(here) = f[x]
  BY <1>1, <1>2, <1>3, FS_Product
<1>5. IsFiniteSet(DOMAIN f \ {x})
  BY FS_RemoveElement
<1>6. IsFiniteSet(rest) /\ Cardinality(rest) \in Nat
  BY <1>5, TotalType DEF Without, Total
<1>7. here \cap rest = {}
  BY DEF Units, Without
<1>8. Units(f) = here \cup rest
  <2>1. ASSUME NEW u \in Units(f) PROVE u \in here \cup rest
    BY <1>1, <2>1 DEF Units, Without
  <2>2. ASSUME NEW u \in here PROVE u \in Units(f)
    BY <1>1, <2>2 DEF Units
  <2>3. ASSUME NEW u \in rest PROVE u \in Units(f)
    BY <2>3 DEF Units, Without
  <2> QED
    BY <2>1, <2>2, <2>3
<1>9. Cardinality(here \cup rest)
        = Cardinality(here) + Cardinality(rest) - Cardinality(here \cap rest)
  BY <1>4, <1>6, FS_Union
<1>10. Cardinality(here \cap rest) = 0
  BY <1>7, FS_EmptySet
<1> HIDE DEF here, rest
<1>11. Cardinality(Units(f)) = Cardinality(rest) + f[x]
  BY <1>1, <1>4, <1>6, <1>8, <1>9, <1>10
<1> QED
  BY <1>11 DEF Total, rest

(* An account that does not exist counts as empty.                         *)
At(f, x) == IF x \in DOMAIN f THEN f[x] ELSE 0

(* When one value changes, the sum changes as much.                        *)
LEMMA TotalStep ==
  ASSUME NEW f, NEW g, NEW x, IsFiniteSet(DOMAIN f),
         DOMAIN g \ {x} = DOMAIN f \ {x},
         \A y \in DOMAIN f \ {x} : g[y] = f[y],
         At(f, x) \in U64, At(g, x) \in U64
  PROVE  Total(g) = Total(f) + At(g, x) - At(f, x)
<1>1. IsFiniteSet(DOMAIN g)
  <2>1. IsFiniteSet((DOMAIN f \ {x}) \cup {x})
    BY FS_RemoveElement, FS_AddElement
  <2>2. DOMAIN g \in SUBSET ((DOMAIN f \ {x}) \cup {x})
    OBVIOUS
  <2> QED
    BY <2>1, <2>2, FS_Subset
<1>2. Total(Without(f, x)) \in Nat
  BY FS_RemoveElement, TotalType DEF Without
<1>3. Total(Without(g, x)) = Total(Without(f, x))
  BY TotalSame DEF Without
<1>4. ASSUME NEW h, IsFiniteSet(DOMAIN h), At(h, x) \in U64,
             Total(Without(h, x)) \in Nat
      PROVE  Total(h) = Total(Without(h, x)) + At(h, x)
  <2>1. CASE x \in DOMAIN h
    BY <1>4, <2>1, TotalSplit DEF At
  <2>2. CASE x \notin DOMAIN h
    <3>1. Total(Without(h, x)) = Total(h)
      BY <2>2, TotalSame DEF Without
    <3> QED
      BY <1>4, <2>2, <3>1 DEF At
  <2> QED
    BY <2>1, <2>2
<1>5. Total(f) = Total(Without(f, x)) + At(f, x)
  BY <1>2, <1>4
<1>6. Total(g) = Total(Without(f, x)) + At(g, x)
  BY <1>1, <1>2, <1>3, <1>4
<1>7. At(f, x) \in Nat /\ At(g, x) \in Nat
  BY UtilsAssumption DEF U64
<1> QED
  BY <1>2, <1>5, <1>6, <1>7

LEMMA TotalExcept ==
  ASSUME NEW S, IsFiniteSet(S), NEW f \in [S -> U64], NEW x \in S, NEW v \in U64
  PROVE  Total([f EXCEPT ![x] = v]) = Total(f) + v - f[x]
<1> DEFINE g == [f EXCEPT ![x] = v]
<1>1. DOMAIN g = DOMAIN f /\ \A y \in DOMAIN f \ {x} : g[y] = f[y]
  OBVIOUS
<1>2. At(f, x) = f[x] /\ At(g, x) = v /\ f[x] \in U64
  BY DEF At
<1> HIDE DEF g
<1>3. Total(g) = Total(f) + At(g, x) - At(f, x)
  BY <1>1, <1>2, TotalStep
<1> QED
  BY <1>2, <1>3 DEF g

(* No value is larger than the sum.                                        *)
LEMMA TotalBound ==
  ASSUME NEW f, IsFiniteSet(DOMAIN f), NEW x \in DOMAIN f, f[x] \in U64
  PROVE  f[x] <= Total(f)
<1>1. Total(Without(f, x)) \in Nat
  BY FS_RemoveElement, TotalType DEF Without
<1> QED
  BY <1>1, TotalSplit, UtilsAssumption DEF U64

-----------------------------------------------------------------------------
(* The inductive invariant of a stream                                     *)

(* Before its start a stream is untouched.  While it runs, what was paid   *)
(* and written off is covered by what is released.  While it is paused it  *)
(* is covered by the limit, which was the released amount when the pause   *)
(* began; unless the terms were updated during a pause that began at the   *)
(* start, but then the stream is still untouched.                          *)
Untouched(st) == st.withdrawn = 0 /\ st.paused_amt = 0 /\ st.withdraw_limit = 0

PausedWithin(st, t) ==
  /\ st.start_time <= st.paused_at /\ st.paused_at <= t
  /\ st.paused_at < st.end_time
  /\ st.withdraw_limit = AllowedAmt(st, st.paused_at)
  /\ st.withdrawn + st.paused_amt <= st.withdraw_limit

StreamInv(st, t) ==
  /\ t <= st.start_time => Untouched(st)
  /\ st.paused = 0 /\ t > st.start_time =>
       st.withdrawn + st.paused_amt <= Vested(st, t)
  /\ st.paused = 1 => Untouched(st) \/ PausedWithin(st, t)

LEMMA VestedType ==
  ASSUME NEW st \in StreamRecord, st.start_time < st.end_time, NEW t \in U64
  PROVE  Vested(st, t) \in U64
  BY AllowedAmtType DEF Vested, StreamRecord

(* The released amount never falls, nor exceeds the amount.                *)
LEMMA VestedMonotone ==
  ASSUME NEW st \in StreamRecord, st.start_time < st.end_time,
         NEW t \in U64, NEW u \in U64, st.start_time <= t, t <= u
  PROVE  Vested(st, t) <= Vested(st, u) /\ Vested(st, u) <= st.amount
<1>1. /\ t \in Nat /\ u \in Nat /\ st.amount \in Nat
      /\ st.start_time \in Nat /\ st.end_time \in Nat
  BY UtilsAssumption DEF U64, StreamRecord
<1>2. CASE u < st.end_time
  <2>1. AllowedAmt(st, t) <= AllowedAmt(st, u)
    BY <1>1, <1>2, AllowedAmtMonotone
  <2>2. AllowedAmt(st, u) \in 0 .. st.amount
    BY <1>1, <1>2, AllowedAmtInTerm
  <2> QED
    BY <1>1, <1>2, <2>1, <2>2 DEF Vested
<1>3. CASE u >= st.end_time
  <2>1. t < st.end_time => AllowedAmt(st, t) \in 0 .. st.amount
    BY <1>1, AllowedAmtInTerm
  <2> QED
    BY <1>1, <1>3, <2>1 DEF Vested
<1> QED
  BY <1>1, <1>2, <1>3

LEMMA InvTick ==
  ASSUME NEW st \in StreamRecord, st.start_time < st.end_time,
         NEW t \in U64, t + 1 \in U64, StreamInv(st, t)
  PROVE  StreamInv(st, t + 1)
<1>1. /\ t \in Nat /\ st.start_time \in Nat /\ st.end_time \in Nat
      /\ st.withdrawn \in Nat /\ st.paused_amt \in Nat /\ st.paused_at \in Nat
  BY UtilsAssumption DEF U64, StreamRecord
<1>2. Vested(st, t) \in Nat /\ Vested(st, t + 1) \in Nat
  BY VestedType, UtilsAssumption DEF U64
<1>3. t >= st.start_time => Vested(st, t) <= Vested(st, t + 1)
  BY <1>1, VestedMonotone
<1> QED
  BY <1>1, <1>2, <1>3 DEF StreamInv, Untouched, PausedWithin

(* New terms for a stream that has not started.                            *)
LEMMA InvUpdate ==
  ASSUME NEW st \in StreamRecord, NEW new \in StreamRecord, NEW t \in U64,
         StreamInv(st, t), t <= st.start_time,
         new.start_time < new.end_time,
         new.withdrawn = st.withdrawn, new.paused_amt = st.paused_amt,
         new.withdraw_limit = st.withdraw_limit
  PROVE  StreamInv(new, t)
<1>1. Untouched(new)
  BY DEF StreamInv, Untouched
<1>2. Vested(new, t) \in Nat
  BY VestedType, UtilsAssumption DEF U64
<1> QED
  BY <1>1, <1>2 DEF StreamInv, Untouched

(* A claim pays up to the limit.                                           *)
LEMMA InvClaim ==
  ASSUME NEW st \in StreamRecord, st.start_time < st.end_time, NEW t \in U64,
         StreamInv(st, t), t > st.start_time,
         NEW w \in U64,
         w = st.withdrawn + Payable(st, Vested(st, t)),
         NEW new, new = [st EXCEPT !.withdrawn = w]
  PROVE  StreamInv(new, t)
<1>1. /\ st.withdrawn \in Nat /\ st.paused_amt \in Nat /\ st.withdraw_limit \in Nat
      /\ t \in Nat /\ w \in Nat /\ st.start_time \in Nat /\ st.paused \in {0, 1}
  BY UtilsAssumption DEF U64, StreamRecord
<1>2. Vested(st, t) \in Nat
  BY VestedType, UtilsAssumption DEF U64
<1>3. w + st.paused_amt = Limit(st, Vested(st, t))
  BY <1>1, <1>2 DEF Payable, Limit
<1>4. /\ new.withdrawn = w /\ new.paused_amt = st.paused_amt
      /\ new.withdraw_limit = st.withdraw_limit /\ new.paused = st.paused
      /\ new.paused_at = st.paused_at /\ new.start_time = st.start_time
      /\ new.end_time = st.end_time /\ new.amount = st.amount
  BY DEF StreamRecord
<1>5. \A u \in U64 : AllowedAmt(new, u) = AllowedAmt(st, u)
  BY <1>4 DEF AllowedAmt
<1>6. Vested(new, t) = Vested(st, t)
  BY <1>4, <1>5 DEF Vested
<1>7. CASE st.paused = 0
  BY <1>1, <1>2, <1>3, <1>4, <1>6, <1>7 DEF StreamInv, Limit
<1>8. CASE st.paused = 1 /\ Untouched(st)
  <2>1. w = 0
    BY <1>1, <1>3, <1>8 DEF Limit, Untouched
  <2> QED
    BY <1>1, <1>4, <1>8, <2>1 DEF StreamInv, Untouched
<1>9. CASE st.paused = 1 /\ PausedWithin(st, t)
  <2>1. st.paused_at \in U64
    BY DEF StreamRecord
  <2>2. PausedWithin(new, t)
    BY <1>1, <1>3, <1>4, <1>5, <1>9, <2>1 DEF PausedWithin, Limit
  <2> QED
    BY <1>1, <1>4, <1>9, <2>2 DEF StreamInv
<1> QED
  BY <1>1, <1>7, <1>8, <1>9 DEF StreamInv

(* A pause records what is released as the limit.                          *)
LEMMA InvPause ==
  ASSUME NEW st \in StreamRecord, st.start_time < st.end_time, NEW t \in U64,
         StreamInv(st, t), st.paused = 0, st.start_time <= t, t < st.end_time,
         NEW a \in U64, a = AllowedAmt(st, t), NEW new,
         new = [st EXCEPT !.paused = 1, !.withdraw_limit = a, !.paused_at = t]
  PROVE  StreamInv(new, t)
<1>1. /\ st.withdrawn \in Nat /\ st.paused_amt \in Nat
      /\ t \in Nat /\ st.start_time \in Nat /\ st.end_time \in Nat
  BY UtilsAssumption DEF U64, StreamRecord
<1>2. a \in Nat /\ Vested(st, t) = a
  BY <1>1, UtilsAssumption DEF U64, Vested
<1>3. t = st.start_time => a = 0
  BY AllowedAmtEnds
<1>4. st.withdrawn + st.paused_amt <= a
  BY <1>1, <1>2 DEF StreamInv, Untouched
<1>5. /\ new.withdrawn = st.withdrawn /\ new.paused_amt = st.paused_amt
      /\ new.withdraw_limit = a /\ new.paused = 1
      /\ new.paused_at = t /\ new.start_time = st.start_time
      /\ new.end_time = st.end_time /\ new.amount = st.amount
  BY DEF StreamRecord
<1>6. AllowedAmt(new, t) = a
  BY <1>5 DEF AllowedAmt
<1>7. PausedWithin(new, t)
  BY <1>1, <1>4, <1>5, <1>6 DEF PausedWithin
<1>8. t <= new.start_time => Untouched(new)
  BY <1>1, <1>3, <1>5 DEF StreamInv, Untouched
<1> QED
  BY <1>5, <1>7, <1>8 DEF StreamInv

(* Resuming writes off what was missed, which the release covers.          *)
LEMMA InvResume ==
  ASSUME NEW st \in StreamRecord, st.start_time < st.end_time, NEW t \in U64,
         StreamInv(st, t), st.paused = 1, st.start_time <= t, t < st.end_time,
         NEW m \in U64, m = AllowedAmt(st, t) - AllowedAmt(st, st.paused_at),
         NEW w \in U64, w = st.paused_amt + m,
         NEW new, new = [st EXCEPT !.paused_amt = w, !.paused = 0, !.paused_at = 0]
  PROVE  StreamInv(new, t)
<1>1. /\ st.withdrawn \in Nat /\ st.paused_amt \in Nat /\ m \in Nat
      /\ t \in Nat /\ st.start_time \in Nat /\ st.end_time \in Nat
      /\ st.paused_at \in U64
  BY UtilsAssumption DEF U64, StreamRecord
<1>2. AllowedAmt(st, t) \in Nat /\ AllowedAmt(st, st.paused_at) \in Nat
  BY <1>1, AllowedAmtType, UtilsAssumption DEF U64
<1>3. t = st.start_time => AllowedAmt(st, t) = 0
  BY AllowedAmtEnds
<1>4. /\ new.withdrawn = st.withdrawn /\ new.paused_amt = w
      /\ new.withdraw_limit = st.withdraw_limit /\ new.paused = 0
      /\ new.start_time = st.start_time
      /\ new.end_time = st.end_time /\ new.amount = st.amount
  BY DEF StreamRecord
<1>5. AllowedAmt(new, t) = AllowedAmt(st, t) /\ Vested(new, t) = AllowedAmt(st, t)
  BY <1>1, <1>4 DEF AllowedAmt, Vested
<1>6. Untouched(st) \/ st.withdrawn + st.paused_amt <= AllowedAmt(st, st.paused_at)
  BY DEF StreamInv, PausedWithin
<1>7. st.withdrawn + w <= AllowedAmt(st, t)
  BY <1>1, <1>2, <1>6 DEF Untouched
<1>8. t <= new.start_time => Untouched(new)
  <2>1. SUFFICES ASSUME t = st.start_time PROVE Untouched(new)
    BY <1>1, <1>4
  <2>2. m = 0 /\ Untouched(st)
    BY <1>1, <1>2, <1>3, <2>1 DEF StreamInv
  <2> QED
    BY <1>1, <1>4, <2>2 DEF Untouched
<1> QED
  BY <1>4, <1>5, <1>7, <1>8 DEF StreamInv

(* The limit of a claim or a cancellation never exceeds the amount, and    *)
(* reaches it before the end only when there is none.                      *)
LEMMA LimitBound ==
  ASSUME NEW st \in StreamRecord, st.start_time < st.end_time, NEW t \in U64,
         StreamInv(st, t), st.start_time <= t
  PROVE  /\ Limit(st, Vested(st, t)) \in 0 .. st.amount
         /\ t < st.end_time /\ st.amount > 0 => Limit(st, Vested(st, t)) < st.amount
<1>1. /\ t \in Nat /\ st.start_time \in Nat /\ st.end_time \in Nat
      /\ st.amount \in Nat /\ st.paused_at \in U64 /\ st.paused_at \in Nat
  BY UtilsAssumption DEF U64, StreamRecord
<1>2. CASE st.paused # 1
  <2>1. Vested(st, t) \in 0 .. st.amount
    BY <1>1, VestedMonotone, VestedType, UtilsAssumption DEF U64
  <2>2. t < st.end_time /\ st.amount > 0 => Vested(st, t) < st.amount
    BY <1>1, AllowedAmtEnds DEF Vested
  <2> QED
    BY <1>2, <2>1, <2>2 DEF Limit
<1>3. CASE st.paused = 1 /\ Untouched(st)
  BY <1>1, <1>3 DEF Limit, Untouched
<1>4. CASE st.paused = 1 /\ PausedWithin(st, t)
  <2>1. AllowedAmt(st, st.paused_at) \in 0 .. st.amount
    BY <1>1, <1>4, AllowedAmtInTerm DEF PausedWithin
  <2>2. st.amount > 0 => AllowedAmt(st, st.paused_at) < st.amount
    BY <1>1, <1>4, AllowedAmtEnds DEF PausedWithin
  <2> QED
    BY <1>4, <2>1, <2>2 DEF Limit, PausedWithin
<1> QED
  BY <1>2, <1>3, <1>4 DEF StreamInv

(* What is owed is at least nothing and at most the amount.                *)
LEMMA OwedType ==
  ASSUME NEW st \in StreamRecord, st.start_time < st.end_time, NEW t \in U64,
         StreamInv(st, t)
  PROVE  Owed(st) \in 0 .. st.amount /\ Owed(st) \in U64
<1>1. /\ t \in Nat /\ st.start_time \in Nat /\ st.amount \in Nat
      /\ st.amount \in U64 /\ st.withdrawn \in Nat /\ st.paused_amt \in Nat
      /\ st.withdraw_limit \in Nat /\ st.paused \in {0, 1}
  BY UtilsAssumption DEF U64, StreamRecord
<1>2. st.withdrawn + st.paused_amt <= st.amount
  <2>1. CASE Untouched(st)
    BY <1>1, <2>1 DEF Untouched
  <2>2. CASE ~ Untouched(st)
    <3>1. st.start_time <= t /\ t > st.start_time
      BY <1>1, <2>2 DEF StreamInv
    <3>2. Limit(st, Vested(st, t)) \in 0 .. st.amount
      BY <3>1, LimitBound
    <3>3. st.withdrawn + st.paused_amt <= Limit(st, Vested(st, t))
      BY <1>1, <2>2, <3>1 DEF StreamInv, PausedWithin, Limit
    <3> QED
      BY <1>1, <3>2, <3>3
  <2> QED
    BY <2>1, <2>2
<1> QED
  BY <1>1, <1>2, UtilsAssumption DEF Owed, U64

-----------------------------------------------------------------------------
(* All the streams                                                         *)

StreamsOK ==
  /\ now \in U64
  /\ DOMAIN stream \subseteq Streams
  /\ stream = [s \in DOMAIN stream |-> stream[s]]
  /\ \A s \in DOMAIN stream :
       /\ stream[s] \in StreamRecord
       /\ stream[s].fee_owner \in DOMAIN feeData
       /\ stream[s].start_time < stream[s].end_time
       /\ StreamInv(stream[s], now)

(* Instructions of streams change at most one of them: the others are the  *)
(* same before and after.                                                  *)
OnlyStream(s) ==
  /\ stream' = [x \in DOMAIN stream' |-> stream'[x]]
  /\ DOMAIN stream' \ {s} = DOMAIN stream \ {s}
  /\ \A x \in DOMAIN stream \ {s} : stream'[x] = stream[x]

(* When one stream changes and the clock does not, only that stream counts.*)
LEMMA StreamsStep ==
  ASSUME StreamsOK, NEW s \in Streams, OnlyStream(s), UNCHANGED <<feeData, now>>,
         s \in DOMAIN stream' =>
           /\ stream'[s] \in StreamRecord
           /\ stream'[s].fee_owner \in DOMAIN feeData
           /\ stream'[s].start_time < stream'[s].end_time
           /\ StreamInv(stream'[s], now)
  PROVE  StreamsOK'
<1>1. \A x \in DOMAIN stream' : x = s \/ (x \in DOMAIN stream /\ stream'[x] = stream[x])
  BY DEF OnlyStream
<1>2. DOMAIN stream' \subseteq Streams
  BY <1>1 DEF StreamsOK
<1>3. \A x \in DOMAIN stream' :
        /\ stream'[x] \in StreamRecord
        /\ stream'[x].fee_owner \in DOMAIN feeData
        /\ stream'[x].start_time < stream'[x].end_time
        /\ StreamInv(stream'[x], now)
  BY <1>1 DEF StreamsOK
<1>4. \A x \in DOMAIN stream' :
        stream'[x].fee_owner \in DOMAIN feeData' /\ StreamInv(stream'[x], now')
  BY <1>3
<1>5. now' \in U64 /\ stream' = [x \in DOMAIN stream' |-> stream'[x]]
  BY DEF StreamsOK, OnlyStream
<1> QED
  BY <1>2, <1>3, <1>4, <1>5
     DEF StreamsOK, StreamInv, Untouched, PausedWithin, Vested

LEMMA StreamsSame ==
  ASSUME StreamsOK, UNCHANGED <<now, stream>>, DOMAIN feeData \subseteq DOMAIN feeData'
  PROVE  StreamsOK'
<1>1. \A s \in DOMAIN stream : stream[s].fee_owner \in DOMAIN feeData'
  BY DEF StreamsOK
<1> QED
  BY <1>1 DEF StreamsOK, StreamInv, Untouched, PausedWithin, Vested

LEMMA StreamsTick ==
  ASSUME StreamsOK, ClockMoves, UNCHANGED <<feeData, stream>>
  PROVE  StreamsOK'
<1>1. now \in U64 /\ now + 1 \in U64 /\ now' = now + 1
  BY UtilsAssumption, StreamAssumption DEF ClockMoves, StreamsOK, U64
<1>2. \A s \in DOMAIN stream : StreamInv(stream[s], now + 1)
  BY <1>1, InvTick DEF StreamsOK
<1>3. \A s \in DOMAIN stream : StreamInv(stream[s], now')
  BY <1>1, <1>2
<1> QED
  BY <1>1, <1>3 DEF StreamsOK, StreamInv, Untouched, PausedWithin, Vested

LEMMA SettlementOK == StreamsOK => SettlementFits
<1> SUFFICES ASSUME StreamsOK, NEW s \in DOMAIN stream, now > stream[s].start_time
             PROVE  stream[s].withdrawn + stream[s].paused_amt
                      <= Limit(stream[s], Vested(stream[s], now))
  BY DEF SettlementFits
<1> DEFINE st == stream[s]
<1>1. /\ st \in StreamRecord /\ StreamInv(st, now) /\ st.start_time < st.end_time
      /\ now \in U64
  BY DEF StreamsOK
<1>2. /\ now \in Nat /\ st.start_time \in Nat /\ st.paused \in {0, 1}
      /\ st.withdraw_limit \in Nat
  BY <1>1, UtilsAssumption DEF U64, StreamRecord
<1> QED
  BY <1>1, <1>2 DEF StreamInv, Untouched, PausedWithin, Limit

-----------------------------------------------------------------------------
(* The handlers                                                            *)

(* The account k changes by as much as what is owed to stream s.           *)
ReserveFollows(s, k) ==
  LET before == IF s \in DOMAIN stream THEN Owed(stream[s]) ELSE 0
      after == IF s \in DOMAIN stream' THEN Owed(stream'[s]) ELSE 0
  IN  reserve' = [reserve EXCEPT ![k] = @ + after - before]

LEMMA FollowsFrom ==
  ASSUME NEW s, NEW k, NEW before, NEW after, NEW v,
         before = (IF s \in DOMAIN stream THEN Owed(stream[s]) ELSE 0),
         after = (IF s \in DOMAIN stream' THEN Owed(stream'[s]) ELSE 0),
         reserve' = [reserve EXCEPT ![k] = v],
         v = reserve[k] + after - before
  PROVE  ReserveFollows(s, k)
  BY DEF ReserveFollows

(* How a handler leaves the streams and the reserve.                       *)
Kept(s, k, keys) ==
  /\ StreamsOK'
  /\ OnlyStream(s)
  /\ reserve' \in [keys -> U64]
  /\ ReserveFollows(s, k)

LEMMA StartKeeps ==
  ASSUME NEW keys, NEW k, NEW s, NEW f, NEW sd, NEW r,
         NEW t1, NEW t2, NEW a, NEW cc, NEW cu,
         StreamsOK, FeeTypeOK, reserve \in [keys -> U64], k \in keys,
         s \in Streams, sd \in Senders, r \in Receivers,
         t1 \in U64, t2 \in U64, a \in U64, cc \in BOOLEAN, cu \in BOOLEAN,
         StartStream(s, k, f, sd, r, t1, t2, a, cc, cu), UNCHANGED <<feeData, now>>
  PROVE  /\ Kept(s, k, keys)
         /\ s \notin DOMAIN stream
         /\ DOMAIN stream' = DOMAIN stream \cup {s}
         /\ stream'[s].start_time = t1 /\ stream'[s].end_time = t2
         /\ stream'[s].amount = a /\ stream'[s].sender = sd /\ stream'[s].paused = 0
         /\ Untouched(stream'[s])
         /\ t1 < t2 /\ now < t2
<1> DEFINE new == NewStream(f, sd, r, t1, t2, a, cc, cu)
<1>1. s \notin DOMAIN stream /\ DOMAIN stream' = DOMAIN stream \cup {s}
      /\ f \in DOMAIN feeData /\ t1 < t2 /\ now < t2
  BY DEF StartStream, CheckOverflow
<1>2. OnlyStream(s) /\ stream'[s] = new
  BY <1>1 DEF StartStream, OnlyStream
<1>3. 0 \in U64 /\ feeData[f] \in 0 .. FeeScale /\ f \in FeeOwners
  BY <1>1, UtilsAssumption DEF U64, FeeTypeOK
<1>4. /\ new \in StreamRecord /\ new.fee_owner = f /\ new.start_time < new.end_time
      /\ new.start_time = t1 /\ new.end_time = t2 /\ new.sender = sd
      /\ new.withdrawn = 0 /\ new.paused_amt = 0 /\ new.withdraw_limit = 0
      /\ new.paused = 0 /\ new.amount = a
  BY <1>1, <1>3, StreamAssumption DEF StreamRecord, NewStream
<1> HIDE DEF new
<1>5. StreamInv(new, now)
  <2>1. Vested(new, now) \in Nat
    BY <1>4, VestedType, UtilsAssumption DEF StreamsOK, U64
  <2> QED
    BY <1>4, <2>1 DEF StreamInv, Untouched
<1>6. StreamsOK'
  BY <1>1, <1>2, <1>4, <1>5, StreamsStep
<1>7. reserve' = [reserve EXCEPT ![k] = @ + a] /\ reserve[k] + a \in U64
  BY DEF StartStream, Fits
<1>8. Owed(stream'[s]) = a
  BY <1>2, <1>4, UtilsAssumption DEF Owed, U64
<1>9. reserve[k] \in Nat /\ a \in Nat
  BY UtilsAssumption DEF U64
<1>10. ReserveFollows(s, k)
  <2>1. reserve[k] + a = reserve[k] + a - 0
    BY <1>9
  <2> QED
    BY <1>1, <1>7, <1>8, <2>1, FollowsFrom
<1> QED
  BY <1>1, <1>2, <1>4, <1>6, <1>7, <1>10 DEF Kept, Untouched

(* A stream with new terms.                                                *)
Revised(st, t1, t2, a) ==
  [st EXCEPT !.start_time = t1, !.end_time = t2, !.amount = a]

LEMMA ReviseKeeps ==
  ASSUME StreamsOK, NEW keys, reserve \in [keys -> U64], NEW k \in keys,
         NEW s \in Streams, NEW t1 \in U64, NEW t2 \in U64, NEW a \in U64,
         ReviseStream(s, k, t1, t2, a), UNCHANGED <<feeData, now>>
  PROVE  /\ Kept(s, k, keys)
         /\ s \in DOMAIN stream /\ DOMAIN stream' = DOMAIN stream
         /\ stream'[s] = Revised(stream[s], t1, t2, a)
         /\ t1 < t2 /\ now < t2 /\ now <= stream[s].start_time
<1> DEFINE st == stream[s]
           new == Revised(st, t1, t2, a)
<1>1. /\ s \in DOMAIN stream /\ DOMAIN stream' = DOMAIN stream
      /\ t1 < t2 /\ now < t2 /\ now <= st.start_time
  BY DEF ReviseStream, CheckOverflow, Updatable
<1>2. OnlyStream(s) /\ stream'[s] = new
  BY <1>1 DEF ReviseStream, OnlyStream, Revised
<1>3. /\ st \in StreamRecord /\ st.fee_owner \in DOMAIN feeData
      /\ st.start_time < st.end_time /\ StreamInv(st, now) /\ now \in U64
  BY <1>1 DEF StreamsOK
<1>4. /\ new \in StreamRecord /\ new.fee_owner = st.fee_owner
      /\ new.start_time < new.end_time
      /\ new.withdrawn = st.withdrawn /\ new.paused_amt = st.paused_amt
      /\ new.withdraw_limit = st.withdraw_limit /\ new.amount = a
  BY <1>1, <1>3 DEF StreamRecord, Revised
<1> HIDE DEF new
<1>5. StreamInv(new, now)
  BY <1>1, <1>3, <1>4, InvUpdate
<1>6. StreamsOK'
  BY <1>1, <1>2, <1>3, <1>4, <1>5, StreamsStep
<1>7. /\ reserve' = [reserve EXCEPT ![k] = @ - st.amount + a]
      /\ reserve[k] - st.amount + a \in U64
  BY DEF ReviseStream, Fits
<1>8. Untouched(st)
  BY <1>1, <1>3 DEF StreamInv
<1>9. reserve[k] \in Nat /\ a \in Nat /\ st.amount \in Nat
  BY <1>3, UtilsAssumption DEF U64, StreamRecord
<1>10. Owed(stream'[s]) = a /\ Owed(st) = st.amount
  BY <1>2, <1>4, <1>8, <1>9 DEF Owed, Untouched
<1>11. ReserveFollows(s, k)
  <2>1. reserve[k] - st.amount + a = reserve[k] + a - st.amount
    BY <1>9
  <2> QED
    BY <1>1, <1>7, <1>10, <2>1, FollowsFrom
<1> QED
  BY <1>1, <1>2, <1>6, <1>7, <1>11 DEF Kept, new

(* What a claim pays closes the gap between the limit and what was paid    *)
(* and written off; the sum does not wrap.                                 *)
LEMMA ClaimPays ==
  ASSUME StreamsOK, NEW s \in DOMAIN stream, now > stream[s].start_time,
         PayableFits(stream[s], Vested(stream[s], now))
  PROVE  LET st == stream[s]
             limit == Limit(st, Vested(st, now))
         IN  /\ ClaimAmount(st) \in U64
             /\ ClaimAmount(st) = limit - st.paused_amt - st.withdrawn
             /\ limit \in 0 .. st.amount
             /\ now < st.end_time /\ st.amount > 0 => limit < st.amount
             /\ WrapU64(st.withdrawn + ClaimAmount(st) + st.paused_amt) = limit
             /\ ClaimAmount(st) + st.withdrawn + st.paused_amt = limit
<1> DEFINE st == stream[s]
           limit == Limit(st, Vested(st, now))
<1>1. /\ st \in StreamRecord /\ st.start_time < st.end_time /\ StreamInv(st, now)
      /\ now \in U64
  BY DEF StreamsOK
<1>2. /\ now \in Nat /\ st.start_time \in Nat /\ st.amount \in U64 /\ st.amount \in Nat
      /\ st.withdrawn \in Nat /\ st.paused_amt \in Nat
  BY <1>1, UtilsAssumption DEF U64, StreamRecord
<1>3. limit \in 0 .. st.amount /\ (now < st.end_time /\ st.amount > 0 => limit < st.amount)
  BY <1>1, <1>2, LimitBound
<1>4. ClaimAmount(st) = limit - st.paused_amt - st.withdrawn
  BY DEF ClaimAmount, Payable
<1>5. ClaimAmount(st) \in U64
  BY DEF ClaimAmount, Payable, PayableFits, Fits
<1> HIDE DEF limit
<1>6. /\ st.withdrawn + ClaimAmount(st) + st.paused_amt = limit
      /\ ClaimAmount(st) + st.withdrawn + st.paused_amt = limit
  BY <1>2, <1>3, <1>4
<1>7. limit \in U64
  BY <1>2, <1>3, UtilsAssumption DEF U64
<1>8. WrapU64(st.withdrawn + ClaimAmount(st) + st.paused_amt) = limit
  BY <1>6, <1>7, WrapId
<1> QED
  BY <1>3, <1>4, <1>5, <1>6, <1>8 DEF limit

(* A claim takes off the reserve what it pays, or, when it closes the      *)
(* stream, all that is owed.  It closes a stream only when nothing can be  *)
(* earned any more.                                                        *)
LEMMA ClaimKeeps ==
  ASSUME StreamsOK, NEW keys, reserve \in [keys -> U64], NEW k \in keys,
         NEW s \in Streams, ClaimStream(s, k), UNCHANGED <<feeData, now>>
  PROVE  LET st == stream[s]
             limit == Limit(st, Vested(st, now))
         IN  /\ Kept(s, k, keys)
             /\ s \in DOMAIN stream /\ now > st.start_time
             /\ ClaimAmount(st) \in U64 /\ ClaimAmount(st) <= Owed(st)
             /\ ClaimAmount(st) = limit - st.paused_amt - st.withdrawn
             /\ reserve'[k] <= reserve[k] - ClaimAmount(st)
             /\ \/ /\ DOMAIN stream' = DOMAIN stream \ {s}
                   /\ Settled(st) \/ limit = st.amount
                \/ /\ DOMAIN stream' = DOMAIN stream
                   /\ ~ Settled(st) /\ limit < st.amount
                   /\ stream'[s] = [st EXCEPT !.withdrawn = st.withdrawn + ClaimAmount(st)]
<1> DEFINE st == stream[s]
           limit == Limit(st, Vested(st, now))
           allowed == ClaimAmount(st)
           w == st.withdrawn + allowed
           transfered == WrapU64(w + st.paused_amt)
           deduction == Deduction(st, allowed, transfered)
           new == [st EXCEPT !.withdrawn = w]
<1>1. s \in DOMAIN stream /\ now > st.start_time /\ PayableFits(st, Vested(st, now))
  BY DEF ClaimStream, ClaimPasses
<1>2. /\ st \in StreamRecord /\ st.fee_owner \in DOMAIN feeData
      /\ st.start_time < st.end_time /\ StreamInv(st, now) /\ now \in U64
  BY <1>1 DEF StreamsOK
<1>3. /\ allowed \in U64 /\ allowed = limit - st.paused_amt - st.withdrawn
      /\ limit \in 0 .. st.amount
      /\ transfered = limit /\ allowed + st.withdrawn + st.paused_amt = limit
  BY <1>1, ClaimPays
<1>4. /\ st.amount \in Nat /\ st.withdrawn \in Nat /\ st.paused_amt \in Nat
      /\ allowed \in Nat /\ reserve[k] \in Nat
  BY <1>2, <1>3, UtilsAssumption DEF U64, StreamRecord
<1>5. w \in U64 /\ reserve[k] - deduction \in U64
      /\ reserve' = [reserve EXCEPT ![k] = reserve[k] - deduction]
  BY DEF ClaimStream, ClaimPasses, Transfered, ClaimDeduction, Fits
<1>6. stream' = IF Settled(st) \/ transfered >= st.amount
                  THEN CloseAccount(s) ELSE [stream EXCEPT ![s].withdrawn = w]
  BY DEF ClaimStream, Transfered
<1>7. Owed(st) = st.amount - st.withdrawn - st.paused_amt
  BY DEF Owed
<1>8. deduction = IF Settled(st) THEN st.amount - limit + allowed ELSE allowed
  BY <1>3 DEF Deduction
<1>9. allowed <= Owed(st)
  BY <1>3, <1>4, <1>7
<1>10. reserve' \in [keys -> U64] /\ reserve'[k] = reserve[k] - deduction
  BY <1>5
<1> HIDE DEF limit, allowed, w, transfered, deduction
<1>13. reserve'[k] <= reserve[k] - allowed
  <2>1. CASE Settled(st)
    <3>1. deduction = st.amount - limit + allowed
      BY <1>8, <2>1
    <3> QED
      BY <1>3, <1>4, <1>10, <3>1
  <2>2. CASE ~ Settled(st)
    <3>1. deduction = allowed
      BY <1>8, <2>2
    <3> QED
      BY <1>4, <1>10, <3>1
  <2> QED
    BY <2>1, <2>2
<1>11. CASE Settled(st) \/ limit >= st.amount
  <2>1. stream' = CloseAccount(s) /\ limit \in Nat
    BY <1>3, <1>4, <1>6, <1>11
  <2>2. DOMAIN stream' = DOMAIN stream \ {s} /\ s \notin DOMAIN stream' /\ OnlyStream(s)
    BY <2>1 DEF CloseAccount, OnlyStream
  <2>3. deduction = Owed(st)
    <3>1. CASE Settled(st)
      BY <1>3, <1>4, <1>7, <1>8, <2>1, <3>1
    <3>2. CASE ~ Settled(st)
      <4>1. deduction = allowed
        BY <1>8, <3>2
      <4>2. limit >= st.amount
        BY <1>11, <3>2
      <4> QED
        BY <1>3, <1>4, <1>7, <4>1, <4>2
    <3> QED
      BY <3>1, <3>2
  <2>4. reserve[k] - deduction = reserve[k] + 0 - Owed(st)
    BY <1>3, <1>4, <1>7, <2>3
  <2>5. ReserveFollows(s, k)
    BY <1>1, <1>5, <2>2, <2>4, FollowsFrom
  <2>6. StreamsOK'
    BY <2>2, StreamsStep
  <2>7. Settled(st) \/ limit = st.amount
    BY <1>3, <1>4, <1>11
  <2> QED
    BY <1>1, <1>3, <1>9, <1>10, <1>13, <2>2, <2>5, <2>6, <2>7 DEF Kept, limit, allowed
<1>12. CASE ~ (Settled(st) \/ limit >= st.amount)
  <2>1. stream' = [stream EXCEPT ![s].withdrawn = w]
    BY <1>3, <1>6, <1>12
  <2>2. DOMAIN stream' = DOMAIN stream /\ OnlyStream(s) /\ stream'[s] = new
    BY <1>1, <2>1 DEF OnlyStream
  <2>3. /\ new \in StreamRecord /\ new.fee_owner = st.fee_owner
        /\ new.start_time = st.start_time /\ new.end_time = st.end_time
        /\ new.withdrawn = w /\ new.amount = st.amount /\ new.paused_amt = st.paused_amt
    BY <1>2, <1>5 DEF StreamRecord
  <2>4. StreamInv(new, now)
    BY <1>1, <1>2, <1>5, InvClaim DEF w, allowed, ClaimAmount
  <2> HIDE DEF new
  <2>5. StreamsOK'
    BY <1>1, <1>2, <2>2, <2>3, <2>4, StreamsStep
  <2>6. Owed(stream'[s]) = Owed(st) - allowed
    BY <1>4, <2>2, <2>3 DEF Owed, w
  <2>7. reserve[k] - deduction = reserve[k] + Owed(stream'[s]) - Owed(st)
    BY <1>4, <1>7, <1>8, <1>12, <2>6
  <2>8. ReserveFollows(s, k)
    BY <1>1, <1>5, <2>2, <2>7, FollowsFrom
  <2>9. limit < st.amount
    BY <1>3, <1>4, <1>12
  <2> QED
    BY <1>1, <1>3, <1>9, <1>10, <1>12, <1>13, <2>2, <2>5, <2>8, <2>9
       DEF Kept, limit, allowed, new, w
<1> QED
  BY <1>11, <1>12 DEF limit, allowed, w

LEMMA ToggleKeeps ==
  ASSUME StreamsOK, NEW keys, reserve \in [keys -> U64], NEW k \in keys,
         NEW s \in Streams, ToggleStream(s, k), UNCHANGED <<feeData, now>>
  PROVE  LET st == stream[s]
         IN  /\ Kept(s, k, keys)
             /\ s \in DOMAIN stream /\ DOMAIN stream' = DOMAIN stream
             /\ st.start_time <= now /\ now < st.end_time
             /\ \/ /\ st.paused = 1
                   /\ Missed(st) \in U64 /\ st.paused_amt + Missed(st) \in U64
                   /\ stream'[s] = [st EXCEPT !.paused_amt = st.paused_amt + Missed(st),
                                              !.paused = 0, !.paused_at = 0]
                \/ /\ st.paused = 0
                   /\ AllowedAmt(st, now) \in U64
                   /\ stream'[s] = [st EXCEPT !.paused = 1,
                                              !.withdraw_limit = AllowedAmt(st, now),
                                              !.paused_at = now]
             /\ reserve'[k] <= reserve[k]
<1> DEFINE st == stream[s]
           m == Missed(st)
           w == st.paused_amt + m
           a == AllowedAmt(st, now)
<1>1. /\ s \in DOMAIN stream /\ DOMAIN stream' = DOMAIN stream
      /\ st.start_time <= now /\ now < st.end_time
  BY DEF ToggleStream, TogglePasses
<1>2. /\ st \in StreamRecord /\ st.fee_owner \in DOMAIN feeData
      /\ st.start_time < st.end_time /\ StreamInv(st, now) /\ now \in U64
      /\ st.paused \in {0, 1} /\ 0 \in U64
  BY <1>1, UtilsAssumption DEF StreamsOK, StreamRecord, U64
<1>3. OnlyStream(s)
  BY <1>1 DEF ToggleStream, TogglePasses, OnlyStream
<1>4. reserve[k] \in Nat
  BY UtilsAssumption DEF U64
<1>5. CASE st.paused = 1
  <2> DEFINE new == [st EXCEPT !.paused_amt = w, !.paused = 0, !.paused_at = 0]
  <2>1. m \in U64 /\ w \in U64 /\ stream'[s] = new
        /\ reserve' = [reserve EXCEPT ![k] = reserve[k] - m] /\ reserve[k] - m \in U64
    BY <1>1, <1>5 DEF ToggleStream, TogglePasses, Fits
  <2>2. /\ new \in StreamRecord /\ new.fee_owner = st.fee_owner
        /\ new.start_time = st.start_time /\ new.end_time = st.end_time
        /\ new.withdrawn = st.withdrawn /\ new.amount = st.amount /\ new.paused_amt = w
    BY <1>2, <2>1 DEF StreamRecord
  <2>3. StreamInv(new, now)
    <3>1. m = AllowedAmt(st, now) - AllowedAmt(st, st.paused_at)
      BY DEF Missed
    <3> QED
      BY <1>1, <1>2, <1>5, <2>1, <3>1, InvResume
  <2> HIDE DEF new
  <2>4. StreamsOK'
    BY <1>2, <1>3, <2>1, <2>2, <2>3, StreamsStep
  <2>5. /\ st.amount \in Nat /\ st.withdrawn \in Nat /\ st.paused_amt \in Nat
        /\ m \in Nat
    BY <1>2, <2>1, UtilsAssumption DEF U64, StreamRecord
  <2> HIDE DEF m
  <2>6. reserve[k] - m = reserve[k] + Owed(stream'[s]) - Owed(st)
    BY <1>4, <2>1, <2>2, <2>5 DEF Owed
  <2>7. ReserveFollows(s, k)
    BY <1>1, <2>1, <2>6, FollowsFrom
  <2>8. reserve' \in [keys -> U64] /\ reserve'[k] <= reserve[k]
    BY <1>4, <2>1, <2>5
  <2> QED
    BY <1>1, <1>3, <1>5, <2>1, <2>4, <2>7, <2>8 DEF Kept, new, m
<1>6. CASE st.paused = 0
  <2> DEFINE new == [st EXCEPT !.paused = 1, !.withdraw_limit = a, !.paused_at = now]
  <2>1. stream'[s] = new /\ reserve' = reserve
    BY <1>1, <1>6 DEF ToggleStream, TogglePasses
  <2>2. a \in U64
    BY <1>2, AllowedAmtType
  <2>3. /\ new \in StreamRecord /\ new.fee_owner = st.fee_owner
        /\ new.start_time = st.start_time /\ new.end_time = st.end_time
        /\ new.withdrawn = st.withdrawn /\ new.amount = st.amount
        /\ new.paused_amt = st.paused_amt
    BY <1>2, <2>2 DEF StreamRecord
  <2>4. StreamInv(new, now)
    BY <1>1, <1>2, <1>6, <2>2, InvPause
  <2> HIDE DEF new
  <2>5. StreamsOK'
    BY <1>2, <1>3, <2>1, <2>3, <2>4, StreamsStep
  <2>6. Owed(stream'[s]) = Owed(st) /\ Owed(st) \in U64
    BY <1>2, <2>1, <2>3, OwedType DEF Owed
  <2>7. reserve' = [reserve EXCEPT ![k] = reserve[k]]
    BY <2>1
  <2>8. reserve[k] = reserve[k] + Owed(stream'[s]) - Owed(st)
    BY <1>4, <2>6, UtilsAssumption DEF U64
  <2>9. ReserveFollows(s, k)
    BY <1>1, <2>7, <2>8, FollowsFrom
  <2> QED
    BY <1>1, <1>3, <1>4, <1>6, <2>1, <2>2, <2>5, <2>9 DEF Kept, new
<1> QED
  BY <1>2, <1>5, <1>6

(* What a cancellation pays is at most what is owed.                       *)
LEMMA CancelPays ==
  ASSUME StreamsOK, NEW s \in DOMAIN stream, now < stream[s].end_time,
         PayableFits(stream[s], AllowedAmt(stream[s], now))
  PROVE  LET st == stream[s]
         IN  /\ CancelAmount(st) \in U64
             /\ CancelAmount(st) <= Owed(st)
             /\ now < st.start_time => st.paused = 0 \/ Untouched(st)
<1> DEFINE st == stream[s]
<1>1. /\ st \in StreamRecord /\ st.start_time < st.end_time /\ StreamInv(st, now)
      /\ now \in U64
  BY DEF StreamsOK
<1>2. /\ now \in Nat /\ st.start_time \in Nat /\ st.end_time \in Nat
      /\ st.amount \in Nat /\ st.withdrawn \in Nat /\ st.paused_amt \in Nat
  BY <1>1, UtilsAssumption DEF U64, StreamRecord
<1>3. CancelAmount(st) \in U64
  BY UtilsAssumption DEF CancelAmount, Payable, PayableFits, Fits, U64
<1>4. CASE now < st.start_time
  BY <1>1, <1>2, <1>3, <1>4 DEF StreamInv, Untouched, CancelAmount, Owed
<1>5. CASE st.start_time <= now
  <2>1. Vested(st, now) = AllowedAmt(st, now)
    BY <1>2 DEF Vested
  <2>2. Limit(st, AllowedAmt(st, now)) \in 0 .. st.amount
    BY <1>1, <1>5, <2>1, LimitBound
  <2>3. CancelAmount(st) = Limit(st, AllowedAmt(st, now)) - st.paused_amt - st.withdrawn
    BY <1>2, <1>5 DEF CancelAmount, Payable
  <2> QED
    BY <1>2, <1>3, <1>5, <2>2, <2>3 DEF Owed
<1> QED
  BY <1>2, <1>4, <1>5

LEMMA EndKeeps ==
  ASSUME StreamsOK, NEW keys, reserve \in [keys -> U64], NEW k \in keys,
         NEW s \in Streams, EndStream(s, k), UNCHANGED <<feeData, now>>
  PROVE  /\ Kept(s, k, keys)
         /\ s \in DOMAIN stream /\ DOMAIN stream' = DOMAIN stream \ {s}
         /\ now < stream[s].end_time
         /\ CancelAmount(stream[s]) \in U64
         /\ CancelAmount(stream[s]) <= Owed(stream[s])
         /\ reserve'[k] <= reserve[k] - CancelAmount(stream[s])
<1> DEFINE st == stream[s]
<1>1. /\ s \in DOMAIN stream /\ stream' = CloseAccount(s)
      /\ st.can_cancel /\ now < st.end_time /\ PayableFits(st, AllowedAmt(st, now))
  BY DEF EndStream, EndPasses, Cancellable
<1>2. OnlyStream(s) /\ DOMAIN stream' = DOMAIN stream \ {s}
  BY <1>1 DEF CloseAccount, OnlyStream
<1>3. StreamsOK'
  BY <1>2, StreamsStep
<1>4. /\ reserve' = [reserve EXCEPT ![k] = reserve[k] + st.withdrawn + st.paused_amt - st.amount]
      /\ reserve[k] + st.withdrawn + st.paused_amt - st.amount \in U64
  BY DEF EndStream, EndPasses, Fits
<1>5. /\ st.amount \in Nat /\ st.withdrawn \in Nat /\ st.paused_amt \in Nat
      /\ reserve[k] \in Nat
  BY <1>1, UtilsAssumption DEF StreamsOK, U64, StreamRecord
<1>6. reserve[k] + st.withdrawn + st.paused_amt - st.amount = reserve[k] + 0 - Owed(st)
  BY <1>5 DEF Owed
<1>7. ReserveFollows(s, k)
  BY <1>1, <1>2, <1>4, <1>6, FollowsFrom
<1>8. reserve' \in [keys -> U64] /\ reserve'[k] = reserve[k] + 0 - Owed(st)
  BY <1>4, <1>6
<1>9. CancelAmount(st) \in U64 /\ CancelAmount(st) <= Owed(st)
  BY <1>1, CancelPays
<1>10. CancelAmount(st) \in Nat /\ Owed(st) \in Int
  BY <1>5, <1>9, UtilsAssumption DEF Owed, U64
<1>11. reserve'[k] <= reserve[k] - CancelAmount(st)
  BY <1>5, <1>8, <1>9, <1>10
<1> QED
  BY <1>1, <1>2, <1>3, <1>7, <1>8, <1>9, <1>11 DEF Kept

(* What several streams are owed changes with the one that changes.        *)
LEMMA OwedStep ==
  ASSUME StreamsOK, StreamsOK', NEW s, OnlyStream(s),
         NEW before, before \subseteq DOMAIN stream,
         NEW after, after \subseteq DOMAIN stream', after \ {s} = before \ {s}
  PROVE  /\ Total([x \in after |-> Owed(stream'[x])])
              = Total([x \in before |-> Owed(stream[x])])
                  + (IF s \in after THEN Owed(stream'[s]) ELSE 0)
                  - (IF s \in before THEN Owed(stream[s]) ELSE 0)
         /\ Total([x \in before |-> Owed(stream[x])]) \in Nat
         /\ s \in before => Owed(stream[s]) \in U64
         /\ s \in after => Owed(stream'[s]) \in U64
<1> DEFINE f == [x \in before |-> Owed(stream[x])]
           g == [x \in after |-> Owed(stream'[x])]
<1>1. \A x \in DOMAIN stream : Owed(stream[x]) \in U64
  BY OwedType DEF StreamsOK
<1>2. \A x \in DOMAIN stream' : Owed(stream'[x]) \in U64
  <2>1. SUFFICES ASSUME NEW x \in DOMAIN stream' PROVE Owed(stream'[x]) \in U64
    OBVIOUS
  <2>2. /\ stream'[x] \in StreamRecord /\ stream'[x].start_time < stream'[x].end_time
        /\ now' \in U64 /\ StreamInv(stream'[x], now')
    BY DEF StreamsOK, StreamInv, Untouched, PausedWithin, Vested
  <2> QED
    BY <2>2, OwedType
<1>3. IsFiniteSet(DOMAIN f)
  <2>1. before \in SUBSET Streams
    BY DEF StreamsOK
  <2> QED
    BY <2>1, StreamAssumption, FS_Subset
<1>4. \A y \in DOMAIN f \ {s} : g[y] = f[y]
  BY DEF OnlyStream
<1>5. At(f, s) = (IF s \in before THEN Owed(stream[s]) ELSE 0)
  BY DEF At
<1>6. At(g, s) = (IF s \in after THEN Owed(stream'[s]) ELSE 0)
  BY DEF At
<1>7. At(f, s) \in U64 /\ At(g, s) \in U64
  BY <1>1, <1>2, <1>5, <1>6, UtilsAssumption DEF U64
<1>8. DOMAIN g \ {s} = DOMAIN f \ {s}
  OBVIOUS
<1>9. Total(g) = Total(f) + At(g, s) - At(f, s)
  <2> HIDE DEF f, g
  <2> QED
    BY <1>3, <1>4, <1>7, <1>8, TotalStep
<1>10. Total(f) \in Nat
  BY <1>3, TotalType
<1> QED
  BY <1>1, <1>2, <1>5, <1>6, <1>9, <1>10

-----------------------------------------------------------------------------
(* Payments and fee accounts                                               *)

(* A commission and what is left of the payment add up to it.              *)
LEMMA ComissionType ==
  ASSUME NEW pct \in Nat, NEW amount \in Nat
  PROVE  CalculateComission(pct, amount) \in Nat
<1>1. pct * amount \in Nat
  OBVIOUS
<1> QED
  BY <1>1, UtilsAssumption DEF CalculateComission

LEMMA FeeOwnersFinite == IsFiniteSet(FeeOwners) /\ IsFiniteSet(Senders)
<1>1. FeeOwners \in SUBSET Users /\ Senders \in SUBSET Users /\ IsFiniteSet(Users)
  BY FeeAssumption, StreamAssumption
<1> QED
  BY <1>1, FS_Subset

(* Fee accounts keep their types, are not closed, and what they and the    *)
(* wallets hold together stays.                                            *)
LEMMA FeeKeeps ==
  ASSUME FeeTypeOK, FeeNext
  PROVE  /\ FeeTypeOK'
         /\ DOMAIN feeData \subseteq DOMAIN feeData'
         /\ Total(wallet') + Total(feeVault') = Total(wallet) + Total(feeVault)
<1> USE UtilsAssumption, FeeAssumption
<1>1. PICK f \in FeeOwners :
        \/ \E p \in FeePercentages : CreateFeeAccount(f, p) \/ UpdateFees(f, p)
        \/ WithdrawFeesSol(f)
  BY DEF FeeNext
<1>2. /\ wallet \in [Users -> U64] /\ feeVault \in [FeeOwners -> U64]
      /\ f \in Users /\ wallet[f] \in Nat /\ feeVault[f] \in Nat
  BY DEF FeeTypeOK, U64
<1>3. ASSUME NEW v \in U64, NEW u \in U64, v + u = wallet[f] + feeVault[f],
             wallet' = [wallet EXCEPT ![f] = v], feeVault' = [feeVault EXCEPT ![f] = u]
      PROVE  Total(wallet') + Total(feeVault') = Total(wallet) + Total(feeVault)
  <2>1. Total(wallet) \in Nat /\ Total(feeVault) \in Nat
    BY <1>2, TotalType, FeeOwnersFinite
  <2>2. /\ Total(wallet') = Total(wallet) + v - wallet[f]
        /\ Total(feeVault') = Total(feeVault) + u - feeVault[f]
    BY <1>2, <1>3, TotalExcept, FeeOwnersFinite
  <2>3. u \in Nat /\ v \in Nat
    BY DEF U64
  <2> QED
    BY <1>2, <1>3, <2>1, <2>2, <2>3
<1>4. ASSUME NEW p \in FeePercentages, CreateFeeAccount(f, p)
      PROVE  /\ FeeTypeOK'
             /\ DOMAIN feeData \subseteq DOMAIN feeData'
             /\ Total(wallet') + Total(feeVault') = Total(wallet) + Total(feeVault)
  <2>1. /\ wallet[f] - RentExemptMin \in U64 /\ feeVault[f] + RentExemptMin \in U64
        /\ wallet[f] - RentExemptMin + (feeVault[f] + RentExemptMin) = wallet[f] + feeVault[f]
        /\ wallet' = [wallet EXCEPT ![f] = wallet[f] - RentExemptMin]
        /\ feeVault' = [feeVault EXCEPT ![f] = feeVault[f] + RentExemptMin]
    BY <1>2, <1>4 DEF CreateFeeAccount, Fits, FeeTypeOK, U64
  <2>2. p \in 0 .. FeeScale
    BY <1>4 DEF CreateFeeAccount, InBound, U64
  <2>3. wallet' \in [Users -> U64] /\ feeVault' \in [FeeOwners -> U64]
    BY <1>2, <2>1
  <2>4. FeeTypeOK' /\ DOMAIN feeData \subseteq DOMAIN feeData'
    BY <1>4, <2>2, <2>3 DEF CreateFeeAccount, FeeTypeOK
  <2> QED
    BY <1>3, <2>1, <2>4
<1>5. ASSUME NEW p \in FeePercentages, UpdateFees(f, p)
      PROVE  /\ FeeTypeOK'
             /\ DOMAIN feeData \subseteq DOMAIN feeData'
             /\ Total(wallet') + Total(feeVault') = Total(wallet) + Total(feeVault)
  <2>1. p \in 0 .. FeeScale
    BY <1>5 DEF UpdateFees, InBound, U64
  <2> QED
    BY <1>5, <2>1 DEF UpdateFees, FeeTypeOK
<1>6. CASE WithdrawFeesSol(f)
  <2>1. /\ wallet[f] + feeVault[f] \in U64 /\ 0 \in U64
        /\ wallet[f] + feeVault[f] + 0 = wallet[f] + feeVault[f]
        /\ wallet' = [wallet EXCEPT ![f] = wallet[f] + feeVault[f]]
        /\ feeVault' = [feeVault EXCEPT ![f] = 0]
    BY <1>2, <1>6 DEF WithdrawFeesSol, Fits, U64
  <2>2. FeeTypeOK' /\ DOMAIN feeData \subseteq DOMAIN feeData'
    BY <1>2, <1>6, <2>1 DEF WithdrawFeesSol, FeeTypeOK
  <2> QED
    BY <1>3, <2>1, <2>2
<1> QED
  BY <1>1, <1>4, <1>5, <1>6

-----------------------------------------------------------------------------
(* How a stream follows its promise (module StreamPromise): what each      *)
(* handler does to the promise that Abstract reads off the stream's record,*)
(* for both kinds of streams.                                              *)

(* Abstract, at the time t.                                                *)
ReleasedAt(st, t) == IF t <= st.start_time THEN 0 ELSE Vested(st, t)

EarnedAt(st, t) == Limit(st, ReleasedAt(st, t)) - st.paused_amt

Promised(st, t, k) ==
  [start |-> st.start_time, end |-> st.end_time, total |-> st.amount,
   sender |-> k, cancellable |-> st.can_cancel, running |-> st.paused = 0,
   earned |-> EarnedAt(st, t), missed |-> ReleasedAt(st, t) - EarnedAt(st, t),
   paid |-> st.withdrawn]

LEMMA AbstractNow == \A st, k : Abstract(st, k) = Promised(st, now, k)
  BY DEF Abstract, Promised, EarnedAt, ReleasedAt

(* What a promise of these terms releases by t (Released in StreamPromise).*)
Schedule(p, t) ==
  IF t <= p.start THEN 0
  ELSE IF t >= p.end THEN p.total
  ELSE ((t - p.start) * p.total) \div (p.end - p.start)

(* The wrapping, truncated arithmetic of the handlers computes exactly the *)
(* linear schedule.                                                        *)
LEMMA ReleasedIs ==
  ASSUME NEW st \in StreamRecord, st.start_time < st.end_time, NEW t \in U64
  PROVE  /\ \A u, k : Schedule(Promised(st, u, k), t) = ReleasedAt(st, t)
         /\ ReleasedAt(st, t) \in 0 .. st.amount
<1>1. /\ t \in Nat /\ st.start_time \in Nat /\ st.end_time \in Nat /\ st.amount \in Nat
  BY UtilsAssumption DEF U64, StreamRecord
<1>2. CASE t <= st.start_time
  BY <1>1, <1>2 DEF Schedule, Promised, ReleasedAt
<1>3. CASE ~ (t <= st.start_time) /\ t >= st.end_time
  BY <1>1, <1>3 DEF Schedule, Promised, ReleasedAt, Vested
<1>4. CASE ~ (t <= st.start_time) /\ ~ (t >= st.end_time)
  <2>1. ReleasedAt(st, t) = AllowedAmt(st, t)
    BY <1>4 DEF ReleasedAt, Vested
  <2>2. /\ AllowedAmt(st, t) =
             ((t - st.start_time) * st.amount) \div (st.end_time - st.start_time)
        /\ AllowedAmt(st, t) \in 0 .. st.amount
    BY <1>1, <1>4, AllowedAmtInTerm
  <2>3. \A u, k : Schedule(Promised(st, u, k), t)
             = ((t - st.start_time) * st.amount) \div (st.end_time - st.start_time)
    BY <1>4 DEF Schedule, Promised
  <2> QED
    BY <2>1, <2>2, <2>3
<1> QED
  BY <1>2, <1>3, <1>4

(* A paused stream's limit is what it had released when it was paused.     *)
PausedSince(st, t) ==
  st.paused = 1 =>
    /\ st.start_time <= st.paused_at /\ st.paused_at <= t
    /\ st.paused_at < st.end_time
    /\ st.withdraw_limit = AllowedAmt(st, st.paused_at)

Suspended == \A s \in DOMAIN stream : PausedSince(stream[s], now)

(* What is earned covers what was paid.                                    *)
LEMMA PromisedType ==
  ASSUME NEW st \in StreamRecord, st.start_time < st.end_time, NEW t \in U64,
         StreamInv(st, t)
  PROVE  /\ ReleasedAt(st, t) \in Nat /\ EarnedAt(st, t) \in Nat
         /\ st.withdrawn \in Nat /\ st.paused_amt \in Nat /\ st.withdraw_limit \in Nat
         /\ st.amount \in Nat
         /\ st.withdrawn <= EarnedAt(st, t)
<1>1. /\ t \in Nat /\ st.start_time \in Nat /\ st.end_time \in Nat /\ st.amount \in Nat
      /\ st.withdrawn \in Nat /\ st.paused_amt \in Nat /\ st.withdraw_limit \in Nat
      /\ st.paused \in {0, 1}
  BY UtilsAssumption DEF U64, StreamRecord
<1>2. ReleasedAt(st, t) \in Nat
  BY <1>1, ReleasedIs
<1>3. st.withdrawn + st.paused_amt <= Limit(st, ReleasedAt(st, t))
  BY <1>1, <1>2 DEF StreamInv, Untouched, PausedWithin, Limit, ReleasedAt
<1>4. Limit(st, ReleasedAt(st, t)) \in Nat
  BY <1>1, <1>2 DEF Limit
<1> QED
  BY <1>1, <1>2, <1>3, <1>4 DEF EarnedAt

LEMMA SuspendedStep ==
  ASSUME Suspended, NEW s, OnlyStream(s), UNCHANGED now,
         s \in DOMAIN stream' => PausedSince(stream'[s], now)
  PROVE  Suspended'
<1>1. \A x \in DOMAIN stream' : x = s \/ (x \in DOMAIN stream /\ stream'[x] = stream[x])
  BY DEF OnlyStream
<1>2. \A x \in DOMAIN stream' : PausedSince(stream'[x], now)
  BY <1>1 DEF Suspended
<1> QED
  BY <1>2 DEF Suspended, PausedSince

-----------------------------------------------------------------------------
(* What the handlers do to a promise                                       *)

(* As the clock moves, what is released goes to the receiver, or is lost   *)
(* to the receiver while the stream is paused.                             *)
LEMMA TickPromise ==
  ASSUME StreamsOK, Suspended, ClockMoves, UNCHANGED stream
  PROVE  /\ Suspended'
         /\ now' = now + 1 /\ now \in U64 /\ now' \in U64
         /\ \A s \in DOMAIN stream : \A k :
              LET p == Promised(stream[s], now, k)
                  step == Schedule(p, now + 1) - Schedule(p, now)
              IN  Promised(stream[s], now', k) =
                    IF p.running THEN [p EXCEPT !.earned = p.earned + step]
                                 ELSE [p EXCEPT !.missed = p.missed + step]
<1>1. now \in U64 /\ now' = now + 1 /\ now' \in U64
  BY UtilsAssumption, StreamAssumption DEF ClockMoves, StreamsOK, U64
<1>2. Suspended'
  <2>1. \A s \in DOMAIN stream : stream[s] \in StreamRecord
    BY DEF StreamsOK
  <2>2. \A s \in DOMAIN stream : PausedSince(stream[s], now')
    BY <1>1, <2>1, UtilsAssumption DEF Suspended, PausedSince, StreamRecord, U64
  <2> QED
    BY <2>2 DEF Suspended, PausedSince
<1>3. ASSUME NEW s \in DOMAIN stream, NEW k
      PROVE  LET p == Promised(stream[s], now, k)
                 step == Schedule(p, now + 1) - Schedule(p, now)
             IN  Promised(stream[s], now', k) =
                   IF p.running THEN [p EXCEPT !.earned = p.earned + step]
                                ELSE [p EXCEPT !.missed = p.missed + step]
  <2> DEFINE st == stream[s]
             p == Promised(st, now, k)
             step == Schedule(p, now + 1) - Schedule(p, now)
  <2>1. st \in StreamRecord /\ st.start_time < st.end_time
    BY DEF StreamsOK
  <2>2. /\ Schedule(p, now) = ReleasedAt(st, now)
        /\ Schedule(p, now + 1) = ReleasedAt(st, now')
        /\ ReleasedAt(st, now) \in Int /\ ReleasedAt(st, now') \in Int
    BY <1>1, <2>1, ReleasedIs, UtilsAssumption DEF StreamRecord, U64
  <2>3. /\ st.paused \in {0, 1} /\ st.paused_amt \in Int /\ st.withdraw_limit \in Int
    BY <2>1, UtilsAssumption DEF StreamRecord, U64
  <2>4. PICK r0 \in Int : r0 = ReleasedAt(st, now)
    BY <2>2
  <2>5. PICK r1 \in Int : r1 = ReleasedAt(st, now')
    BY <2>2
  <2>6. step = r1 - r0
    BY <2>2, <2>4, <2>5
  <2>7. CASE st.paused = 0
    <3>1. EarnedAt(st, now) = r0 - st.paused_amt /\ EarnedAt(st, now') = r1 - st.paused_amt
      BY <2>4, <2>5, <2>7 DEF EarnedAt, Limit
    <3>2. EarnedAt(st, now') = p.earned + step /\ r1 - EarnedAt(st, now') = p.missed
      BY <2>3, <2>4, <2>6, <3>1 DEF Promised
    <3> QED
      BY <2>5, <2>7, <3>2 DEF Promised
  <2>8. CASE st.paused = 1
    <3>1. /\ EarnedAt(st, now) = st.withdraw_limit - st.paused_amt
          /\ EarnedAt(st, now') = EarnedAt(st, now)
      BY <2>8 DEF EarnedAt, Limit
    <3>2. r1 - EarnedAt(st, now') = p.missed + step
      BY <2>3, <2>4, <2>6, <3>1 DEF Promised
    <3>3. ~ p.running
      <4>1. st.paused # 0
        BY <2>8
      <4>2. p.running = (st.paused = 0)
        BY Zenon DEF Promised
      <4> QED
        BY <4>1, <4>2, Zenon
    <3>4. Promised(st, now', k) = [p EXCEPT !.missed = p.missed + step]
      <4> HIDE DEF step
      <4> QED
        BY <2>5, <3>1, <3>2 DEF Promised
    <3> QED
      BY <3>3, <3>4
  <2> QED
    BY <2>3, <2>7, <2>8
<1> QED
  BY <1>1, <1>2, <1>3

LEMMA RunningIs == \A st, t, k : Promised(st, t, k).running = (st.paused = 0)
  BY Zenon DEF Promised

LEMMA SameTerms ==
  ASSUME NEW st, NEW ss, ss.start_time = st.start_time, ss.end_time = st.end_time,
         ss.amount = st.amount
  PROVE  \A t : AllowedAmt(ss, t) = AllowedAmt(st, t) /\ ReleasedAt(ss, t) = ReleasedAt(st, t)
  BY DEF ReleasedAt, Vested, AllowedAmt

(* While the stream has started and not ended, its schedule is AllowedAmt. *)
LEMMA ReleasedInTerm ==
  ASSUME NEW st \in StreamRecord, st.start_time < st.end_time, NEW t \in U64,
         st.start_time <= t, t < st.end_time
  PROVE  ReleasedAt(st, t) = AllowedAmt(st, t)
<1>1. t \in Nat /\ st.start_time \in Nat /\ st.end_time \in Nat
  BY UtilsAssumption DEF U64, StreamRecord
<1>2. CASE t = st.start_time
  BY <1>1, <1>2, AllowedAmtEnds DEF ReleasedAt
<1>3. CASE t # st.start_time
  BY <1>1, <1>3 DEF ReleasedAt, Vested
<1> QED
  BY <1>2, <1>3

(* The same promise, suspended or resumed.                                 *)
Flips(st, ss, t) ==
  \A key : LET p == Promised(st, t, key)
           IN  Promised(ss, t, key) = [p EXCEPT !.running = ~ p.running]

(* Pausing and resuming stop and start the earning, and neither gives nor  *)
(* takes: the amount written off on resuming is what was lost since.       *)
LEMMA TogglePromise ==
  ASSUME StreamsOK, Suspended, NEW keys, reserve \in [keys -> U64], NEW k \in keys,
         NEW s \in Streams, ToggleStream(s, k), UNCHANGED <<feeData, now>>
  PROVE  /\ Suspended'
         /\ s \in DOMAIN stream /\ s \in DOMAIN stream' /\ Kept(s, k, keys)
         /\ stream[s].start_time <= now /\ now < stream[s].end_time
         /\ Flips(stream[s], stream'[s], now)
<1> DEFINE st == stream[s]
           ss == stream'[s]
<1>1. /\ Kept(s, k, keys)
      /\ s \in DOMAIN stream /\ DOMAIN stream' = DOMAIN stream
      /\ st.start_time <= now /\ now < st.end_time
      /\ \/ /\ st.paused = 1
            /\ Missed(st) \in U64 /\ st.paused_amt + Missed(st) \in U64
            /\ ss = [st EXCEPT !.paused_amt = st.paused_amt + Missed(st),
                               !.paused = 0, !.paused_at = 0]
         \/ /\ st.paused = 0
            /\ AllowedAmt(st, now) \in U64
            /\ ss = [st EXCEPT !.paused = 1,
                               !.withdraw_limit = AllowedAmt(st, now),
                               !.paused_at = now]
  BY ToggleKeeps
<1>2. /\ st \in StreamRecord /\ st.start_time < st.end_time /\ StreamInv(st, now)
      /\ now \in U64 /\ PausedSince(st, now)
  BY <1>1 DEF StreamsOK, Suspended
<1>3. /\ now \in Nat /\ st.start_time \in Nat /\ st.end_time \in Nat
      /\ st.paused_amt \in Int /\ st.paused_at \in U64 /\ st.withdraw_limit \in Int
  BY <1>2, UtilsAssumption DEF U64, StreamRecord
<1>4. /\ ss.start_time = st.start_time /\ ss.end_time = st.end_time
      /\ ss.amount = st.amount /\ ss.sender = st.sender /\ ss.withdrawn = st.withdrawn
  BY <1>1, <1>2 DEF StreamRecord
<1>5. ss.can_cancel = st.can_cancel
  BY <1>1, <1>2, Zenon DEF StreamRecord
<1>6. /\ AllowedAmt(st, now) = ReleasedAt(st, now)
      /\ \A t : AllowedAmt(ss, t) = AllowedAmt(st, t)
      /\ ReleasedAt(ss, now) = ReleasedAt(st, now)
      /\ ReleasedAt(st, now) \in Int
      /\ AllowedAmt(st, st.paused_at) \in Int
  BY <1>1, <1>2, <1>3, <1>4, SameTerms, ReleasedInTerm, AllowedAmtType, UtilsAssumption DEF U64
<1> DEFINE Flipped == /\ PausedSince(ss, now)
                      /\ EarnedAt(ss, now) = EarnedAt(st, now)
                      /\ ss.paused = 0 <=> ~ (st.paused = 0)
<1>7. ASSUME st.paused = 1 PROVE Flipped
  <2>0. ss = [st EXCEPT !.paused_amt = st.paused_amt + Missed(st),
                        !.paused = 0, !.paused_at = 0]
    BY <1>1, <1>7
  <2>1. /\ ss.paused = 0 /\ ss.paused_amt = st.paused_amt + Missed(st)
    BY <1>2, <2>0 DEF StreamRecord
  <2>2. EarnedAt(ss, now) = ReleasedAt(st, now) - ss.paused_amt
    BY <1>6, <2>1 DEF EarnedAt, Limit
  <2>3. EarnedAt(st, now) = AllowedAmt(st, st.paused_at) - st.paused_amt
    BY <1>2, <1>7 DEF EarnedAt, Limit, PausedSince
  <2>4. Missed(st) = ReleasedAt(st, now) - AllowedAmt(st, st.paused_at)
    BY <1>6 DEF Missed
  <2>5. EarnedAt(ss, now) = EarnedAt(st, now)
    BY <1>3, <1>6, <2>1, <2>2, <2>3, <2>4
  <2>6. PausedSince(ss, now)
    BY <2>1 DEF PausedSince
  <2> QED
    BY <1>7, <2>1, <2>5, <2>6
<1>8. ASSUME st.paused = 0 PROVE Flipped
  <2>0. ss = [st EXCEPT !.paused = 1, !.withdraw_limit = AllowedAmt(st, now),
                        !.paused_at = now]
    BY <1>1, <1>8
  <2>1. /\ ss.paused = 1 /\ ss.paused_amt = st.paused_amt
        /\ ss.withdraw_limit = AllowedAmt(st, now) /\ ss.paused_at = now
    BY <1>2, <2>0 DEF StreamRecord
  <2>2. EarnedAt(ss, now) = EarnedAt(st, now)
    BY <1>6, <1>8, <2>1 DEF EarnedAt, Limit
  <2>3. PausedSince(ss, now)
    BY <1>1, <1>3, <1>4, <1>6, <2>1 DEF PausedSince
  <2> QED
    BY <1>8, <2>1, <2>2, <2>3
<1>9. Flipped
  BY <1>1, <1>7, <1>8
<1>10. Suspended'
  BY <1>1, <1>9, SuspendedStep DEF Kept
<1>11. ASSUME NEW key
       PROVE  LET p == Promised(st, now, key)
              IN  Promised(ss, now, key) = [p EXCEPT !.running = ~ p.running]
  <2> DEFINE p == Promised(st, now, key)
  <2>1. (ss.paused = 0) = ~ p.running
    BY <1>9, RunningIs, Zenon
  <2> HIDE DEF st, ss
  <2>2. Promised(ss, now, key) =
          [start |-> st.start_time, end |-> st.end_time, total |-> st.amount,
           sender |-> key, cancellable |-> st.can_cancel, running |-> ~ p.running,
           earned |-> EarnedAt(st, now), missed |-> ReleasedAt(st, now) - EarnedAt(st, now),
           paid |-> st.withdrawn]
    BY <1>4, <1>5, <1>6, <1>9, <2>1, Zenon DEF Promised
  <2> QED
    BY <2>2 DEF Promised
<1> QED
  BY <1>1, <1>10, <1>11 DEF Flips

(* What is earned and not paid.                                            *)
Due(st, t, amount) ==
  \A key : LET p == Promised(st, t, key) IN p.earned - p.paid = amount

(* The promise goes on, with everything earned paid ...                    *)
Advances(st, ss, t) ==
  \A key : LET p == Promised(st, t, key)
           IN  /\ Schedule(p, t) < p.total \/ ~ p.running
               /\ Promised(ss, t, key) = [p EXCEPT !.paid = p.earned]

(* ... or has nothing more to give.                                        *)
AllReleased(st, t) ==
  \A key : LET p == Promised(st, t, key) IN Schedule(p, t) = p.total

(* A claim pays everything that is earned and not yet paid, and closes the *)
(* stream only when everything has been released.                          *)
LEMMA ClaimPromise ==
  ASSUME StreamsOK, Suspended, NEW keys, reserve \in [keys -> U64], NEW k \in keys,
         NEW s \in Streams, ClaimStream(s, k), UNCHANGED <<feeData, now>>
  PROVE  /\ Suspended'
         /\ s \in DOMAIN stream /\ Kept(s, k, keys)
         /\ now > stream[s].start_time
         /\ Due(stream[s], now, ClaimAmount(stream[s]))
         /\ \/ s \in DOMAIN stream' /\ Advances(stream[s], stream'[s], now)
            \/ s \notin DOMAIN stream' /\ AllReleased(stream[s], now)
<1> DEFINE st == stream[s]
           ss == stream'[s]
           limit == Limit(st, Vested(st, now))
<1>1. /\ Kept(s, k, keys)
      /\ s \in DOMAIN stream /\ now > st.start_time
      /\ ClaimAmount(st) \in U64
      /\ ClaimAmount(st) = limit - st.paused_amt - st.withdrawn
      /\ \/ /\ DOMAIN stream' = DOMAIN stream \ {s}
            /\ Settled(st) \/ limit = st.amount
         \/ /\ DOMAIN stream' = DOMAIN stream
            /\ ~ Settled(st) /\ limit < st.amount
            /\ ss = [st EXCEPT !.withdrawn = st.withdrawn + ClaimAmount(st)]
  BY ClaimKeeps
<1>2. /\ st \in StreamRecord /\ st.start_time < st.end_time /\ StreamInv(st, now)
      /\ now \in U64 /\ PausedSince(st, now)
  BY <1>1 DEF StreamsOK, Suspended
<1>3. /\ now \in Nat /\ st.start_time \in Nat /\ st.end_time \in Nat /\ st.amount \in Nat
      /\ st.paused_amt \in Nat /\ st.withdrawn \in Nat /\ st.paused \in {0, 1}
      /\ ClaimAmount(st) \in Nat
  BY <1>1, <1>2, UtilsAssumption DEF U64, StreamRecord
<1>4. ReleasedAt(st, now) = Vested(st, now)
  BY <1>1, <1>3 DEF ReleasedAt
<1>5. /\ EarnedAt(st, now) = limit - st.paused_amt
      /\ limit \in Nat
      /\ now < st.end_time /\ st.amount > 0 => limit < st.amount
  BY <1>1, <1>2, <1>3, <1>4, LimitBound DEF EarnedAt
<1>6. ReleasedAt(st, now) \in 0 .. st.amount
  BY <1>2, ReleasedIs
<1> HIDE DEF limit
<1>7. ASSUME DOMAIN stream' = DOMAIN stream \ {s} PROVE ReleasedAt(st, now) = st.amount
  <2>1. now >= st.end_time => ReleasedAt(st, now) = st.amount
    BY <1>4 DEF Vested
  <2>2. st.amount = 0 => ReleasedAt(st, now) = st.amount
    BY <1>3, <1>6
  <2>3. Settled(st) => now >= st.end_time
    BY <1>3 DEF Settled
  <2>4. Settled(st) \/ limit = st.amount
    BY <1>1, <1>7
  <2> QED
    BY <1>3, <1>5, <2>1, <2>2, <2>3, <2>4
<1>8. ASSUME DOMAIN stream' = DOMAIN stream
      PROVE  /\ ss = [st EXCEPT !.withdrawn = EarnedAt(st, now)]
             /\ ReleasedAt(st, now) < st.amount \/ ~ (st.paused = 0)
             /\ PausedSince(ss, now)
  <2>1. /\ limit < st.amount
        /\ ss = [st EXCEPT !.withdrawn = st.withdrawn + ClaimAmount(st)]
    BY <1>1, <1>8
  <2>2. st.withdrawn + ClaimAmount(st) = EarnedAt(st, now)
    BY <1>1, <1>3, <1>5
  <2>3. st.paused = 0 => ReleasedAt(st, now) < st.amount
    BY <1>4, <2>1 DEF limit, Limit
  <2>4. /\ ss.start_time = st.start_time /\ ss.end_time = st.end_time
        /\ ss.amount = st.amount /\ ss.paused = st.paused /\ ss.paused_at = st.paused_at
        /\ ss.withdraw_limit = st.withdraw_limit
    BY <1>2, <2>1 DEF StreamRecord
  <2>5. PausedSince(ss, now)
    BY <1>2, <2>4, SameTerms DEF PausedSince
  <2> QED
    BY <2>1, <2>2, <2>3, <2>5
<1>9. Suspended'
  BY <1>1, <1>8, SuspendedStep DEF Kept
<1>10. ASSUME NEW key
       PROVE  LET p == Promised(st, now, key)
              IN  /\ p.earned - p.paid = ClaimAmount(st)
                  /\ \/ /\ s \in DOMAIN stream'
                        /\ Schedule(p, now) < p.total \/ ~ p.running
                        /\ Promised(ss, now, key) = [p EXCEPT !.paid = p.earned]
                     \/ /\ s \notin DOMAIN stream'
                        /\ Schedule(p, now) = p.total
  <2> DEFINE p == Promised(st, now, key)
  <2>1. p.earned = EarnedAt(st, now) /\ p.paid = st.withdrawn /\ p.total = st.amount
    BY DEF Promised
  <2>2. p.earned - p.paid = ClaimAmount(st)
    BY <1>1, <1>3, <1>5, <2>1
  <2>3. Schedule(p, now) = ReleasedAt(st, now)
    BY <1>2, ReleasedIs
  <2>4. ASSUME DOMAIN stream' = DOMAIN stream
        PROVE  Promised(ss, now, key) = [p EXCEPT !.paid = p.earned]
    <3>1. /\ ss.start_time = st.start_time /\ ss.end_time = st.end_time
          /\ ss.amount = st.amount /\ ss.paused = st.paused
          /\ ss.withdraw_limit = st.withdraw_limit /\ ss.paused_amt = st.paused_amt
          /\ ss.withdrawn = EarnedAt(st, now)
      BY <1>2, <1>8, <2>4 DEF StreamRecord
    <3>2. ss.can_cancel = st.can_cancel
      BY <1>2, <1>8, <2>4, Zenon DEF StreamRecord
    <3>3. ReleasedAt(ss, now) = ReleasedAt(st, now)
      BY <3>1, SameTerms
    <3>4. EarnedAt(ss, now) = EarnedAt(st, now)
      BY <3>1, <3>3 DEF EarnedAt, Limit
    <3> HIDE DEF st, ss
    <3>5. Promised(ss, now, key) =
            [start |-> st.start_time, end |-> st.end_time, total |-> st.amount,
             sender |-> key, cancellable |-> st.can_cancel, running |-> st.paused = 0,
             earned |-> EarnedAt(st, now), missed |-> ReleasedAt(st, now) - EarnedAt(st, now),
             paid |-> EarnedAt(st, now)]
      BY <3>1, <3>2, <3>3, <3>4, Zenon DEF Promised
    <3> QED
      BY <3>5 DEF Promised
  <2>5. p.running = (st.paused = 0)
    BY RunningIs, Zenon
  <2> HIDE DEF p
  <2>6. CASE DOMAIN stream' = DOMAIN stream
    <3>1. Schedule(p, now) < p.total \/ ~ p.running
      BY <1>8, <2>1, <2>3, <2>5, <2>6
    <3> QED
      BY <1>1, <2>2, <2>4, <2>6, <3>1 DEF p
  <2>7. CASE DOMAIN stream' = DOMAIN stream \ {s}
    <3>1. Schedule(p, now) = p.total /\ s \notin DOMAIN stream'
      BY <1>7, <2>1, <2>3, <2>7
    <3> QED
      BY <2>2, <3>1 DEF p
  <2> QED
    BY <1>1, <2>6, <2>7
<1>11. Due(st, now, ClaimAmount(st))
  BY <1>10 DEF Due
<1>12. \/ s \in DOMAIN stream' /\ Advances(st, ss, now)
       \/ s \notin DOMAIN stream' /\ AllReleased(st, now)
  BY <1>10 DEF Advances, AllReleased
<1> QED
  BY <1>1, <1>9, <1>11, <1>12

(* A cancellation pays everything that is earned and not yet paid.         *)
LEMMA CancelPromise ==
  ASSUME StreamsOK, Suspended, NEW keys, reserve \in [keys -> U64], NEW k \in keys,
         NEW s \in Streams, EndStream(s, k), UNCHANGED <<feeData, now>>
  PROVE  /\ Suspended'
         /\ s \in DOMAIN stream /\ s \notin DOMAIN stream' /\ Kept(s, k, keys)
         /\ stream[s].can_cancel /\ now < stream[s].end_time
         /\ Due(stream[s], now, CancelAmount(stream[s]))
<1> DEFINE st == stream[s]
<1>1. /\ Kept(s, k, keys)
      /\ s \in DOMAIN stream /\ DOMAIN stream' = DOMAIN stream \ {s}
      /\ now < st.end_time
  BY EndKeeps
<1>2. /\ st \in StreamRecord /\ st.start_time < st.end_time /\ StreamInv(st, now)
      /\ now \in U64 /\ PausedSince(st, now)
  BY <1>1 DEF StreamsOK, Suspended
<1>3. /\ now \in Nat /\ st.start_time \in Nat /\ st.end_time \in Nat
      /\ st.paused_amt \in Nat /\ st.withdrawn \in Nat /\ st.paused \in {0, 1}
      /\ st.paused_at \in Nat
  BY <1>2, UtilsAssumption DEF U64, StreamRecord
<1>4. EarnedAt(st, now) - st.withdrawn = CancelAmount(st)
  <2>1. CASE now < st.start_time
    <3>1. Untouched(st) /\ st.paused = 0
      BY <1>2, <1>3, <2>1 DEF StreamInv, PausedSince
    <3> QED
      BY <1>3, <2>1, <3>1 DEF EarnedAt, Limit, ReleasedAt, CancelAmount, Untouched
  <2>2. CASE ~ (now < st.start_time)
    <3>1. ReleasedAt(st, now) = AllowedAmt(st, now)
      BY <1>1, <1>2, <1>3, <2>2, ReleasedInTerm
    <3> QED
      BY <2>2, <3>1 DEF EarnedAt, CancelAmount, Payable
  <2> QED
    BY <2>1, <2>2
<1>5. st.can_cancel
  BY DEF EndStream, EndPasses, Cancellable
<1>6. Suspended'
  BY <1>1, SuspendedStep DEF Kept
<1>7. Due(st, now, CancelAmount(st))
  BY <1>4 DEF Promised, Due
<1> QED
  BY <1>1, <1>5, <1>6, <1>7 DEF Kept

(* A new promise: what is released by now is earned, nothing is paid.      *)
Begun(st, t) ==
  \A key : LET p == Promised(st, t, key)
           IN  /\ p.start < p.end /\ t < p.end
               /\ p.running
               /\ p.earned = Schedule(p, t) /\ p.missed = 0 /\ p.paid = 0

LEMMA FreshPromise ==
  ASSUME NEW st \in StreamRecord, st.start_time < st.end_time, NEW t \in U64,
         t < st.end_time, st.paused = 0, Untouched(st)
  PROVE  Begun(st, t)
<1>1. SUFFICES ASSUME NEW key
               PROVE  LET p == Promised(st, t, key)
                      IN  /\ p.start < p.end /\ t < p.end
                          /\ p.running
                          /\ p.earned = Schedule(p, t) /\ p.missed = 0 /\ p.paid = 0
  BY DEF Begun
<1> DEFINE p == Promised(st, t, key)
<1>2. Schedule(p, t) = ReleasedAt(st, t) /\ ReleasedAt(st, t) \in 0 .. st.amount
  BY ReleasedIs
<1>3. ReleasedAt(st, t) \in Int
  BY <1>2, UtilsAssumption DEF StreamRecord, U64
<1>4. EarnedAt(st, t) = ReleasedAt(st, t)
  BY <1>3 DEF EarnedAt, Limit, Untouched
<1>5. p.running
  BY RunningIs, Zenon
<1>6. /\ p.start < p.end /\ t < p.end
      /\ p.earned = ReleasedAt(st, t) /\ p.missed = 0 /\ p.paid = 0
  BY <1>3, <1>4 DEF Promised, Untouched
<1> QED
  BY <1>2, <1>5, <1>6

LEMMA StartPromise ==
  ASSUME NEW keys, NEW k, NEW s, NEW f, NEW sd, NEW r,
         NEW t1, NEW t2, NEW a, NEW cc, NEW cu,
         StreamsOK, Suspended, FeeTypeOK, reserve \in [keys -> U64], k \in keys,
         s \in Streams, sd \in Senders, r \in Receivers,
         t1 \in U64, t2 \in U64, a \in U64, cc \in BOOLEAN, cu \in BOOLEAN,
         StartStream(s, k, f, sd, r, t1, t2, a, cc, cu), UNCHANGED <<feeData, now>>
  PROVE  /\ Suspended'
         /\ s \notin DOMAIN stream /\ DOMAIN stream' = DOMAIN stream \cup {s}
         /\ Kept(s, k, keys)
         /\ Begun(stream'[s], now)
<1>1. /\ Kept(s, k, keys)
      /\ s \notin DOMAIN stream /\ DOMAIN stream' = DOMAIN stream \cup {s}
      /\ stream'[s].start_time = t1 /\ stream'[s].end_time = t2
      /\ stream'[s].paused = 0 /\ Untouched(stream'[s])
      /\ t1 < t2 /\ now < t2
  BY StartKeeps
<1>2. stream'[s] \in StreamRecord /\ now \in U64
  BY <1>1 DEF Kept, StreamsOK
<1>3. Begun(stream'[s], now)
  <2>1. PICK st : st = stream'[s]
    OBVIOUS
  <2> QED
    BY <1>1, <1>2, <2>1, FreshPromise
<1>4. Suspended'
  BY <1>1, SuspendedStep DEF Kept, PausedSince
<1> QED
  BY <1>1, <1>3, <1>4 DEF Kept

(* An update of a stream that is not paused makes a new promise; one that  *)
(* leaves the terms as they are changes nothing.                           *)
LEMMA RevisePromise ==
  ASSUME StreamsOK, Suspended, NEW keys, reserve \in [keys -> U64], NEW k \in keys,
         NEW s \in Streams, NEW t1 \in U64, NEW t2 \in U64, NEW a \in U64,
         ReviseStream(s, k, t1, t2, a), UNCHANGED <<feeData, now>>,
         RunningWhenRevised
  PROVE  /\ Suspended'
         /\ s \in DOMAIN stream /\ s \in DOMAIN stream' /\ Kept(s, k, keys)
         /\ \/ stream'[s] = stream[s]
            \/ /\ now <= stream[s].start_time /\ stream[s].paused = 0
               /\ stream'[s].can_cancel = stream[s].can_cancel
               /\ Begun(stream'[s], now)
<1> DEFINE st == stream[s]
           ss == stream'[s]
<1>1. /\ Kept(s, k, keys)
      /\ s \in DOMAIN stream /\ DOMAIN stream' = DOMAIN stream
      /\ ss = Revised(st, t1, t2, a)
      /\ t1 < t2 /\ now < t2 /\ now <= st.start_time
  BY ReviseKeeps
<1>2. /\ st \in StreamRecord /\ StreamInv(st, now) /\ now \in U64 /\ PausedSince(st, now)
      /\ ss \in StreamRecord
  BY <1>1 DEF StreamsOK, Suspended, Kept
<1>3. /\ ss.start_time = t1 /\ ss.end_time = t2 /\ ss.amount = a
      /\ ss.paused = st.paused /\ ss.withdrawn = st.withdrawn
      /\ ss.paused_amt = st.paused_amt /\ ss.withdraw_limit = st.withdraw_limit
  BY <1>1, <1>2 DEF Revised, StreamRecord
<1>4. ss.can_cancel = st.can_cancel
  BY <1>1, <1>2, Zenon DEF Revised, StreamRecord
<1>5. ASSUME Terms(ss) = Terms(st) PROVE ss = st
  <2>1. t1 = st.start_time /\ t2 = st.end_time /\ a = st.amount
    BY <1>3, <1>5 DEF Terms
  <2> QED
    BY <1>1, <1>2, <2>1 DEF Revised, StreamRecord
<1>6. ASSUME Terms(ss) # Terms(st) PROVE st.paused = 0
  BY <1>1, <1>6 DEF RunningWhenRevised
<1>7. ASSUME st.paused = 0
      PROVE  Begun(ss, now)
  <2>1. Untouched(ss)
    BY <1>1, <1>2, <1>3 DEF StreamInv, Untouched
  <2>2. PICK x : x = ss
    OBVIOUS
  <2> HIDE DEF ss
  <2> QED
    BY <1>1, <1>2, <1>3, <1>7, <2>1, <2>2, FreshPromise
<1>8. PausedSince(ss, now)
  <2>1. CASE ss = st
    BY <1>2, <2>1
  <2>2. CASE st.paused = 0
    BY <1>3, <2>2 DEF PausedSince
  <2> QED
    BY <1>5, <1>6, <2>1, <2>2
<1>9. Suspended'
  BY <1>1, <1>8, SuspendedStep DEF Kept
<1>10. ss = st \/ st.paused = 0
  BY <1>5, <1>6
<1> QED
  BY <1>1, <1>4, <1>7, <1>9, <1>10 DEF Kept

-----------------------------------------------------------------------------
(* When the checks of the handlers pass                                    *)

(* A started stream whose reserve counts it can be claimed: the claim pays *)
(* at most what is owed, and every checked operation returns a value.      *)
LEMMA ClaimGoes ==
  ASSUME StreamsOK, NEW s \in DOMAIN stream, now > stream[s].start_time,
         NEW k, reserve[k] \in U64, Owed(stream[s]) <= reserve[k]
  PROVE  /\ ClaimPasses(s, k)
         /\ ClaimAmount(stream[s]) \in U64
         /\ ClaimAmount(stream[s]) <= Owed(stream[s])
<1> DEFINE st == stream[s]
           limit == Limit(st, Vested(st, now))
           deduction == ClaimDeduction(st)
<1>1. /\ st \in StreamRecord /\ st.start_time < st.end_time /\ StreamInv(st, now)
      /\ now \in U64
  BY DEF StreamsOK
<1>2. /\ now \in Nat /\ st.start_time \in Nat /\ st.amount \in Nat /\ st.amount <= MaxU64
      /\ st.withdrawn \in Nat /\ st.paused_amt \in Nat
      /\ reserve[k] \in Nat /\ reserve[k] <= MaxU64
  BY <1>1, UtilsAssumption DEF U64, StreamRecord
<1>3. limit \in 0 .. st.amount
  BY <1>1, <1>2, LimitBound
<1>4. st.withdrawn + st.paused_amt <= limit
  BY SettlementOK DEF SettlementFits
<1> HIDE DEF limit
<1>5. PayableFits(st, Vested(st, now))
  <2>1. /\ limit - st.paused_amt \in U64
        /\ limit - st.paused_amt - st.withdrawn \in U64
    BY <1>2, <1>3, <1>4, UtilsAssumption DEF U64
  <2> QED
    BY <2>1 DEF PayableFits, Fits, limit
<1>6. /\ ClaimAmount(st) = limit - st.paused_amt - st.withdrawn
      /\ ClaimAmount(st) \in U64
      /\ Transfered(st) = limit
  BY <1>5, ClaimPays DEF limit, Transfered
<1>7. Owed(st) = st.amount - st.withdrawn - st.paused_amt
  BY DEF Owed
<1>8. ClaimAmount(st) <= Owed(st) /\ st.withdrawn + ClaimAmount(st) \in U64
  BY <1>2, <1>3, <1>4, <1>6, <1>7, UtilsAssumption DEF U64
<1>9. deduction = IF Settled(st) THEN st.amount - limit + ClaimAmount(st) ELSE ClaimAmount(st)
  BY <1>6 DEF ClaimDeduction, Deduction
<1> HIDE DEF deduction
<1>10. deduction \in 0 .. Owed(st)
  <2>1. CASE Settled(st)
    <3>1. deduction = st.amount - limit + ClaimAmount(st)
      BY <1>9, <2>1
    <3> QED
      BY <1>2, <1>3, <1>4, <1>6, <1>7, <3>1
  <2>2. CASE ~ Settled(st)
    <3>1. deduction = ClaimAmount(st)
      BY <1>9, <2>2
    <3> QED
      BY <1>2, <1>3, <1>4, <1>6, <1>7, <3>1
  <2> QED
    BY <2>1, <2>2
<1>11. /\ deduction \in U64 /\ reserve[k] - deduction \in U64
       /\ st.amount - limit \in U64
  BY <1>2, <1>3, <1>7, <1>10, UtilsAssumption DEF U64
<1> QED
  BY <1>5, <1>6, <1>8, <1>11 DEF ClaimPasses, Fits, deduction

(* A stream that may be cancelled can be, also before it starts, if its    *)
(* amount and the rest of the reserve, what others are owed, add up.       *)
LEMMA EndGoes ==
  ASSUME StreamsOK, NEW s \in DOMAIN stream, Cancellable(stream[s]),
         NEW k, reserve[k] \in U64, NEW others \in Nat,
         reserve[k] = others + Owed(stream[s]), Fits(stream[s].amount + others)
  PROVE  /\ EndPasses(s, k)
         /\ CancelAmount(stream[s]) \in U64
         /\ CancelAmount(stream[s]) <= Owed(stream[s])
<1> DEFINE st == stream[s]
           released == AllowedAmt(st, now)
<1>1. /\ st \in StreamRecord /\ st.start_time < st.end_time /\ StreamInv(st, now)
      /\ now \in U64 /\ now < st.end_time
  BY DEF StreamsOK, Cancellable
<1>2. /\ now \in Nat /\ st.start_time \in Nat /\ st.end_time \in Nat
      /\ st.amount \in Nat /\ st.amount <= MaxU64
      /\ st.withdrawn \in Nat /\ st.paused_amt \in Nat
      /\ reserve[k] \in Nat /\ reserve[k] <= MaxU64
  BY <1>1, UtilsAssumption DEF U64, StreamRecord
<1>3. released \in U64
  BY <1>1, AllowedAmtType
<1>4. PayableFits(st, released)
  <2>1. /\ Limit(st, released) \in U64
        /\ st.withdrawn + st.paused_amt <= Limit(st, released)
    <3>1. CASE now <= st.start_time
      <4>1. st.withdrawn = 0 /\ st.paused_amt = 0
        BY <1>1, <3>1 DEF StreamInv, Untouched
      <4>2. Limit(st, released) \in U64
        BY <1>1, <1>3 DEF Limit, StreamRecord
      <4> QED
        BY <4>1, <4>2, UtilsAssumption DEF U64
    <3>2. CASE now > st.start_time
      <4>1. Vested(st, now) = released
        BY <1>1, <1>2 DEF Vested
      <4>2. st.withdrawn + st.paused_amt <= Limit(st, Vested(st, now))
        BY <3>2, SettlementOK DEF SettlementFits
      <4>3. Limit(st, released) \in U64
        BY <1>1, <1>3 DEF Limit, StreamRecord
      <4> QED
        BY <4>1, <4>2, <4>3
    <3> QED
      BY <1>2, <3>1, <3>2
  <2> DEFINE limit == Limit(st, released)
  <2> HIDE DEF limit
  <2>2. limit \in Nat /\ limit <= MaxU64 /\ st.withdrawn + st.paused_amt <= limit
    BY <2>1, UtilsAssumption DEF U64, limit
  <2>3. limit - st.paused_amt \in U64 /\ limit - st.paused_amt - st.withdrawn \in U64
    BY <1>2, <2>2, UtilsAssumption DEF U64
  <2> QED
    BY <2>3 DEF PayableFits, Fits, limit
<1>5. CancelAmount(st) \in U64 /\ CancelAmount(st) <= Owed(st)
  BY <1>1, <1>4, CancelPays
<1>6. Owed(st) = st.amount - st.withdrawn - st.paused_amt
  BY DEF Owed
<1>7. /\ reserve[k] + st.withdrawn + st.paused_amt \in U64
      /\ reserve[k] + st.withdrawn \in U64
      /\ reserve[k] + st.withdrawn + st.paused_amt - st.amount \in U64
  <2>1. reserve[k] + st.withdrawn + st.paused_amt = st.amount + others
    BY <1>2, <1>6
  <2> QED
    BY <1>2, <2>1, UtilsAssumption DEF Fits, U64
<1> QED
  BY <1>4, <1>5, <1>7 DEF EndPasses, Fits

(* A paused stream whose limit belongs to its schedule can be resumed: the *)
(* release since the pause is neither negative nor more than is owed.      *)
LEMMA ResumeGoes ==
  ASSUME StreamsOK, Suspended, NEW s \in DOMAIN stream, stream[s].paused = 1,
         stream[s].start_time <= now, now < stream[s].end_time,
         NEW k, reserve[k] \in U64, Owed(stream[s]) <= reserve[k]
  PROVE  TogglePasses(s, k)
<1> DEFINE st == stream[s]
           then == AllowedAmt(st, st.paused_at)
           released == AllowedAmt(st, now)
<1>1. /\ st \in StreamRecord /\ st.start_time < st.end_time /\ StreamInv(st, now)
      /\ now \in U64
  BY DEF StreamsOK
<1>2. /\ now \in Nat /\ st.start_time \in Nat /\ st.end_time \in Nat
      /\ st.paused_at \in U64 /\ st.paused_at \in Nat
      /\ st.amount \in Nat /\ st.amount <= MaxU64
      /\ st.withdrawn \in Nat /\ st.paused_amt \in Nat
      /\ reserve[k] \in Nat /\ reserve[k] <= MaxU64
  BY <1>1, UtilsAssumption DEF U64, StreamRecord
<1>3. /\ st.start_time <= st.paused_at /\ st.paused_at <= now
      /\ st.paused_at < st.end_time /\ st.withdraw_limit = then
  BY DEF Suspended, PausedSince
<1>4. then <= released
  BY <1>1, <1>2, <1>3, AllowedAmtMonotone
<1>5. then \in 0 .. st.amount /\ released \in 0 .. st.amount
  BY <1>1, <1>2, <1>3, AllowedAmtInTerm
<1>6. st.withdrawn + st.paused_amt <= then
  BY <1>1, <1>2, <1>3, <1>5 DEF StreamInv, Untouched, PausedWithin
<1>7. Missed(st) = released - then /\ Owed(st) = st.amount - st.withdrawn - st.paused_amt
  BY DEF Missed, Owed
<1> HIDE DEF then, released
<1>8. /\ Missed(st) \in U64
      /\ st.paused_amt + Missed(st) \in U64
      /\ reserve[k] - Missed(st) \in U64
  BY <1>2, <1>4, <1>5, <1>6, <1>7, UtilsAssumption DEF U64
<1> QED
  BY <1>8 DEF TogglePasses, Fits

(* What some streams are owed is what one of them is owed and the others.  *)
LEMMA OwedCounted ==
  ASSUME StreamsOK, NEW S, S \subseteq DOMAIN stream, NEW s \in S
  PROVE  /\ OwedTo(S) = OwedTo(S \ {s}) + Owed(stream[s])
         /\ OwedTo(S \ {s}) \in Nat /\ Owed(stream[s]) \in Nat
<1> DEFINE f == [x \in S |-> Owed(stream[x])]
<1>1. DOMAIN f = S /\ f[s] = Owed(stream[s])
  OBVIOUS
<1>2. IsFiniteSet(S)
  BY StreamAssumption, FS_Subset DEF StreamsOK
<1>3. f[s] \in U64
  BY <1>1, OwedType DEF StreamsOK
<1>4. Without(f, s) = [x \in S \ {s} |-> Owed(stream[x])]
  BY DEF Without
<1> HIDE DEF f
<1>5. Total(Without(f, s)) \in Nat
  BY <1>1, <1>2, FS_RemoveElement, TotalType DEF Without
<1>6. Total(f) = Total(Without(f, s)) + f[s]
  BY <1>1, <1>2, <1>3, <1>5, TotalSplit
<1>7. f[s] \in Nat
  BY <1>3, UtilsAssumption DEF U64
<1> QED
  BY <1>1, <1>4, <1>5, <1>6, <1>7 DEF f, OwedTo

(* The commission on part of an amount is a u64 when that on the amount    *)
(* is, and never more than the part.                                       *)
LEMMA ComissionBound ==
  ASSUME NEW pct \in 0 .. FeeScale, NEW whole \in Nat, NEW part \in 0 .. whole,
         ComissionFits(pct, whole)
  PROVE  /\ ComissionFits(pct, part)
         /\ CalculateComission(pct, part) \in 0 .. part
<1>1. /\ FeeScale \in Nat \ {0} /\ pct \in Nat /\ part \in Nat /\ MaxU64 \in Nat
      /\ pct <= FeeScale /\ part <= whole
  BY UtilsAssumption
<1>2. pct * part \in Nat /\ pct * part <= pct * whole
  BY <1>1
<1>3. pct * part \in U64
  BY <1>1, <1>2 DEF ComissionFits, Fits, U64
<1>4. pct * part <= FeeScale * part
  BY <1>1
<1>5. (pct * part) \div FeeScale \in Nat /\ (pct * part) \div FeeScale <= part
  BY <1>1, <1>2, <1>4
<1> QED
  BY <1>1, <1>3, <1>5 DEF ComissionFits, Fits, CalculateComission
=============================================================================
