----------------------------- MODULE ZebecUtils -----------------------------
(***************************************************************************)
(* The arithmetic shared by the handlers of the streaming program: the     *)
(* checks of utils.rs, the linear release schedule of a stream, and the    *)
(* commission on a payment.  Amounts, times and percentages are u64.       *)
(***************************************************************************)
EXTENDS Integers

CONSTANTS
  MaxU64,         \* largest u64: 2^64 - 1 in the program, a small word here
  FeeScale,       \* the fee percentage that stands for 100%: 10000 in the program
  RentExemptMin   \* lamports an account needs to be kept by the runtime

ASSUME UtilsAssumption ==
  /\ MaxU64 \in Nat
  /\ FeeScale \in Nat \ {0}
  /\ RentExemptMin \in Nat \ {0}

U64 == 0 .. MaxU64

(* The program is built in release mode without overflow checks: a plain   *)
(* u64 operator keeps the low bits of its result.                          *)
WrapU64(x) == x % (MaxU64 + 1)

(* checked_add and checked_sub return a value exactly when it is a u64.    *)
Fits(x) == x \in U64

(* New terms must end after the time t and have a positive duration.       *)
CheckOverflow(t, start_time, end_time) ==
  /\ t < end_time
  /\ start_time < end_time

(* The share of the amount released at time t.  The subtraction wraps when *)
(* t is before the start; the product is a u128 and cannot overflow; the   *)
(* quotient is cut to u64.                                                 *)
AllowedAmt(st, t) ==
  WrapU64((WrapU64(t - st.start_time) * st.amount)
            \div (st.end_time - st.start_time))

ComissionFits(fee_percentage, allowed) == Fits(fee_percentage * allowed)

CalculateComission(fee_percentage, allowed) ==
  (fee_percentage * allowed) \div FeeScale

(* External: a transaction that leaves an account with a balance that is   *)
(* neither zero nor rent exempt is rejected by the runtime; an account     *)
(* left with zero lamports is dropped.                                     *)
RentExempt(lamports) == lamports = 0 \/ lamports >= RentExemptMin
=============================================================================
