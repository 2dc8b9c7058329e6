--------------------------- MODULE MCNativeStream ---------------------------
(***************************************************************************)
(* Values for the constants of NativeStream: small words, so that the      *)
(* wrapping subtraction and the checked operations meet their limits, one  *)
(* sender, one receiver and one fee owner.                                 *)
(***************************************************************************)
EXTENDS NativeStreamPromise, TLC

CONSTANTS alice, bob, fred, s1, s2

MCUsers == {alice, bob, fred}
MCSenders == {alice}
MCReceivers == {bob}
MCFeeOwners == {fred}

OneStream == {s1}
TwoStreams == {s1, s2}
StreamSymmetry == Permutations(TwoStreams)

(* The sender's lamports limit how far the vault can be funded; the fee    *)
(* owner has the rent of the fee vault.                                    *)
MCWallet == (alice :> 8) @@ (bob :> 0) @@ (fred :> RentExemptMin)

TimesTo2 == 0 .. 2
TimesTo4 == 0 .. 4
TimesOfLive == {0, 1, 3}
=============================================================================
