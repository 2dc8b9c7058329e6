---------------------------- MODULE MCTokenStream ---------------------------
(***************************************************************************)
(* Values for the constants of TokenStream: one sender, one receiver and   *)
(* one fee owner, one or two mints.                                        *)
(***************************************************************************)
EXTENDS TokenStreamPromise, TLC

CONSTANTS alice, bob, fred, s1, s2, usdc, zbc, SenderTokens

MCUsers == {alice, bob, fred}
MCSenders == {alice}
MCReceivers == {bob}
MCFeeOwners == {fred}

OneStream == {s1}
TwoStreams == {s1, s2}
OneMint == {usdc}
TwoMints == {usdc, zbc}
Symmetry == Permutations(TwoStreams) \cup Permutations(TwoMints)

(* Lamports for the rent of the vaults, and tokens of the sender.          *)
MCWallet == [u \in MCUsers |-> IF u = bob THEN 0 ELSE RentExemptMin]
MCTokens == [k \in MCUsers \X Mints |-> IF k[1] = alice THEN SenderTokens ELSE 0]

TimesTo1 == 0 .. 1
TimesTo2 == 0 .. 2
=============================================================================
