------------------------- MODULE TokenStreamPromise -------------------------
(***************************************************************************)
(* The token streams keep the promise of module StreamPromise, each mint   *)
(* of a sender being a funder of its own, as long as no stream is updated  *)
(* while it is paused and cancellations name the stream's mint.            *)
(***************************************************************************)
EXTENDS TokenStream

CarefulSpec == Init /\ [][OwnMintNext /\ RunningWhenRevised]_vars

Promise ==
  INSTANCE StreamPromise
    WITH Senders <- Senders \X Mints,
         promise <- [s \in DOMAIN stream |-> Abstract(stream[s], Key(s))],
         funds <- [k \in Senders \X Mints |-> Balance(k)]

(* Every claim and cancellation pays from the vault of the stream's mint   *)
(* exactly what the elapsed running time has earned, and touches no other  *)
(* vault.                                                                  *)
PromiseKept == Promise!Spec
=============================================================================
