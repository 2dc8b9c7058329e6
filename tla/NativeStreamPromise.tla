------------------------ MODULE NativeStreamPromise -------------------------
(***************************************************************************)
(* The SOL streams keep the promise of module StreamPromise, as long as no *)
(* stream is updated while it is paused.                                   *)
(***************************************************************************)
EXTENDS NativeStream

CarefulSpec == Init /\ [][Next /\ RunningWhenRevised]_vars

Promise ==
  INSTANCE StreamPromise
    WITH promise <- [s \in DOMAIN stream |-> Abstract(stream[s], stream[s].sender)],
         funds <- vault

(* Every step of the handlers is a step of the promise or leaves it alone: *)
(* in particular each claim and the final payment of a cancellation pay    *)
(* exactly what the elapsed running time has earned, however often the     *)
(* stream was paused, and a stream never closes while more can be earned.  *)
PromiseKept == Promise!Spec
=============================================================================
