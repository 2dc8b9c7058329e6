------------------------------ MODULE MCSender ------------------------------
(***************************************************************************)
(* Values for the constants of MultisigSender: a multisig of two owners,   *)
(* one of whom may be left as the only one, with one stream.  The owners   *)
(* store what they may do with the stream and with the lamports, each call *)
(* with the arguments of one client.                                       *)
(***************************************************************************)
EXTENDS MultisigSender, TLC

CONSTANTS ann, ben, m1, t1, t2, t3, signer, bob, fred, s1

MCOwners == {ann, ben}
MCMultisigs == {m1}
MCTxs == {t1, t2, t3}
MCOwnerLists == {<<ann, ben>>, <<ben>>}
MCUsers == {signer, bob, fred}
MCSenders == {signer}
MCReceivers == {bob}
MCFeeOwners == {fred}
MCStreams == {s1}
MCSigner == [m \in MCMultisigs |-> signer]
MCWallet == [u \in MCUsers |-> IF u = signer THEN 8 ELSE IF u = fred THEN 2 ELSE 0]
MCTimes == {0, 2}

DepositCall == [op |-> "deposit_sol", signer |-> signer, amount |-> 4]
StreamCall ==
  [op |-> "native_stream", signer |-> signer, stream |-> s1, receiver |-> bob,
   fee_owner |-> fred, start_time |-> 0, end_time |-> 2, amount |-> 2,
   can_cancel |-> TRUE, can_update |-> TRUE]
UpdateCall ==
  [op |-> "native_stream_update", signer |-> signer, stream |-> s1,
   start_time |-> 0, end_time |-> 2, amount |-> 3]
PauseCall == [op |-> "pause_stream", signer |-> signer, stream |-> s1]
CancelCall == [op |-> "cancel_stream", signer |-> signer, stream |-> s1]
TransferCall ==
  [op |-> "instant_native_transfer", signer |-> signer, receiver |-> bob, amount |-> 2]
WithdrawalCall == [op |-> "native_withdrawal", signer |-> signer, amount |-> 2]
DirectCall == [op |-> "send_sol_directly", signer |-> signer, receiver |-> bob, amount |-> 2]
OtherCall == [op |-> "other", signer |-> bob]

MCCalls ==
  {DepositCall, StreamCall, UpdateCall, PauseCall, CancelCall, TransferCall,
   WithdrawalCall, DirectCall, OtherCall}
MCSymmetry == Permutations(MCTxs)
=============================================================================
