----------------------------- MODULE FeeAccount -----------------------------
(***************************************************************************)
(* The fee accounts of the streaming program (create_fee_account/mod.rs).  *)
(* A fee owner has two program addresses: fee_vault_data, which records    *)
(* the percentage new streams are created with, and fee_vault, an account  *)
(* without data that collects the commission of SOL payments.              *)
(***************************************************************************)
EXTENDS ZebecUtils, FiniteSets

CONSTANTS
  Users,           \* wallets that sign instructions or receive lamports
  FeeOwners,       \* the users who open a fee account
  FeePercentages   \* the fee_percentage arguments tried

(* Addresses have 32 bytes: there are finitely many of each kind.          *)
ASSUME FeeAssumption ==
  /\ IsFiniteSet(Users)
  /\ FeeOwners \subseteq Users
  /\ FeePercentages \subseteq U64

VARIABLES
  wallet,     \* lamports of each user, above the user's own rent minimum
  feeData,    \* fee_percentage of each fee_vault_data account that exists
  feeVault,   \* lamports at each fee_vault address
  feeVaults   \* fee owners whose fee_vault belongs to the program

feeVars == <<feeData, feeVault, feeVaults>>

FeeTypeOK ==
  /\ wallet \in [Users -> U64]
  /\ DOMAIN feeData \subseteq FeeOwners
  /\ feeData = [f \in DOMAIN feeData |-> feeData[f]]
  /\ \A f \in DOMAIN feeData : feeData[f] \in 0 .. FeeScale
  /\ feeVault \in [FeeOwners -> U64]
  /\ feeVaults \subseteq DOMAIN feeData

FeeInit ==
  /\ feeData = [f \in {} |-> 0]
  /\ feeVault = [f \in FeeOwners |-> 0]
  /\ feeVaults = {}

(* A definition named Faulty... is a slip the code could have had; no      *)
(* action uses it.  The runs show that a property tells it from the code.  *)
FaultyInBound(fee_percentage) == fee_percentage <= FeeScale + 1

InBound(fee_percentage) == fee_percentage <= FeeScale

(* Both accounts are created by `init`, which fails when they exist; the   *)
(* fee owner pays the rent of the vault.                                   *)
CreateFeeAccount(f, fee_percentage) ==
  /\ f \notin DOMAIN feeData
  /\ InBound(fee_percentage)
  /\ RentExemptMin <= wallet[f]
  /\ Fits(feeVault[f] + RentExemptMin)
  /\ feeData' = [x \in DOMAIN feeData \cup {f} |->
                   IF x = f THEN fee_percentage ELSE feeData[x]]
  /\ wallet' = [wallet EXCEPT ![f] = @ - RentExemptMin]
  /\ feeVault' = [feeVault EXCEPT ![f] = @ + RentExemptMin]
  /\ feeVaults' = feeVaults \cup {f}

UpdateFees(f, fee_percentage) ==
  /\ f \in DOMAIN feeData
  /\ InBound(fee_percentage)
  /\ feeData' = [feeData EXCEPT ![f] = fee_percentage]
  /\ UNCHANGED <<wallet, feeVault, feeVaults>>

(* All the lamports of the vault go to the owner, the rent reserve with    *)
(* them, so the runtime drops the vault.  Only an account of the program   *)
(* can be debited.                                                         *)
WithdrawFeesSol(f) ==
  /\ f \in DOMAIN feeData
  /\ f \in feeVaults \/ feeVault[f] = 0
  /\ Fits(wallet[f] + feeVault[f])
  /\ wallet' = [wallet EXCEPT ![f] = @ + feeVault[f]]
  /\ feeVault' = [feeVault EXCEPT ![f] = 0]
  /\ feeVaults' = feeVaults \ {f}
  /\ UNCHANGED feeData

FeeNext ==
  \E f \in FeeOwners :
    \/ \E p \in FeePercentages : CreateFeeAccount(f, p) \/ UpdateFees(f, p)
    \/ WithdrawFeesSol(f)
=============================================================================
