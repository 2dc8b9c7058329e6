# Zebec: TLA+ specifications, model checks and proofs

Zebec streams money on Solana. A sender deposits SOL (or tokens) in a vault and
opens streams that release an amount linearly between two times; the receiver
claims what has been released, and the sender may update, pause, resume or cancel
the stream. A second program, a multisig, lets several owners act as one sender.
This directory specifies the programs of this repository in TLA+, checks the
specifications with TLC on small instances and proves the main results with TLAPS
for all instances.

    tlc -config MCShared.cfg MCNativeStream     one run
    tlapm NativeStream_proofs.tla               the proofs of one module

`PROJECT.json` lists the parts, the runs, the source lines behind every
definition, the hazards, and for every property a slip in the code that the
property tells from the code (the `Faulty...` and `Never...` definitions, which no
action uses).

## 1. The system

Paths are relative to `src/programs/`.

| Component | State | Operations |
| --- | --- | --- |
| **native streams** `zebec/src/processor/native_stream/mod.rs` | a `Stream` account per stream, one `zebec_vault` and one `withdraw_data` per sender | `deposit_sol`, `native_stream`, `native_stream_update`, `withdraw_stream`, `pause_stream` (a toggle), `cancel_stream`, `instant_native_transfer`, `native_withdrawal`, `sol_directly` |
| **fee accounts** `zebec/src/processor/create_fee_account/mod.rs` | `fee_vault_data` (percentage) and `fee_vault` (lamports) per fee owner | `create_fee_account`, `update_fees`, `withdraw_fees_sol`, `withdraw_fees_token` |
| **shared code** `zebec/src/utils.rs`, `error.rs` | none | `check_overflow`, `calculate_comission`, transfers |
| **token streams** `zebec/src/processor/token_stream/mod.rs` | as native streams, with a token account and a `withdraw_data` per sender and mint | the same nine, for tokens |
| **multisig** `multisig/src/lib.rs` | `Multisig` (owners, threshold, sequence number), `Transaction` (stored instruction, approvals, `did_execute`) | `create_multisig`, `create_transaction`, `approve`, `execute_transaction`, `set_owners`, `change_threshold`, `set_owners_and_change_threshold` |
| **entry points** `zebec/src/lib.rs` | none | hand arguments to the handlers |

How they interact:

- All the streams of a sender, whoever receives them, draw on the **same vault**,
  and **withdraw_data** counts what the vault still owes to all of them together.
  Opening a stream does not ask whether the vault can cover it.
- A claim or a cancellation splits the payment between the receiver and the
  **fee vault** of the fee owner chosen at creation, at the percentage copied at
  creation.
- The multisig calls the streaming program as a sender (`invoke_signed`), and
  calls itself to change its owners or its threshold.
- The runtime drops an account left with no lamports, refuses a transaction that
  leaves an account below its rent minimum, and lets a program debit only
  accounts it owns.

### What is hard, and what makes it correct

*Native streams.* Five handlers adjust `withdraw_data`, each by arithmetic of its
own: claims subtract the payment, or the payment and the rest when a stream was
left paused past its end; resuming subtracts what was missed; cancelling adds two
fields and subtracts a third; updating swaps amounts. They run in any order on any
mix of streams. Correct means that the reserve is always exactly the sum of
what the live streams are owed; that the receiver's claim and the sender's
cancellation then never run into one of the many `checked_sub`; that one stream
never takes what another is owed; that pauses, which record a limit and a time
used long afterwards, lose nothing by rounding; and that a stream nobody can
resume or cancel any more still comes to an end. Time enters through
`allowed_amt`, whose plain `now - start_time` wraps before the start.

*Fee accounts.* A vault that can be emptied, rent reserve included, while streams
go on paying into it.

*Token streams.* The same, with several mints per sender, and with accounts that
a handler must match to the stream's mint (`cancel_token_stream` does not). Correct
means that whatever mints an instruction names, no token changes its mint and no
reserve loses track, and that streams in different mints do not notice each other.

*Multisig.* Approvals are bound to a sequence number that changes of the owners
move and changes of the threshold do not; `did_execute` is set after the call,
which may be a call to the multisig itself. Correct means that what is executed
was approved by enough of the owners in force, and once; that no order of changes
leaves a threshold nobody can reach; and that a sender which is a multisig spends
no more than its owners decided.

Each of these points is an entry of "hazards" in `PROJECT.json`, at its line.

## 2. Modules

| Module | What it is | Builds on |
| --- | --- | --- |
| `ZebecUtils` | u64 arithmetic, schedule, commission, rent rule | `Integers` |
| `FeeAccount` | fee accounts: state, one action per instruction | `ZebecUtils` |
| `StreamTerms` | what the two kinds of streams share: the record, what is payable, how each handler changes a stream and its reserve | `FeeAccount` |
| `NativeStream` | SOL streams, vaults and reserves, composed with the fee accounts; `Spec`, `FairSpec`, properties | `StreamTerms` |
| `TokenStream` | token streams: a vault, a reserve and a commission account per mint; `Spec`, `OwnMintSpec`, properties | `StreamTerms` |
| `StreamPromise` | abstract specification: what a stream promises to both sides | `Integers` |
| `NativeStreamPromise`, `TokenStreamPromise` | the refinement mappings to `StreamPromise` | `NativeStream`, `TokenStream` |
| `Multisig` | the multisig program, an execution with all its nested calls in one step; `MultisigSpec`, `FairMultisigSpec`, properties | `Functions` |
| `MultisigCalls` | executions call by call, with failures; refines `Multisig` | `Multisig` |
| `Council` | abstract specification: what a multisig promises to its owners | `FiniteSets` |
| `MultisigCouncil` | the refinement mapping from `Multisig` to `Council` | `Multisig` |
| `MultisigSender` | both programs: signers of multisigs among the users of SOL streams; stored calls and calls of wallets | `Multisig`, `NativeStream` |
| `StreamTerms_proofs` | lemmas both kinds of streams use: the schedule, sums, what each handler keeps, and what it does to a stream's promise | `StreamTerms` |
| `NativeStream_proofs`, `TokenStream_proofs` | invariants and action properties of the streams | `StreamTerms_proofs` |
| `NativeStreamPromise_proofs`, `TokenStreamPromise_proofs` | the refinement of `StreamPromise` | `NativeStreamPromise` and `NativeStream_proofs`, and the same for tokens |
| `Multisig_proofs` | invariants of the multisig, the refinement of `Council` | `MultisigCouncil` |
| `MultisigCalls_proofs` | executions call by call refine executions in one step | `MultisigCalls` |
| `MultisigSender_proofs` | what a multisig pays and does with streams is decided by its owners | `MultisigSender`, `NativeStream_proofs`, `Multisig_proofs` |
| `MCNativeStream`, `MCTokenStream`, `MCMultisig`, `MCMultisigCalls`, `MCSender` | constants for TLC | the modules above |

The handlers for SOL and for tokens are two copies of one program text up to the
accounts that carry the money. `StreamTerms` has the common part once, with the
`withdraw_data` account as a parameter (`k`): the sender for SOL, the pair of sender and
mint for tokens. Each handler is then `NativeStream`'s or `TokenStream`'s own action,
which adds its balances and account constraints; the map names the lines of both
copies where they differ.

### State

| Variable | Code |
| --- | --- |
| `stream[s]` | the `Stream` in data account `s`, field by field; `s` is in the domain while the account exists |
| `reserve[sd]` | `withdraw_data.amount` of sender `sd`; an account not created yet counts as 0, as `init_if_needed` leaves it |
| `vault[sd]` | lamports of `zebec_vault`; 0 when there is none |
| `wallet[u]` | lamports of a user above the user's own rent minimum |
| `feeData[f]` | `fee_percentage` in `fee_vault_data`, for the accounts that exist |
| `feeVault[f]`, `feeVaults` | lamports at the `fee_vault` address, and which of these addresses the program owns |
| `now` | `Clock::get()?.unix_timestamp` |
| `token_mint[s]` | `StreamToken.token_mint` |
| `reserve[sd, m]` | in `TokenStream`: `TokenWithdraw.amount` of sender and mint |
| `tokens[u, m]`, `tokenVault[sd, m]`, `feeTokens[f, m]` | balances of the associated token accounts of users, vaults and fee vaults; a vault's is in the domain once it exists, because two handlers require that |
| `multisig[m]`, `transaction[t]` | the `Multisig` and `Transaction` accounts, field by field; the stored program id, accounts and data are one `instruction` |
| `performed[t]`, `approved[t]` | how often the stored instruction took effect, and which owners proposed or approved it themselves (bookkeeping of the model, which no guard reads) |
| `stack`, `saved` | in `MultisigCalls`: the calls in progress, each with the copy of the account it loaded, and the accounts to restore when one fails |

### Actions

A transaction is atomic, and a handler that returns `Err` changes nothing. So each
handler is one action: its `require`s, early returns, `checked_...` operations and
account constraints are the guards (`Fits(x)`: `x` is a u64), its assignments the
primed variables. Plain `+` and `-` on u64 wrap (`WrapU64`), as `Cargo.toml` does not turn
on overflow checks for release builds. Interleaving of actions is the interleaving of
transactions of all users, any number in one second.

- The checks of claims, pauses and cancellations are operators of their own
  (`ClaimPasses`, `TogglePasses`, `EndPasses`, `PaymentPasses`, and for whole handlers
  `WithdrawPasses`, `CancelPasses`), and what the handler does when they pass is a function
  of the state. Properties that say a handler is not refused are about these operators.
- `PayFromVault` is the part `withdraw_stream` and `cancel_stream` share: the
  balance check, commission, the two lamport transfers, and the runtime's rent rule
  on both accounts they touch.
- `PauseStream` has a disjunct for each branch of the toggle.
- `TakeFromVault` is the body `instant_native_transfer` and `native_withdrawal`
  have in common; they differ in who receives.
- An emptied fee vault leaves `feeVaults` for good: `create_fee_account` can not
  run again because `fee_vault_data` still exists.
- `Tick` is external: the clock moves by one second. It stops at `MaxTime`, which
  only bounds the runs.

- `CancelTokenStream(s, m)` has the mint as an argument of its own, the other token
  actions take the stream's: the constraint `data_account.token_mint == mint` is
  on their accounts and not on `CancelTokenStream`'s.
- `ExecuteTransaction(c)` executes a chain: transaction `c[i]` stores the execution of
  `c[i + 1]`, and the last one stores something else. `Effect` is what that last instruction
  does to the multisigs; it is signed by the multisigs of the whole chain. A change of
  owners or threshold is only possible here, as `Auth` wants the signer of the multisig.
- `MultisigCalls` takes the same apart: `Enter` loads and checks an account, `Invoke` runs
  the stored instruction, `Return` stores the loaded copy with `did_execute` set, and
  `Abort` undoes the whole transaction. Nothing forbids to enter an account again that is
  still executing; `CallsAreAtomic` shows that this never takes effect.
- `MultisigSender` puts the two together. `ZebecCalls` are the instructions of the SOL half of
  `zebec/src/lib.rs` with their arguments: deposits, streams, updates, pauses, cancellations,
  claims, the two transfers, withdrawals, and those on fee accounts. `Perform` is the action of
  `NativeStream` a call names, if the user it names signed. A stored call is signed by the multisigs of the whole chain and by
  wallets, as anyone may sign along with an execution; wallets also sign calls for
  themselves. A stored call of another program (`OtherCalls`) leaves these accounts alone. `SenderAssumption` says no more
  than this: stored calls are calls of one or the other kind, and signers are users.

### Abstractions

- Addresses, seeds and bumps are model values; a handler's address constraints
  become which accounts it reads. Signers are implicit in who the action names.
- Rent deposits of data accounts are not tracked: that of a stream is paid by its sender and
  returned to the sender when the stream is closed, those of `withdraw_data` and
  `fee_vault_data` stay there, as nothing closes these accounts. The rent of `zebec_vault` and
  `fee_vault` is tracked, since it is mixed with the money.
- Lamports sent to a vault's address by a plain system transfer from outside the
  program are not modelled.
- The clock never goes back.
- A transaction holds one instruction. Solana allows several, all or none of which
  take effect; what a second instruction could do to an account that the first left
  with no lamports, before the runtime drops it, is not modelled.
- Payments go to wallets, not to the program's own addresses.
- Token accounts are created at someone's expense and never closed; that expense is not
  tracked. Nor is the rent of token streams' data accounts.
- A stored `approve`, `create_transaction` or `create_multisig` is not among `Instructions`. To
  execute one is to execute an instruction without effect and to run that instruction next to it, which are
  steps of the model.
- In `MultisigSender` a multisig uses the SOL half of the streaming program. Its token streams are not
  composed with it; of the accounts here they could touch only the rent of the vault.
- Owners of a multisig are wallets, not addresses derived by a program. The space a client
  allots to the accounts is enough for the owners it names.
- A stored instruction carries the signer flags it needs. An instruction of another
  program may fail, and then its execution has no effect (`ExecuteTransaction` is
  never forced but under `FairMultisigSpec`, where calls succeed in the end).
- An owner's address in a list occurs in the lists a client could send, duplicates and
  the empty list included; the code refuses these.
- `FewTransactions` assumes fewer transaction accounts than sequence numbers (2^32).

## 3. Runs

| Run | Asks | Bounds | States |
| --- | --- | --- | --- |
| `shared` (MCShared) | Is the bookkeeping right when two streams share a vault and terms may be updated? `TypeOK`, `ReserveExact`, `SettlementFits`, `FundedPays`, `LamportsConserved`, `FundedStaysFunded`, `NonCancellableRunsItsTerm`, `TermsFixedOnceUsed` | two streams (symmetric), amounts 2 and 3, times 0..2, clock to 3, percentages 50% and one out of bound | 652 k |
| `promise` (MCPromise) | Do the handlers implement the abstract promise? `PromiseKept`, `PausedResumes` | one stream, amounts 2 and 3, times 0..4, clock to 5, updates unless paused | 172 k |
| `live` (MCLive) | Is every funded stream closed in the end, and is anything refused near the largest u64? `FundedStreamCloses`, `FundedPays` | two streams of amount 5, `MaxU64` 9, rent 1, times 0, 1 and 3, clock to 4 | 192 k |
| `mints` (MCMints) | What survives a cancellation in the name of any mint? `TypeOK`, `ReservesAddUp`, `TokensConserved` | two streams, two mints (both symmetric), updates, clock to 2 | 291 k |
| `own_mint` (MCOwnMint) | And when cancellations name the stream's mint? `ReserveOfMintExact`, `BackedPays`, `BackedStaysBacked`, `PromiseKept` | two streams, two mints (symmetric), amount 3, times 0..2, clock to 3, updates unless paused | 302 k |
| `owners` (MCOwners) | Do changes of owners and threshold, decisions and approvals in every order keep the council's promise, and is every proposal decided? `MultisigTypeOK`, `ThresholdReachable`, `GovernedByOwners`, `GovernanceKept`, `ProposalDecided` | three owners, lists that reorder, shrink, repeat or are empty, thresholds 0..3, two stored instructions, a good and a bad nonce | 317 k |
| `calls` (MCCalls) | Are nested executions atomic, and once? `PerformedOnce`, `CallsAreAtomic` | three stored instructions (symmetric) in chains and cycles, three nested calls | 127 k |
| `multisig_sender` (MCSender) | Does a multisig spend and decide only as its owners had executed? `SpentAsDecided`, `StreamsByDecision` | two owners, one of whom may leave, three transactions (symmetric) out of nine calls and the multisig's own instructions, one stream, clock to 3 | 598 k |
| `stale_pause` (MCStale) | finding 1: `PausedResumes` violated | one stream, updates allowed | |
| `stranded_fees` (MCFees) | finding 2: `FeesWithdrawable` violated | one stream | |
| `other_mint` (MCOtherMint) | finding 3: `WithdrawalLeavesOwed` violated | two streams, two mints | |
| `commission_overflow` (MCCommission) | finding 4: `EndedStreamPays` violated | one stream of amount 8, 100% as 2 | |

What the properties say:

- `ReserveExact`: `withdraw_data` is the sum of what the live streams are owed
  (amount less paid less written off), after every step of every handler.
- `SettlementFits`: paid plus written off never exceeds the limit of the next
  claim: no order of claims, pauses and resumptions makes a `checked_sub` fail.
- `FundedPays`: if the sender kept the vault's rent on top of the reserve, no
  check of a claim or a cancellation ever stands in the way. A cancellation adds the
  stream's whole amount to what the other streams on the vault are owed before it
  subtracts, so that sum must be a u64; no other exception is needed. `shared` keeps away
  from that bound; `live` goes there. A part of a stream of 5 is written off by a
  resumption, then a second stream of 5 is opened, on which a part may be written off too; the vault
  covers what is still owed while the sum takes values up to the largest u64, 9, and above.
- `FundedStaysFunded`: no step takes from a covering vault what is owed to others.
- `NonCancellableRunsItsTerm`: a stream created with `can_cancel = false` is not
  closed before its end by any detour.
- `TermsFixedOnceUsed`: once something was paid or written off, the terms stay,
  although updates may move the start time that guards updates.
- `LamportsConserved`: the handlers' transfers neither create nor lose lamports.
- `PausedResumes`: until the end, no check refuses to resume a paused stream, unless it was
  updated while paused.
- `PromiseKept`: refinement, see below.
- `FundedStreamCloses`: liveness, see below.
- `ReservesAddUp`, `ReserveOfMintExact`: the reserves of a sender in all mints together are
  what all the sender's streams are owed, even if cancellations name other mints; each
  of them is what the streams of its mint are owed, if they do not.
- `TokensConserved`: no handler turns tokens of one mint into another's.
- `BackedPays`, `BackedStaysBacked`: as for SOL, but for tokens: no rent is mixed
  with the money, and nothing the fee owner or the SOL vault does stands in the way. The
  exception for cancellations is the same, for the streams of one mint.
- `ThresholdReachable`: the owners are distinct, and the threshold is between 1 and
  their number, in whatever order owners and threshold are changed.
- `GovernedByOwners`: owners and threshold change only by the first execution of a transaction of
  that multisig that as many of the owners in force approved as the threshold in force asks. Who
  approved is what `approved` recorded at the time, not what the indices of `signers` mean
  now, so an approval that came to count for an owner who took another's place is noticed.
- `GovernanceKept`, `CallsAreAtomic`: refinements, see below. `PerformedOnce`: a stored
  instruction takes effect at most once, although accounts are marked late.
- `ProposalDecided`: liveness, see below.
- `SpentAsDecided`: what has left the wallet, vault and fee vault of a multisig's signer, with what its
  streams are still owed, never exceeds the amounts of the stored calls that were executed, each
  counted once: streams, updates, transfers out of the vault and out of the wallet. An update counts with its whole new
  amount, since what it replaces shows only when it is executed; deposits, withdrawals and
  the multisig's own fee account move its lamports without spending them.
- `StreamsByDecision`: a stream of a multisig's signer is opened, changed in its terms, paused, resumed or
  closed before its end only in the first execution of a stored call that names it, along with
  a transaction of that multisig that enough owners in force approved themselves; a stream of nothing is
  closed by the first claim. A stale call is one of these: the stream it names may have
  been updated, claimed or paused since.

**The abstract promise.** `StreamPromise` knows no limits, reserves or
deductions. Every second releases a part of the amount; while the stream runs it is
earned by the receiver for good, while it is suspended it is missed for good; a
claim pays all that is earned and unpaid; the promise ends when the whole amount is
released, or when the sender cancels after paying what is earned. The mapping
computes `earned` from the handlers' `withdraw_limit`, `paused_amt` and schedule.
That each step refines it says that the rounding differences add up over any number
of pauses, and that nobody gains by the order of calls. An update restarts the
promise (`Revise`); one of a stream that is paused at the time can not be mapped
(finding 1), so the runs take `CarefulSpec`, whose senders do not do that. For tokens
the funder is the pair of sender and mint: a claim in one mint leaves the funds in
others alone.

**The abstract council.** `Council` has members, a quorum and motions, and no
accounts, indices or sequence numbers. Members approve open motions; a motion is enacted
once, with as many approvals as the quorum; a new membership voids what is open. The
mapping reads a transaction as enacted when `did_execute` is set, as void when its
sequence number is not the multisig's, and as open otherwise, approved by the owners at the
indices flagged in `signers`. That each step refines it says that the sequence
number is moved whenever an index could change its meaning, and that the counter of
flags is the number of members in force who approved.

**Call by call.** `MultisigCalls` refines `Multisig` with the accounts as they were
before the transaction in progress, if there is one. A call that is entered while the same
account executes further out would be stored twice, each time from a copy loaded
before; it could only end by the limit of nested calls, since the stored instruction
is the same each time, and the failure undoes it all.

**Bounds.** For streams, words are small: `MaxU64` is 15, 100% is 2, an account's rent is 2 (9 and 1 in `live`). Times
and amounts 2 and 3 over durations 1 to 4 make `allowed_amt` round (3 over 2 seconds,
2 over 3), and with `now` before the start make its subtraction wrap and its
quotient meet the cut to u64. Two streams are what it takes to
see one take from the other; a third meets no new pair. A clock of up to five seconds allows two
pauses and resumptions around claims and the case past the end. The wallet holds
8: two deposits of 3 and the vault's rent, which cover two streams that are owed 6 together, or one
deposit, which covers one; so both covered and uncovered vaults are reached. The lamports in existence never exceed `MaxU64`, as in
the program; the reserve of unfunded streams is not bounded by them. Two mints and two streams are
what it takes to confuse them. For the multisig, three owners and lists of one to three of
them in different orders let approvals, if they were kept, count for another or a former
owner; two stored instructions are a decision and one that changes what it depends on; three
make chains and cycles of executions up to the limit of nested calls, which the runtime sets at four and
the runs at three or two. `MaxSeqno` is 3, never reached with as few transactions. In `multisig_sender` the
owners store one call of each kind a sender has, each with the arguments of one client; three transactions are
a stream, what changes it and a decision about the owners or the other two, and the wallets (the receiver and the fee
owner) do the rest.

**Fairness.** `FairSpec` assumes that the clock goes on and that a receiver who can
claim does in the end: nothing in the program runs on its own, claims are the
receiver's transactions, and it is in the receiver's interest to send them. No action of
the sender is fair: the sender may leave a stream paused for ever. Deadlock is not
checked because the clock stops at `MaxTime`; the end of every stream lies before
that bound. `FairMultisigSpec` assumes that an owner who can approve a stored
instruction does in the end and that an executable one is executed, which anyone may do;
it is about proposals the owners agree on, and shows that the program does not hold
them up. Proposing and founding are not fair. There too the model stops when every
account is used.

## 4. Findings

1. **A pause in the second of the start outlives an update** (`stale_pause`).
   `pause_stream` accepts a stream at `now == start_time`, `update_native_stream`
   refuses one only when `now > start_time` and leaves the pause in place. The new
   schedule then starts after the recorded `paused_at`, and resuming fails whenever the
   wrapped `allowed_amt(paused_at)` exceeds the released amount, as it does for ordinary
   amounts and times: the stream stays paused. Its receiver gets nothing; the claim past the end returns it all to the sender.
   `SettlementFits` and `FundedPays` hold all the same.
2. **Commission after `withdraw_fees_sol` is stranded** (`stranded_fees`). The handler
   moves every lamport, the vault is dropped, later commissions reach an
   address the program no longer owns and can not recreate. A commission below the
   rent minimum makes the whole claim fail, which is why `Funded` asks for a
   fee vault that exists.

3. **A cancellation in the name of another mint** (`other_mint`). `CancelTokenStream` lacks
   the constraint `data_account.token_mint == mint` the other token instructions have. The
   sender's reserve in the named mint shrinks by what the cancelled stream was
   owed, its reserve in the stream's own mint does not, and what is payable is paid in the
   named mint. The sender can then withdraw what live streams of that mint are owed.
   `ReservesAddUp` and `TokensConserved` hold all the same.
4. **The commission is a product of u64s** (`commission_overflow`). A claim always asks for all
   that was released, so once `fee_percentage * allowed_amt` does not fit, no later claim
   does: the receiver is not paid at all, though the vault has it. Amounts that
   large occur in tokens of many decimals. `Backed` and `Funded` exclude them.

## 5. Proofs

The theorems hold for every word size, set of users, mints, streams and transaction
accounts, and all arguments allowed by the `ASSUME`s of the modules. For streams these say
that arguments are u64s, that 100% is not 0, and that there are finitely many
addresses: users, streams and mints are finite sets, as sums over them are stated. Two
assumptions are about the money in the initial state: all lamports together, and all tokens of one
mint together, are a u64 (`SupplyAssumption`, `TokenSupplyAssumption`). The supply of SOL is
below 2^60 lamports, and the token program counts the supply of a mint in a u64.

### Streams

| Theorem | States | of |
| --- | --- | --- |
| `TypeCorrect` | `Spec => []TypeOK`: every field stays in its width | `NativeStream`, `TokenStream` |
| `SettlementSafe` | `Spec => []SettlementFits` | `NativeStream`, `TokenStream` |
| `ReserveSafe` | `Spec => []ReserveExact` | `NativeStream` |
| `AddUpSafe` | `Spec => []ReservesAddUp` | `TokenStream` |
| `MintExactSafe` | `OwnMintSpec => []ReserveOfMintExact` | `TokenStream` |
| `LamportsSafe`, `TokensSafe` | `Spec => []LamportsConserved`, `Spec => []TokensConserved` | `NativeStream`, `TokenStream` |
| `FundedSafe`, `BackedSafe` | `Spec => FundedStaysFunded`, `Spec => BackedStaysBacked` | `NativeStream`, `TokenStream` |
| `NonCancellableSafe` | `Spec => NonCancellableRunsItsTerm` | `NativeStream` |
| `TermsFixed` | `Spec => TermsFixedOnceUsed` | `NativeStream` |
| `PaysSafe` | `Spec => []FundedPays`, `OwnMintSpec => []BackedPays` | `NativeStream`, `TokenStream` |
| `ResumesSafe` | `CarefulSpec => []PausedResumes` | `NativeStreamPromise` |
| `LastClaimCloses` | a claim after the end closes the stream | `NativeStream` |
| `Refines` | `CarefulSpec => PromiseKept`: the refinement of `StreamPromise` | `NativeStreamPromise`, `TokenStreamPromise` |

**The schedule.** The argument rests on three facts proved from integer division:
inside the term `AllowedAmt` lies between 0 and the amount and is not
cut (`AllowedAmtInTerm`), is 0 at the start and below the amount before the end
(`AllowedAmtEnds`), and never falls (`AllowedAmtMonotone`).

**What a claim meets.** `SettlementFits` alone is not inductive: a paused stream's limit says
nothing about what is released when it is resumed. `StreamsOK` adds that a stream is
untouched up to its start; that the limit of a paused stream is the amount released at
`paused_at`, a time inside the term and not after now; and that paid plus written
off is at most that limit. A resumption writes off the difference of two released
amounts, so the sum stays at most what is released now; monotony carries it through
`Tick`. The exception is the stream of finding 1, paused at its start and then
updated: its recorded limit is 0 and nothing was paid, and the invariant allows it as long
as it is untouched; resuming it, when that succeeds at all, keeps the bound.
There is one lemma for each way a handler changes a stream (`StartKeeps`, `ReviseKeeps`,
`ClaimKeeps`, `ToggleKeeps`, `EndKeeps`), shared by SOL and tokens.
`NonCancellableSafe` adds that the limit reaches the amount only at the end, for
an amount above 0; `FundedSafe` and `BackedSafe` that the payment of a claim or a cancellation is at
most what it takes off the reserve.

**What the reserve counts.** The same lemmas show of every handler that the
reserve moves by exactly what the stream it touches is owed after the step less what it was owed
before (`ReserveFollows`). None of it could be shown of a reserve alone: that a claim past
the end of a paused stream takes the whole rest rests on `StreamsOK`, which makes
`amount - transfered` not wrap. The sum over the streams follows it (`OwedStep`). Sums are
cardinalities: `Total(f)` counts the pairs of an address and one of its units, so that the library's
theorems on cardinality apply where one on folds would need induction over data. A change at one
address moves the sum by the difference there (`TotalStep`), one at two addresses by
both (`TotalExcept`, one at a time); conservation of lamports follows, the fee vault and the
receiver being two of them.

**Tokens.** Where a cancellation names another mint, the reserves follow the streams in
two mints at once. The reserve of a mint is then no longer what its streams are owed, and `ReservesAddUp` is proved from the sum over all the mints of a
sender: each step changes one stream and one reserve of the same sender (`AddUpStep`). For
`OwnMintSpec` the reserve is that of the stream's own mint (`ExactStep`). Every step keeps what
users, vaults and fee owners hold of each mint together (`HeldKept`), a vault that is opened
by a step included.

**Payments that can be made.** A handler makes a dozen checks, and `PaysSafe` shows that each
passes. Those on the stream's own fields follow from `StreamsOK` (`ClaimGoes`,
`EndGoes`). Those on the reserve need to know that it holds what this stream is owed: that is
`ReserveExact`, split into this stream and the others (`OwedCounted`). The payment is at
most what the stream is owed, hence at most the reserve, hence leaves a funded vault its
rent; its commission is at most the payment (`ComissionBound`). Receiver and fee vault have room
for it because all lamports together, which stay the same (`LamportsConserved`), are a u64. The fee vault
keeps its rent because one that was not dropped has it (`FeeVaultsKept`, an invariant of its
own). Tokens go the same way without the rent. `ResumesSafe` takes the knowledge of `paused_at` from
`Suspended` (below): the released amount has not fallen since, and what was missed is at
most what the stream is owed (`ResumeGoes`). `PaysSafe` and `LastClaimCloses` together are the
argument for `FundedStreamCloses`, but for fairness: past the end the claim of a funded stream is never
refused, and closes it.

**The refinement.** The promise of a stream at time `t` is `Promised(st, t, k)`, a function of its
record. `ReleasedIs` shows that the handlers' wrapping and truncated arithmetic is exactly the
abstract linear schedule. Then there is one lemma per handler, on records and for both kinds of streams
(`TickPromise`, `StartPromise`, `RevisePromise`, `TogglePromise`, `ClaimPromise`,
`CancelPromise`), and one per action, which adds the funds (`TickPasses`, `OpenOpens`, and so on).
What a pause in progress has withheld so far must be known exactly. `Suspended` is `StreamsOK`
without its exception: the limit of every paused stream is what had been released at `paused_at`. An update
of a paused stream breaks it (finding 1), which is why the theorem is about `CarefulSpec`.
For tokens it also assumes cancellations that name the stream's mint, since another mint's vault
pays otherwise (finding 3).

### The multisig

`Multisig_proofs` proves, for every set of owners, multisigs, transactions and stored
instructions, and every limit of nested calls:

| Theorem | States |
| --- | --- |
| `MultisigTypeCorrect` | `MultisigSpec => []MultisigTypeOK` |
| `ThresholdSafe` | `MultisigSpec => []ThresholdReachable` |
| `OnceSafe` | `MultisigSpec => []PerformedOnce` |
| `GovernedSafe` | `MultisigSpec => GovernedByOwners` |
| `GovernanceSafe` | `MultisigSpec => GovernanceKept`: the refinement of `Council` |

The inductive invariant adds four facts to the invariants checked. Every transaction
belongs to a multisig that exists (`Belong`). The sequence number of a multisig is at most the
number of executed transactions, as only an execution moves it and each burns one; with
`FewTransactions` it never wraps (`FewChanges`). And no transaction is ahead of its multisig, so
that one which is behind never becomes current again, and one that is level has a flag
for each owner in force (`FlagsOfOwners`). Lastly, the owner at the index of a flag of such a transaction
approved it (`ApprovalsOfOwners`): had the owners changed places since, the sequence number would have moved.
The owners being distinct, flags and owners flagged are equal in
number (`ApproversCounted`): this turns the counter the code compares with the
threshold into the statement of `GovernedByOwners` about owners who approved (`ExecutedCarried`). For `GovernanceSafe` there
is one lemma per action (`CreateMultisigFounds`, `CreateTransactionProposes`,
`ApproveApproves`, `ExecuteEnacts`); the last rests on `Organised`, the three things an
execution can do to the multisigs: nothing, a new threshold, or new owners and
the next sequence number.

`MultisigCalls_proofs` proves of executions call by call:

| Theorem | States |
| --- | --- |
| `AtomicSafe` | `CallsSpec => CallsAreAtomic`: the refinement of `Multisig` |
| `OnceSafe` | `CallsSpec => []PerformedOnce`, also between the calls of an execution |

The invariant `CallsInv` tells the way in from the way out. On the way in (`Descending`) nothing
has changed, and a transaction that is entered again is followed by the same calls as before, as the
instruction stored decides what is called (`Recurring`). So when an instruction other than an execution is
invoked, no transaction can have been entered twice (`NoRecurrence`): the innermost account would
store an execution too. From then on (`Unwinding`) there is a chain of distinct
transactions such that the calls in progress are its beginning, its rest is stored, and the
multisigs are what its last instruction made of them. The return of the outermost call is
`ExecuteTransaction` of that chain (`OuterReturn`), any other step but those of `Multisig`
itself is a stutter, a failure at any point included (`AbortKeeps`).

### Both programs together

`MultisigSender_proofs` proves, for every set of multisigs, signers, streams and stored calls:

| Theorem | States |
| --- | --- |
| `RunsAsEither` | `SenderSpec => Spec /\ MultisigSpec` |
| `SpentSafe` | `SenderSpec => []SpentAsDecided` |
| `DecidedSafe` | `SenderSpec => StreamsByDecision` |

Each step of the two is a step of each program or leaves it alone (`StepOfBoth`), so that both
inductive invariants hold together, and with `RunsAsEither` all the theorems above.
`SpentAsDecided` counts what streams are owed as spent, and that makes it inductive: a claim pays long after the stream was decided
on, but takes as much off the reserve as out of the vault or more (`PaymentCosts`). Opening a stream adds
its amount to the reserve and to what was authorised (`OpenCosts`), an update at most its
new amount (`UpdateCosts`), transfers take theirs (`TakeCosts`, `DirectCosts`), pauses only lower the reserve,
and deposits, withdrawals and fee accounts move lamports between addresses of one user
(`PerformCosts` puts these together: a call costs its signer what it names, and others nothing). An
execution authorises exactly what its last instruction names, which had not been counted before since it had not been executed
(`ExecutionAuthorises`, from `PerformedOnce`); storing and approving authorise nothing. For
`DecidedSafe` a claim changes no terms and closes no stream early that has something to give (`ClaimAltersNothing`), a call alters
only the stream it names, whose sender signed (`PerformAlters`), and each multisig that signs
has a transaction in the chain that enough of its owners in force approved (`SignersDecided`).

### Checked by TLC only

`FundedStreamCloses` and `ProposalDecided`: liveness under fairness is out of the reach of
the prover. Every invariant and every action property of the runs that pass is stated by a
theorem. That the operators `WithdrawPasses` and `CancelPasses` are the states in which the
actions can be taken is not stated as a theorem, since the prover does not handle
`ENABLED`; they are the guards of these actions, conjunct by conjunct, and the other conjuncts
determine the next state.

## 6. Plan

Done: native streams, fee accounts, token streams, the multisig in one step and call by
call, both programs together, the abstract specifications of streams and of the multisig,
and the proofs above.

Not modelled, and not planned: entry points (dispatch only), derivation of addresses,
serialization by Anchor, events and error texts, the clients in `src/tests` and
`src/migrations` (read for what the instructions are meant to do).
