# DistributionX: TLA+ models and proofs

DistributionX distributes money to the holders of a private allowlist on the
Logos execution zone (LEZ). A distributor commits to a Merkle tree of rows
*(address, bucket, salt)*, pays money into a vault, and every holder claims the
amount of his bucket once, by a zero-knowledge proof that does not name him.

This directory holds TLA+ models of the parts of that system that decide what
happens to the money and to the records about it, TLC configurations that
model-check them, and TLAPS proofs about them. Paths below are relative to the
repository; *guest* is `methods/guest/src/bin/distributionx.rs`, *commands* is
`crates/distributionx-cli/src/commands.rs`, *adapter* is
`scripts/local-submit.sh`.

    tlc -config MCProgram.cfg MCProgram          # and so on for each .cfg
    tlapm DistributionXProgram_proofs.tla

## 1. Inventory

### Parts, their state and their operations

| Part | State it keeps | Operations | Modelled in |
| --- | --- | --- | --- |
| On-chain program (guest; the same code with tests in `crates/distributionx-program`) | airdrop record, vault and nullifier record per airdrop; recipients' accounts | `init_airdrop`, `fund`, `claim`, `claim_private`, `claim_ppe`, `close` | `DistributionXProgram` |
| Account constraints and runtime (`vendor/spel-framework`, `vendor/nssa_core`) | account owners and balances, block timestamp | `init`/`signer`/`pda` checks, output filter, ownership, balance and validity-window rules | guards of `DistributionXProgram` |
| Claim circuit (`crates/distributionx-circuit`) | none | `verify_claim_constraints` | predicate of `DistributionXProgram`, computed in `Eligibility` |
| CLI (`commands`) | `state.json`, its named copies, `airdrops.json`, `bundle.json`, `proof.json`, `claim.tx` | `init`, `fund`, `claim`, `close`; `prove`, `prepare-claim-tx`, `check-eligibility`, `pad-csv`; wallet, token and sample tools | `LocalSubmission` (the first four, against the ledger), `CliState` (the files), `Eligibility` (what is decided from list, bundle and key) |
| Submit adapter (`adapter`) | receipts, `shielded_token_balances.json`, the wallet | prefund, submit, wait for inclusion, settle custom tokens | `LocalSubmission` |
| Ledger and native/token transfer programs | transactions waiting and included, nonces | include, transfer | `LocalSubmission`, environment actions of `DistributionXProgram` |
| Eligibility tree, CSV, bundle (`crates/distributionx-tree`) | none | `parse_csv`, `from_leaves`, `path`, `build_bundle` | `Eligibility` |
| Client library (`crates/distributionx-client`) | none | `build_distribution`, `prepare_claim`; destination keys | `Eligibility` (the first two) |
| Wallet and relayer references | none | sign, decrypt; check a request | `Eligibility` (sign, decrypt) |
| Generated client and FFI (`src/generated`) | process environment, `WALLET_INIT_LOCK`, a wallet per call | five calls, through C or Rust | `WalletFfi` |
| Logos client module (`distributionx_client_module`) | job table | start a job, complete it on a detached thread, look it up | `JobStore` |
| Basecamp UI (`basecamp-app/src/qml/Main.qml`) | registry list, name and selection, claim eligibility, three running jobs | buttons, polling timers | `BasecampUi` |
| Testnet evidence (`scripts/testnet-evidence.sh`) | journal, receipts | phases with resume | no |
| Build, packaging, benches | none | tooling | no |

### How they interact

The CLI reads `state.json` once, checks the request against it, and starts the
adapter with a JSON payload. The adapter builds a transaction (for `fund` after
a native transfer that raises the vault to the amount), submits it, polls
`getTransaction` until it is included or 180 s have passed, for a claim with a
`token_source_account` then sends the custom tokens, and reports back. Only
then does the CLI write the whole of `state.json`, from what it read at the
start. The ledger decides alone when, in which order and whether a transaction
is included; inclusion executes one instruction of the program. The adapter
submits through the generated client, which opens a wallet from a directory named
in the process environment.

`init` turns the distributor's list into a tree and an encrypted bundle. A claimant's
`check-eligibility` and `prove` find the one row of the bundle that the claim key
decrypts, check the claim as the circuit and the program would, and leave
`proof.json` and `claim.tx` for `claim`. Basecamp runs all of these as child
processes: the UI asks the client module to start a job, polls it by its id, and
applies the text it printed.

### What is hard, and what makes each part correct

* **Program.** Money arrives by plain transfers anybody can make at any time,
  before `init` included; `fund` only counts it. Three claim instructions share a
  nullifier but pay into different accounts. `now_unix` is the caller's word, and
  only the validity window ties a claim to the block's time. `close` may come
  early, twice, and after late deposits. Correct means: solvent, each row paid at
  most once, in time and as its holder signed, no money lost or made, a usable way back
  to the distributor never closed, nothing of one airdrop worth anything in another.
* **CLI and adapter.** Commands may overlap, be killed between inclusion and
  save, give up on a transaction that is included afterwards, and be repeated.
  Correct means: the files never claim what did not happen, nothing is done twice
  because of a retry, no record is lost by commands that do not overlap, and every
  command ends.
* **List, tree and circuit.** A list becomes buckets, leaves, paths and encrypted
  rows, and a claim is checked at four places. Correct means: eligible is exactly
  who is on the list, for the amount on the list; nothing else proves.
* **CLI files.** Several files are written one after the other, truncated and then filled,
  by commands on several airdrops or on one, without a lock. Correct means: whatever was killed,
  what the next command loads is of the right airdrop and holds all that was reported, but for
  the commands that overlapped another on the same airdrop, whose records do get lost.
* **FFI.** One environment variable and several threads. Correct means: a call opens
  and signs with the wallet it names, and a panic of one call never hangs another.
* **Job store and UI.** Jobs finish while the user selects and imports, the bridge
  loses answers, and a distribution goes by a name that an init may give to another. Correct
  means: no job is forgotten, no result changes or is taken for another's, completion is never
  shown for less than the four steps and a claim on the ledger, and the UI never stays busy.

`PROJECT.json` lists every hazard at its line with the properties that watch it.

## 2. The modules

| Module | What it is |
| --- | --- |
| `AllowlistAirdrop` | abstract specification: what the program promises, without accounts, hashes, proofs, fees |
| `DistributionXProgram` | the six instructions, native transfers and the clock; the refinement mapping to `AllowlistAirdrop` |
| `LocalSubmission` | EXTENDS `DistributionXProgram`: processes running CLI commands and the adapter, the state file, the ledger's inclusion of transactions |
| `CliState` | the files of the state directory under overlapping, killed commands |
| `Eligibility` | list, padding, tree, bundle, circuit and the checks of a claim |
| `WalletFfi` | threads in the generated C interface and Rust client |
| `JobStore` | the client module's job table |
| `BasecampUi` | EXTENDS `JobStore`: the UI's slots, polls and screens, the CLI commands its jobs run |
| `MC*` | constants for TLC |
| `Sums` | TLAPS: sums of functions over finite sets, by induction |
| `DistributionXProgram_proofs` | TLAPS: type correctness, safety, custody and conservation of the money, what claims and closes accept, action properties, and that the program implements `AllowlistAirdrop` |
| `LocalSubmission_proofs` | TLAPS: types of the machine; it drives the program; `state.json` is never ahead of the ledger; saves never overflow; commands end |
| `LocalBooks_proofs` | TLAPS: custom tokens are settled at most once; commands that do not overlap keep exact books |
| `WalletFfi_proofs` | TLAPS: wallets and signers are those of the call's directory; the lock is given back and calls return |
| `BasecampUi_proofs` | TLAPS: no job is forgotten, results stay, completion is earned, the UI becomes idle |
| `CliState_proofs` | TLAPS: nothing acknowledged is lost from the files except by commands that overlapped, a state counts its own claims; what is recorded was sent, what was saved is found |
| `Eligibility_proofs` | TLAPS: paths and folds of the tree, tables, bundles; eligibility is the list, claims follow it, padding fills buckets |

Definitions with a "Faulty variant" comment, such as `fund_ComparesIncrement`, are
never used by a specification. Each is a definition with a plausible bug; put in its
place, it makes TLC find the property it belongs to violated, which shows that the
property can fail and that the bounds of the run reach the failure.

### DistributionXProgram and the code

`airdrop[id]`, `vault[id]` and `nullifier_record[id][n]` are the program-derived
accounts of an id; `wallet` holds native accounts; `clock` is the timestamp of
the next block in milliseconds. Each instruction is one operator named as in the
guest, with the guest's checks as conjuncts in its order, and `BucketAmount`, `VaultCovers`,
`Debit`, `SpendNullifier` for what the three claims share. What the code says
outside the function is there as well:

* `#[account(init)]` wants an account that is exactly the default account. So a
  vault that received money before `init_airdrop`, a nullifier record or a
  recipient of `claim_ppe` that received money before the claim blocks the
  instruction for good. The environment's `transfer`, `touch_record` and
  `touch_recipient` do this. The receiving account may or must become owned by
  the transfer program (`validate_execution`, rule 7): `OwnersAfterCredit`.
* The default account has the nonce 0 too, and signing raises the nonce of the signer
  (`public_account_nonce_increment`). `NewAccount` is an account with no owner, no money and
  no signature yet (`HasSigned`); an account no program owns signs nothing but an init,
  as its distributor. Vaults and nullifier records are program-derived and never sign.
* The generated `main` drops default-owned accounts that are not new from the program's
  output, which unbalances the transaction: `RecoveryAccepts` is why `close` fails
  with a recovery account nobody initialised but that holds money or has signed. The runtime also
  refuses duplicate accounts, so `close` fails when the recovery account is the distributor.
* `with_claim_expiry` is both the code's overflow check and the runtime's check of
  the resulting validity window against the block timestamp.

Abstractions: a transaction that fails a check changes nothing and is a stutter, so
error codes are left out. Hashes are injective, a Merkle root is the set of rows under it,
a signature is membership in `Signatures`, and a receipt exists exactly for a
journal that satisfies `verify_claim_constraints`. Native money may be sent to any vault, any
nullifier record, spent or not, and any other wallet, those the program owns included. A payout ends in an account that the program owns; no instruction
moves it on, and the model ends there too. The clock is bounded by `MaxClock`.

### LocalSubmission and the code

A command is a record *(step, job, loaded, attempt, deposit)*. `loaded` is
the state file as read when the command started, `attempt` identifies its
transactions as a hash would. `failed` is a history variable: the attempts of
commands that ended unsaved after sending the transaction they were for. The steps are those of the adapter's `run`:

| Action | Code |
| --- | --- |
| `init`, `fund_command`, `claim_command`, `close_command` | the function of that name in `commands`, up to starting the adapter: load, check |
| `prefund_read`, `prefund_transfer`, `prefund_wait` | `prefund_vault`: read the balance, send what is missing, wait |
| `submit`, `confirm` | `run`: build and send with what the accounts are *now*; `wait_for_transaction` |
| `settle_claim_tokens`, `settle_confirm` | the same names; only with a token source |
| `save_state` | the rest of the command, up to `save_state` and `upsert_registry` |
| `time_out` | `fetch_transaction_until`: the transaction waited for is not there, and was rejected or the 180 s are over: the command ends unsaved |
| `abandon` | any error or a kill: the command ends unsaved. Not part of `Advance`: nothing promises that it comes |
| `IncludeSigned`, `IncludeClaim`, `IncludeSettlement` | the ledger (external): nonce check or proof check, then the instruction |

Points that matter for what is found: every `init` draws fresh salts, so it always
creates a new airdrop id, and under the same name it replaces the record of the
previous one. A `claim_ppe` transaction carries a proof over the public accounts
as they were (`public_pre_states`); any other change of the airdrop, vault or
record invalidates it. `prefund_vault` compares the vault with the *increment*
while the program compares it with the new total, so a second funding by the CLI succeeds only if
the vault holds more for another reason; its transaction otherwise stays
unincluded and the command ends by its deadline.

Abstractions: one airdrop name, so `state.json`, the named copy and the registry
entry are one variable written atomically (`CliState` takes them apart); the distributor's account signs
everything; the two public claim modes, receipts and the shielded balance file
are left out; a rejected transaction and a claim whose proof cannot be made are transactions
that are never included. `LocalAssumption` has two facts of how allowlists are
built: a row's bucket is in the table, and rows of one allowlist have distinct
salts (`build_bundle` in `crates/distributionx-tree/src/bundle.rs:46` refuses
duplicates).

`crates/distributionx-program/src/program.rs` is the guest's text with tests and three
other idioms, so both are mapped to the same definitions.

### CliState and the code

`disk` maps the shared files and the named copies to what they hold, `Absent` or
`Torn`. A command is a process with a list of writes it still has to do (`todo`) and
whether the file at its head is open. `write_json` is `fs::write`: `truncate` leaves the file
`Torn`, `fill` gives it its content, or leaves it torn when another writer filled it
in between. `save_state` puts `state.json` and the named copy on the list,
`upsert_registry` reads the registry and then puts it there. `load_state_for` is as in the
code: `state.json` if it parses and is the airdrop asked for, else the copy that the
registry names. `claim` reads `claim.tx` and perhaps `proof.json` when it starts, and the
adapter reads `claim.tx` again when it sends (`Submittable`). What a state says is abstracted
to the set of operations it counts. There is no lock, so two commands on one airdrop overlap as they
like, and the one that saves last drops the other's operation. `contested` is a history variable: the
operations whose commands overlapped another that changes the same airdrop (`Rivals`); `acked` holds the others that were reported OK.
`close` goes the way of `fund`.

### Eligibility and the code

The operators are the functions of the same names; hashes are tuples, an encrypted row
is readable with one X25519 key in one context, a claim signature names its key and message.
Several addresses may convert to one X25519 key (`x25519` is any function), as an
address and its negative do. `prepare_checked_claim` is what `prove`, `prepare-claim-tx` and
`check-eligibility` have in common, with the order of its error codes. `lists` and `paid` are history.
The claim itself is recorded in one step, with whatever bundle the claimant has.

### WalletFfi and the code

`init_wallet` is `lock`, `set_var`, one `fetch_path` for each of the three files and
`new_update_chain`; the guard is released at its end, by an error or by a panic (`release`),
and a panic poisons it. `ffi_call` starts a call of the C interface, `client_call` one of the Rust
client, whose wallet the caller opened. A send may fail although the sequencer received it.
The accounts of each instruction are the constants-level records `distributionx_*_impl`.

### BasecampUi, JobStore and the code

`sample`, `action` and `duplicate` are the UI's three slots: the job id each waits for (`samplePendingJobId`,
`actionJobId`, `duplicateClaimJobId`), what it is for, and for the pipeline the step. The UI is one
thread that blocks in its calls, so every handler is one action; the workers run in
between. A call to the module may fail in the bridge, `BridgeFailures` times: a lost start leaves
a job that runs unwatched, a lost poll ends the wait although the job runs on. Both put the job in `abandoned`.

The CLI is reduced to what the UI can tell apart. `existing` and `claimed` are the ledger: which distributions there
are, which claims were paid. `registry` says which distribution each name stands for, `claim_tx` what the last `prove` left. The UI
hands the CLI a *name*: `claimAirdropNames` is `claimAirdropName()`, the name listed for the selected distribution, and `ActionTarget` is
what `fundDistribution` passes. A command is two steps of its job's thread. `LoadFiles` resolves the name and reads the files
some time after the start, `RunCli` ends the command and writes: an init draws a new distribution and puts it under the default name, a
fund or claim puts back the state it read. So what a name stands for can change between two steps of a pipeline, and between a
command's reading and its writing. Any command may also fail without a reason. Texts are reduced to what the UI searches
in them: the marker, "already claimed", anything else. `check-eligibility` exits with 0 and no marker when it refuses.

`airdrops` is the registry as last listed, emptied by a call that fails. A change of `selectedAirdropId`, by the user or by the receipt of
an init, resets the eligibility shown (`onSelectedAirdropIdChanged`). The init and fund buttons clear `sampleError` even when no job starts.

Abstractions: bundles are left out, what depends on them may fail or not; the record of a claim may have been lost to another command's
save, so a command need not know of a claim (`CliState` has the reason); a claim reads `claim.tx` once (its second reading is in `CliState`).

## 3. What the runs check

All bounds are constants given in the `.cfg`.

**`program`** (`MCProgram`, 93 056 states). One airdrop; ten kinds of `init`
arguments (five valid: ordinary, two rows with one salt and a row of a bucket
outside the table, recovery = distributor, recovery uninitialised, an expiry that overflows u64;
five invalid). Four units of money against a u64 of 3, so sums reach and pass the
limit; two "milliseconds" a second and a clock to 3, so claims fall
before, at and after the expiry. Two rows suffice for every race over one
budget or one nullifier.

* `TypeOK`: in particular no u64 total leaves its width.
* `Solvent`: an active airdrop's vault covers what is funded and not claimed.
* `ClaimedIsPaidOut`: every unit counted as claimed was credited to a payout account and is still there.
* `MoneyConserved`: vaults, nullifier records and wallets together hold what the wallets held first. With `ClaimedIsPaidOut`
  a payout is credited once: not less, and not more at anybody's expense.
* `EligibleRowIsClaimable`: an eligible row of an open, unexpired airdrop is accepted
  by each of the three instructions, down to the last unit of the budget.
* `RecoveryStaysOpen`: once the recovery account is another one and has an owner, the distributor's close
  passes its checks for ever after: after the expiry, after a close, after a late deposit or funding, with an unusable expiry.
* `SpentForever`: a spent nullifier stays spent, and no instruction touches its record again; a native transfer may only add to it.
* `NoPayoutAfterExpiry`, `ClosedIsFinal`, `VaultOutflow`: what no
  step may do after the expiry, after a close, and to a vault.

**`two_airdrops`** (`MCTwoAirdrops`, 192 318 states). Two airdrops with the same rows,
salts, distributor and recovery; one holder signed for one of them only.
`KeepsPromise`: the program refines `AllowlistAirdrop`. With two airdrops this also says that a
signature, a receipt or a nullifier of one is worth nothing in the other.

**`local`** (`MCLocal`, 978 904 states up to swapping the processes, which are
interchangeable). Two processes, four commands in all, fundings of 1 and 2, a close that is submitted,
and settlement. Two processes give every overlap of two commands, and
since an abandoned command's transaction lives on, up to four commands' transactions are in flight.
`LocalNeverAhead`: totals, nullifiers and a submitted close recorded in `state.json` never
run ahead of the ledger. `SettledAtMostOnce`: custom tokens for a row are sent
at most once, and only after its claim was included. `LocalTypeOK`.

**`local_retry`** (`MCLocalRetry`, 131 312 states). One command at a time, five of them, any of them
interrupted, their transactions included late or never. `LagIsReported`: commands that do
not overlap keep exact books, that is, totals and nullifiers on the ledger are those of
`state.json` plus precisely the included transactions of commands that failed, were
killed or still run. `RecordsSurvive`: commands that do not
overlap lose no record of their airdrop. `NoCommandStuck`: a running command that does not fail always has a next step or a wait that can
run out. With a u64 of 2 and two coins the totals reach their limit, so this includes that the checked additions of a save never
overflow: they are bounded by the ledger's.
`EveryCommandEnds`: a liveness property.
`close` runs without a submit command and only edits the file.

**`settlement_preflight`** (`MCPreflight`, expects a violation) of `SettlementPreflighted`.
`docs/WRITEUP.md:84` says of the custom-token settlement "the adapter
preflights it". The adapter submits the claim and waits for its inclusion before
`settle_claim_tokens` runs for the first time, and nothing looks at the token source
account earlier. TLC shows a claim submitted with an empty source account. What
follows in the code: the claim is paid natively, the settlement fails, the
command reports an error and does not record the nullifier, and a retry is
rejected on the ledger, so the tokens are never sent.

**`cli_overlap`** (`MCCli`, 1 990 715 states up to symmetry of ids, processes and the two names with their files). Four commands on two airdrops, two processes, any of them
killed at any point. Four commands are enough for an init of each airdrop and two more that meet a torn or older copy, or for an init and
three that overlap on its airdrop.
`NoAckedLost`: only the commands of an overlap can lose by it. A state a command finds holds every operation reported OK for that airdrop by
a command no other on the airdrop overlapped.
`RegistryNeverAhead`: until two commands on an airdrop have overlapped, its registry entry counts nothing the state found does not.
`OnlyOwnClaims`: no state counts a claim of another airdrop. `CliTypeOK`.

**`cli_sequential`** (`MCCli`, 274 154 states). One process, five commands, none killed, three airdrops, two of whose names
become one file name, claims with and without a private witness. `SentIsRecorded`: the claim recorded is the one
sent. `NoOrphan`: every airdrop that still has its named copy can be used by name and by id; one whose shared copy another
name overwrote is gone. Both are false with overlaps or kills, which the code has no protection against.

**`eligibility`** (`MCEligibility`, 55 121 states). Every list of up to two typed lines out of five (two keys, the negative of one, two
amounts, an amount of zero) and what `pad-csv` makes of it, two bundles, every key with every
bundle against every airdrop, a tree of four leaves, so that paths have two levels and empty leaves occur.
`CheckIsExact`: a claim check succeeds exactly for recipients on the list that can still be paid, with the list's
amount, and says "already claimed" exactly when it is true. `NoMixtureProves`: addresses, buckets, salts and paths of different rows or bundles
combined never satisfy the circuit. `PaidByTheList`, `FullyFundedPaysAll`: amounts add up and full funding reaches everybody.
`PaddingReachesFloor`: padding keeps the list and reaches the floor. `EligibilityTypeOK`.

**`padding`** (`MCPadding`, expects a violation) of `PaddedIsBuildable`. `docs/WRITEUP.md:46` offers `pad-csv` to "top up small
buckets to a desired baseline". Its decoys are digests, most of which cannot be converted to the key a row is encrypted to, and
`init` then refuses the whole list.

**`wallet_ffi`** (`MCWalletFfi`, 16 629 states). Two threads, one call each, two wallet directories that hold different
keys. Two suffice for one thread between another's `set_var` and lookups, and for a thread that waits on a
lock another poisons. `OwnWallet`, `SignedFromOwnDirectory`; `NoCallStuck`: a call can go on, or waits for the lock while its holder can;
and the liveness property `EveryCallReturns`.

**`basecamp`** (`MCBasecamp`, 377 921 states). One name, one listed distribution and one that `init` may put in its place, at most
two inits and fundings (`MaxActions`), two claim keys of which the second may be imported (`KeyChanges`), five jobs (a whole pipeline and one more), and one start or poll that the bridge loses or
fails; a refresh of the list may always fail. One more job is what it takes for an `init` or a repeated claim to run beside a pipeline,
and two actions are what it takes for one to start while the other runs.
`NoJobForgotten`: every running job is waited for or was lost by the bridge, so no slot is overwritten.
`ResultsAreFinal`: a finished job's result never changes. `CompletionIsEarned`: "completed" follows a check, a proof, a
verification and a claim for the name clicked, in this order, each with its marker, and the claim is on the ledger and was proved, with the key the
prove job read, for the distribution the name stood for when proof and claim read the files.
`NoWaitStuck`: what the UI waits for can come. `UiBecomesIdle`: every wait ends, stated as: each of the three slots is free again and again.
`UiTypeOK`: ids, slots, names and selections fit, and a finished job has its text.

**`basecamp_claimed`** (`MCBasecampClaimed`, expects a violation) of `AlreadyClaimedIsTrue`. The screen says "Already claimed" and the CLI
"This wallet has already claimed this distribution." Polling a finished claim sets the eligibility of whatever is selected by then,
so a distribution selected while the claim ran is shown as claimed until the next check.

`CHECK_DEADLOCK FALSE` everywhere: the clock, the money and the number of commands are bounded,
and an airdrop that is closed and swept has nothing left to do.

### What the models say about known limits

These are facts of the code the properties are stated around, not hidden:

* `RecordsSurvive` is checked for one command at a time because with two it is
  false: `save_state` writes a snapshot taken before the wait, so overlapping
  commands overwrite each other's totals and nullifiers. `LocalNeverAhead` is what remains.
* For the same reason `NoAckedLost` leaves out operations whose commands overlapped another on the same
  airdrop (two fundings both print OK and one is lost), and `RegistryNeverAhead` airdrops where that happened: the command
  that registers last may be ahead of the state the other one saved.
* The four steps of a pipeline are for one name, but need not be for one distribution: an init of the UI uses the default name,
  and `upsert_registry` replaces the entry of that name, so an init that ends in between redirects the steps that follow. A claim
  whose state and `claim.tx` name different airdrops is refused, so completion still means that what was claimed was also proved.
* A command that gave up on a transaction that is included later never catches
  up: the file stays behind the ledger, and a repeated claim ends in a
  rejection.
* A close without `DISTRIBUTIONX_CLOSE_SUBMIT_COMMAND` marks the file closed and leaves the
  airdrop open, so the status clause of `LocalNeverAhead` is conditional.
* `RecoveryStaysOpen` and `EligibleRowIsClaimable` have preconditions
  (recovery account, untouched record and recipient) that the program does not enforce
  or cannot; the states outside them are reachable in the run. A recovery account equal to the distributor, or one that
  nobody owns and that holds money, makes close fail for as long as that lasts.

### Fairness

Three specifications that TLC checks state fairness, all of it weak. The fairness of one actor is an operator of its own
(`RunsOn(p)`, `PollsAction` and so on), which the proofs cite.

* `FairLocalSpec`, for `EveryCommandEnds`: `Advance(p)`, the next step of a live process or the end of its wait. The adapter's
  waits poll with a deadline (`tx_confirm_timeout_secs`, 180 s by default) after which the command
  returns an error (`time_out`). An error or a kill (`abandon`) is possible at every step and assumed at none, so it is the
  steps and the deadlines that end a command. Nothing is assumed of the ledger: a transaction may wait forever.
* `FairUiSpec`, for `UiBecomesIdle`: each worker's command ends (the adapter and the prover have deadlines), and the timers that
  poll keep firing and the pipeline goes on to its next step, since `Timer`s repeat until their slot is empty. The user need do nothing.
* `FairFfiSpec`, for `EveryCallReturns`: each thread that is in a call takes its next step when it can, which holds if threads run
  and the wallet library returns or panics. A thread waiting for the lock has no step, so this assumes nothing of the lock itself;
  it gets the lock in the run because the others' calls are bounded (`MaxCalls`).

## 4. What is proved

TLAPS proves for every value of the constants: any number of airdrops, rows,
wallets, processes and commands, any u64 width, any set of signatures and arguments. The
program's theorems assume `ConstantsAssumption` alone, which fixes the constants' types,
that the zero commitment is no wallet, and that a missing account is no airdrop record;
`ClaimsArePaidOut`, `MoneyIsConserved` and those about `LocalBooks_proofs`' sums add `FiniteAssumption`: ids, salts and account ids are arrays of 32 bytes, so
there are finitely many. Those about `LocalSpec` also assume `LocalAssumption`. `UiAssumption`, `StoreAssumption` and `FfiAssumption` fix types
and that `Nothing` is none of the other values. `CliAssumption` says that names and ids differ, as do the shared files and the
named copies; it leaves open which names share a copy. `EligibilityAssumption` has the types and that the
largest list fits the tree: `parse_csv` stops at 50 000 rows, the tree has 2^20 leaves. Four theorems have a hypothesis that is part of what they say: `OneAtATime` (one process) for
those that are false when commands overlap, and for `EveryCopyIsFound` also that none is killed and that the two stand-ins for a missing and an unreadable file
are not lists of states (`NoTexts`). The liveness theorems have the fairness of their specification and that no actor is stuck (below).

| Theorem | Says |
| --- | --- |
| `TypeCorrect` | `Spec => []TypeOK` |
| `AlwaysSolvent` | `Spec => []Solvent` |
| `SpentStaysSpent`, `PayoutsStopAtExpiry`, `ClosedStaysClosed`, `VaultOutflowJustified` | `Spec => SpentForever`, and so on |
| `ClaimsArePaidOut` | `Spec => []ClaimedIsPaidOut` |
| `MoneyIsConserved` | `Spec => []MoneyConserved` |
| `ProgramKeepsPromise` | `Spec => KeepsPromise`, the refinement |
| `LocalTypeCorrect` | `LocalSpec => []LocalTypeOK` |
| `LocalDrivesProgram` | `LocalSpec => DrivesProgram`, where `DrivesProgram == Spec` |
| `StateFileNeverAhead` | `LocalSpec => []LocalNeverAhead` |
| `TokensSettledOnce` | `LocalSpec => []SettledAtMostOnce` |
| `SavesNeverOverflow` | `LocalSpec => []SavesFit`: a command at its save adds up totals that fit u64 |
| `EligibleRowsAreClaimable` | `Spec => []EligibleRowIsClaimable` |
| `RecoveryNeverCloses` | `Spec => RecoveryStaysOpen`: for every id, `[](Recoverable(id) => []close_checks(id, airdrop[id].distributor))` |
| `LagAlwaysReported`, `RecordsAreKept` | `OneAtATime => (LocalSpec => []LagIsReported)`, `OneAtATime => (LocalSpec => RecordsSurvive)` |
| `CommandsOnlyGoForward` | `LocalSpec => CommandsGoForward` |
| `CommandsEnd` | `FairLocalSpec /\ []NoCommandStuck => EveryCommandEnds` |
| `UiTypeCorrect`, `EveryJobIsWatched` | `UiSpec => []UiTypeOK`, `UiSpec => []NoJobForgotten` |
| `ResultsStay`, `CompletionEarned` | `UiSpec => ResultsAreFinal`, `UiSpec => CompletionIsEarned` |
| `UiEndsItsWork` | `FairUiSpec /\ []NoWaitStuck => UiBecomesIdle` |
| `FfiTypeCorrect`, `WalletsAreOwn`, `SignersAreOwn` | `FfiSpec => []FfiTypeOK`, and so on |
| `CallsOnlyGoForward`, `LockIsHeldInside` | `FfiSpec => CallsGoForward`, `FfiSpec => []HolderIsInside` |
| `CallsPastTheLockReturn`, `LockIsGivenBack` | `FairFfiSpec /\ []NoCallStuck =>` a call past the lock returns; the lock is free again and again |
| `CallsReturnIfTheLockIsFair` | `FairLockSpec /\ []NoCallStuck => EveryCallReturns` |
| `CliTypeCorrect`, `AckedIsKept` | `CliSpec => []CliTypeOK`, `CliSpec => []NoAckedLost` |
| `RegistryIsBehind`, `OwnClaimsOnly` | `CliSpec => []RegistryNeverAhead`, `CliSpec => []OnlyOwnClaims` |
| `EligibilityTyped`, `EligibilityIsTheList` | `EligibilitySpec => []EligibilityTypeOK`, `EligibilitySpec => []CheckIsExact` |
| `OnlyRowsProve`, `ClaimsFollowTheList` | `EligibilitySpec => []NoMixtureProves`, `EligibilitySpec => []PaidByTheList` |
| `FundedListsPay`, `PaddingFills` | `EligibilitySpec => []FullyFundedPaysAll`, `EligibilitySpec => []PaddingReachesFloor` |
| `RecordedIsSent`, `EveryCopyIsFound` | `OneAtATime => (CliSpec => []SentIsRecorded)`, `OneAtATime /\ ~Crashes /\ NoTexts => (CliSpec => []NoOrphan)` |

**The program.** The inductive invariant is `TypeOK /\ Solvent`. `TypeOK` is inductive by itself:
the budget check keeps `total_claimed` below `total_funded`, and `checked_add_u64`
keeps that below `U64Max`. `Solvent` needs it and adds the link between the vault and the two totals: `fund`
establishes it from its comparison with the new total, a claim lowers the
vault and raises `total_claimed` by the same amount, transfers only add, and close
leaves the active state. Each proof has one step per action, on lemmas that
say once what an action does to one component (for example that the three claims
share `Debit` and differ only in the credit). The action properties
follow from the invariant and the same case split. For the refinement, `init_airdrop` maps to
`Open`, `transfer` to `Deposit`, `fund` to `Reserve`, the three claims to `Pay`, `close`
to `Sweep`, `Tick` to `Tick`, and the touches stutter; `Solvent` is what makes
`fund`'s comparison with the vault the abstract one of the pool with the budget, and `SpentForever`'s
argument makes the ticket unspent.

**The money.** `ClaimedIsPaidOut` compares a sum over airdrops with one over nullifier records and one over wallets. `Sums` proves what is needed of
`SumFunction`, whose definition removes an element chosen at each step: that the recursive function exists on the subsets of a
finite set, that the sum does not depend on the order, and what changing one summand does to it (`SumUpdate`). Induction over sets is done on the set
of cardinalities for which a statement holds. The inductive invariant is the balance itself (`Balanced`), an inequality, since donations and swept remainders may sit in the same accounts, with
`OwnerKept`: the program gives no account up. A claim adds one amount to both sides, and no step lowers the side of the payouts. `MoneyIsConserved` is
the equality: every step moves an amount between two of the three sums `InVaults`, `InRecords` and `InWallets`, or within the wallets (`VaultMoves`,
`RecordMoves`, `WalletMoves`, `WalletPays`), and changes no other balance.

**The machine.** Four invariants build on each other; the last holds for one command at a time.

* `LocalInv` adds to the types where a command's row, deposit and attempt come from
  and that a pending transaction names an airdrop and carries what was asked for. With it, every
  inclusion is a step of `Next`, hence `LocalDrivesProgram`, and everything proved of `Spec` holds.
* `BehindInv` is what makes `LocalNeverAhead` inductive. The file alone is not enough, since
  what is saved was read long before. Every running command's snapshot is behind the
  ledger, and once its own transaction is included (or its step is past `wait`) so is the
  snapshot *with its update*. `OwnTransactionIsBehind` shows that the inclusion of a
  command's own transaction establishes this, and `BehindStays` that nothing undoes
  it, because the ledger's totals and nullifiers only grow (`LedgerGrows`). Transactions find their
  command by `attempt`, which is why attempts must be distinct (`AttemptsDistinct`,
  `SentByCommands`). `SavesNeverOverflow` falls out of it: a command comes to its save once its transaction is included, so its
  updated totals are at most the ledger's, which `TypeOK` keeps in u64.
* `SettleInv` reduces "at most one settlement" to "at most one claim": a settlement
  is only sent by a command whose own claim is included (`confirm` looks for the
  command's transaction, not for the nullifier), claims of one nullifier are one
  transaction because the nullifier record is spent by the first, and a command
  sends one settlement. So a second settlement of a nullifier would be the first one.
* `SequentialInv` is for commands that do not overlap. A running command's snapshot is still what the file says (`SnapshotInv`), a command sends one
  transaction of its kind and answers for it while it waits (`MainInv`), and of an id not drawn yet, or only being created, nothing is on the ledger (`NewBooks`).
  Then each inclusion adds one transaction to `Unrecorded` and its amount to the ledger, each save takes the command's own one out of `Unrecorded` and adds its amount to
  the file, and a command that gives up moves its attempt from the running ones to `failed` and changes neither side. `SumUpdate` and its relatives
  carry this to the sums of `LagIsReported`.

**The UI.** `UiInv` joins the job table (ids up to `nextId`, the workers are the running jobs, a job has its text exactly when its
worker is gone), the screens (everything named exists), `Receipts` (an init's receipt names an existing distribution, so selecting it is safe), `Reads` (a command that has ended has read the files, and what it read exists), `SlotJobs` (a slot
names a started job of the kind it is about) and `NoJobForgotten` itself. A slot is filled only while empty and with the id just drawn, and emptied
only by the poll of its own job, which has ended or joins `abandoned`. `CompletionEarned` needs `Progress` as well: a pipeline before step *k* has
*k - 1* finished jobs with markers, increasing ids and its own name behind it, all before the job it waits for. Since finished jobs never change
(`ResultsStay`), these jobs stay a witness. That the claim was proved and is on the ledger is `Evidence`: `claim.tx` and every copy a command has read of it come
from a prove job that printed its marker, and a claim job that did has put its copy on the ledger, for the airdrop of the state it had read. A command reads once (`Reads`), so evidence stays.

**The FFI.** The invariant adds to the types that a thread inside `init_wallet` is the one that holds the lock and that, past `set_var`, the variable is the
directory of the lock holder's call. So no other thread writes the variable while the three lookups run, and each reads the directory of its own call.
The signer follows: the key check looks in the opened storage, which is that of the directory named.

**The files.** `CliInv` speaks of the *states around*: those in a readable state file and those a running command carries. An airdrop id
belongs to one name (`Known`), two running commands on one airdrop are both contested (`Apart`), a named copy holds only names that become its file name (`Located`), and a command writes only
its own state, into its two files (`OwnWrites`). A set of operations is `Safe` when every state around of that airdrop contains it. Each step
adds at most one state, of a new airdrop or containing one that was there (`Grows`), so what is safe stays safe (`SafeStays`), whatever overlaps afterwards; kills and
torn files only remove states. What must be shown is that operations become safe when they are reported or put in the registry. `Written` does, for a command that met no other on its
airdrop: between its submission and the end of its writes only its two files may lag behind it, since nobody else carries a state of the airdrop, and by `Known` and `Located` no other file has one
(`SubmitStep`, `WrittenIsSafe`). A command that starts later reads a state around, and when it meets one that still runs both become contested, which takes their operations out of what is claimed (`Begun`, `NotedMeans`).
The argument needs both saves before the registry; their order does not matter.
For one command at a time two more invariants are proved on top. `SentInv`: from its start to its submission nobody writes `claim.tx`, so the adapter reads what `claim` checked, and
of the three ways `Submittable` allows each sends the claim recorded. `FilesInv`: between commands the registry can be read and names the airdrop of every copy, and `state.json` equals its
copy (`Settled`); a running command approaches this again (`Progress`): its own two files once written, everybody else's entry until the upsert, all entries after it. Two names that share
a copy make this delicate: the entry of the airdrop whose copy was overwritten may go, that of every other stays, as neither its name nor its id is the new one's.

**The list.** `Eligibility` computes with functions defined by recursion, and a recursive function equals its body only if some function does, which has to
be shown first (`CapacityIs`, `TreeIs`, `FoldIs`, `FlattenIs`, each by induction on a number). Then two facts about the tree. From a row up, the value folded so
far is the node above the row: its number is the row's number halved once per level, and the path takes the sibling on the side of the parity
(`PathLeadsToRoot`). From the root down, hashes being injective, whatever leads to the root in `TREE_DEPTH` steps starts with a leaf
(`RootComesFromLeaf`), and the empty leaf is no row's. Ranks and the numbers of a finite set determine each other (`NthIs`), so a row's `bucket_id` points at
its amount (`TableIs`). With these, `BundleIs` says all there is to know of a bundle, and `CheckDecides` reduces the four checks of a claim to the list.
The invariant says that every bundle was built from a list, the list of its airdrop if there is one, and that every local state agrees with its list and the keys
paid (`AirdropOK`): the nullifiers are those of the paid rows, and what is claimed is the sum over the keys paid and, equally, over their rows. The second
form is what `FundedListsPay` needs: paid rows and one more are a subset of the list, so their sum is at most that of the list. The first needs no
order of claims and no bundle in particular, as a bundle of another build is never addressed to the airdrop. For `PaddingFills`, the decoys of a bucket are one
piece of the list's tail (`Fills`), which adds exactly what the bucket lacked.

**What claims and closes accept.** Each of `claim`, `claim_private`, `claim_ppe` and `close` is its checks (`claim_checks` and so on: everything
that can make the instruction fail) and, after them, assignments that always have a value. `EligibleRowIsClaimable` and
`RecoveryStaysOpen` say that the checks pass, so no prover has to look into ENABLED. For a claim, `BudgetIsPayable` gets the money from `Solvent` (what the unclaimed budget
covers is in the vault) and the sums from `TypeOK` (a total that stays below `total_funded` stays below `U64Max`); `PayableRowPasses` then
goes through the checks of each instruction. `RecoveryNeverCloses` is that what `close` needs, once there, never goes: terms and distributors are fixed by
`init_airdrop`, which no step undoes, and no claim, sweep or transfer takes an owner from a wallet (`NothingGivenUp`, `OneStaysOpen`).

**What ends.** The liveness proofs have one pattern. A *measure* counts the steps an actor still has before it (`StepsLeft`): at most eight for a command, a start
and a poll for each of the four commands of a pipeline, one for each file and stage of a call. Each step of the actor lowers it (`AdvanceLowers`, `SampleLowers`, `StepLowers`), and nobody else's step
changes it (`OthersLeaveCommand`, `SlotStep`, `OthersLeaveCall`), which are also the action properties `CommandsOnlyGoForward` and
`CallsOnlyGoForward`. With the fairness of the actor, the measure leaves each value it takes (`StageEnds`), and finitely many stages make the end. The one
hypothesis is that the fair step is possible at all, `[]NoCommandStuck`, `[]NoWaitStuck` and `[]NoCallStuck`, because ENABLED is beyond the provers; these are invariants the runs check.
In the UI a slot waits for a job, and which one is only known while it waits: the command of every id reads the files and ends (`ReadingStays`, `EveryJobEnds`), its record stays ended (`EndedStays`), and the argument for all ids
together is brought under one `[]`. In the FFI the same gives that the holder of the lock gives it back (`HolderGivesBack`), whoever it is, since the lock is held by a thread inside `init_wallet` or by nobody
(`LockIsHeldInside`). That a thread that *waits* for the lock gets it does not follow from running threads: `std::sync::Mutex` promises no order, and
threads that call without end could always be faster. In the run, `MaxCalls` bounds their calls. `CallsReturnIfTheLockIsFair` says what is true without the bound: with a lock
that serves its waiters (`FairLockSpec`, strong fairness of each thread's step), every call returns.

### Only model-checked

`NoCommandStuck`, `NoWaitStuck` and `NoCallStuck` speak of ENABLED, which is beyond the provers at hand; the liveness theorems rest on them. That
every call returns under weak fairness alone (`EveryCallReturns` in the run) uses the bound on calls: its proof would be an induction over the number of calls left, in a
temporal formula, which the provers cannot do. `PaddedIsBuildable`, `AlreadyClaimedIsTrue` and `SettlementPreflighted` are
false of the code, as their runs show.

## 5. Plan

In order of importance; done items are in the tables above.

1. *Done.* `DistributionXProgram`, its promise, its runs, its proofs.
2. *Done.* `LocalSubmission`: concurrent commands over the program.
3. *Done.* Proofs about `LocalSubmission`: types, `DrivesProgram`, `LocalNeverAhead`,
   `SettledAtMostOnce`, `LagIsReported`, `RecordsSurvive`; `ClaimedIsPaidOut` and `MoneyConserved` for the program.
4. *Done.* `CliState`: `state.json`, named copies, registry and claim files as separate
   files, several names, crashes between writes; its proofs.
5. *Done.* `Eligibility`: list, padding, tree, bundle and the circuit's fold in one machine; its proofs.
6. *Done.* `JobStore` and `BasecampUi` with their proofs; `WalletFfi` with its proofs.
7. Left: public claim modes and the shielded balance file in the adapter (an unlocked read-modify-write that nothing reads back); the
   resumable phases of `testnet-evidence.sh`.

### Not modelled, and why

* Packaging, benches, build scripts, QML layout, `args.rs` and `idl.rs` (the interface description as data) keep no state of the system.
* In the CLI: `create-destination`, `attest`, wallet, token and sample commands and `inspect-csv` each read and write files no other
  operation races for; their text output is not an object of a property.
* In the UI: the developer sample pipeline, the close button (a synchronous close by name), the CSV validation job (a fourth slot handled like the action slot), balance queries, claim links. In the module: a thread
  that cannot be created, which would leave a job running forever.
* `crates/distributionx-client/src/destination.rs` derives keys; the relayer reference and `keystore.rs`, `storage.rs` check or store one request or key at a time.
* In the adapter: receipts and the shielded balance file, which nothing reads back to decide anything, and the claim modes that go through a public transaction; what these
  send is in the program model.
* `testnet-evidence.sh` is a release tool. That a run interrupted between creating a receipt directory and journalling stops every later one
  can be read off its line 246.
* Proof generation and cryptography are assumed to do what their
  interface says. The vendored runtime and framework appear by the rules that decide
  whether an instruction of this program succeeds.
