--------------------------- MODULE LocalSubmission --------------------------
(***************************************************************************)
(* How airdrops are driven from a distributor's machine: concurrent runs    *)
(* of distributionx-cli (crates/distributionx-cli/src/commands.rs), the     *)
(* submit adapter each of them starts (scripts/local-submit.sh), the files  *)
(* they share, and the ledger that includes what they submit late, out of   *)
(* order or never.  Inclusion executes an action of DistributionXProgram.   *)
(*                                                                         *)
(* Claims take the shipping path, claim_ppe.  A transaction the ledger      *)
(* rejects is one that stays pending.  All commands use one airdrop name, so *)
(* state.json, its named copy and its registry entry are one variable.      *)
(***************************************************************************)
EXTENDS DistributionXProgram

CONSTANTS
    Processes,      \* command runs that may be alive at once
    LocalDistributor,
    LocalArgs,      \* what the init that draws an id submits
    FundAmounts,    \* amounts of fund commands
    TokenFunds,     \* custom tokens in the token source account at the start
    HasTokenSource, \* token_source_account is configured
    ClosesOnChain,  \* DISTRIBUTIONX_CLOSE_SUBMIT_COMMAND is set
    MaxCommands,    \* bound on the commands started, for model checking
    Missing         \* state.json does not exist

VARIABLES
    state_json,     \* Missing or a LocalAirdropState
    command,        \* what each process is doing
    pending,        \* transactions submitted and not included
    included,       \* transactions in blocks
    nonce,          \* nonce of the distributor's account
    drawn,          \* airdrop ids init has drawn: salts are random, so each is new
    token_balance,  \* custom tokens left in the source account
    settled,        \* custom tokens sent for each nullifier
    attempts,       \* commands started so far
    failed          \* commands that ended unsaved after sending what they were for

localVars == <<state_json, command, pending, included, nonce,
               drawn, token_balance, settled, attempts, failed>>
allVars == <<vars, localVars>>

LocalAirdropState ==
    [airdrop_id: AirdropIds, total_funded: 0 .. U64Max, total_claimed: 0 .. U64Max,
     status: {"active", "closed"}, nullifiers: SUBSET Nullifiers]
FreshState(id) ==
    [airdrop_id |-> id, total_funded |-> 0, total_claimed |-> 0,
     status |-> "active", nullifiers |-> {}]

\* What a command was asked to do, and the steps its processes go through.
Jobs ==
    [kind: {"init", "close"}] \cup [kind: {"fund"}, amount: FundAmounts] \cup
    [kind: {"claim"}, row: Rows, dest: Wallets]
Steps == {"prefund", "transfer", "transfer_wait", "submit", "wait",
          "settle", "settle_wait", "save"}
Sent == {"wait", "settle", "settle_wait", "save"}
Idle == [step |-> "idle"]
Commands ==
    [step: Steps, job: Jobs, loaded: LocalAirdropState, attempt: Nat, deposit: Nat]

ASSUME LocalAssumption ==
    /\ LocalDistributor \in Wallets
    /\ LocalArgs \in [AirdropIds -> InitArgs]
    /\ \A id \in AirdropIds : \A row \in LocalArgs[id].merkle_root :
         row.bucket_id < Len(LocalArgs[id].bucket_table)
    /\ \A id \in AirdropIds : \A row, other \in LocalArgs[id].merkle_root :
         row.salt = other.salt => row = other
    /\ FundAmounts \subseteq Nat /\ \A a \in FundAmounts : 1 .. a \subseteq Amounts
    /\ TokenFunds \in Nat
    /\ HasTokenSource \in BOOLEAN /\ ClosesOnChain \in BOOLEAN
    /\ MaxCommands \in Nat
    /\ Missing \notin LocalAirdropState

ClaimAmount(id, row) == LocalArgs[id].bucket_table[row.bucket_id + 1]

LocalInit ==
    /\ Init
    /\ state_json = Missing
    /\ command = [p \in Processes |-> Idle]
    /\ pending = {} /\ included = {}
    /\ nonce = 0
    /\ token_balance = TokenFunds
    /\ drawn = {}
    /\ settled = [id \in AirdropIds |-> [n \in Nullifiers |-> 0]]
    /\ attempts = 0
    /\ failed = {}

-----------------------------------------------------------------------------
(* A command starts: it reads the state file once, checks the request       *)
(* against what it read, and hands over to the adapter.                     *)

Start(p, job, loaded, step) ==
    /\ command[p] = Idle
    /\ attempts < MaxCommands
    /\ attempts' = attempts + 1
    /\ command' = [command EXCEPT ![p] =
         [step |-> step, job |-> job, loaded |-> loaded, attempt |-> attempts, deposit |-> 0]]
    /\ UNCHANGED <<vars, state_json, pending, included, nonce, token_balance, settled,
                   failed>>

init(p, id) ==
    /\ id \notin drawn
    /\ drawn' = drawn \cup {id}
    /\ Start(p, [kind |-> "init"], FreshState(id), "submit")

fund_command(p, amount) ==
    /\ state_json # Missing
    /\ Start(p, [kind |-> "fund", amount |-> amount], state_json, "prefund")
    /\ UNCHANGED drawn

\* The claim.tx file holds a signed claim of the airdrop in state.json.
\* Neither the status nor the expiry is looked at here.
claim_command(p, row, dest) ==
    LET id == state_json.airdrop_id IN
    /\ <<row.address, id, dest>> \in Signatures
    /\ h_null(row.salt) \notin state_json.nullifiers
    /\ state_json.total_claimed + ClaimAmount(id, row) <= state_json.total_funded
    /\ Start(p, [kind |-> "claim", row |-> row, dest |-> dest], state_json, "submit")
    /\ UNCHANGED drawn

\* Without a submit command nothing is sent: close only edits the file.
close_command(p) ==
    /\ state_json # Missing
    /\ Start(p, [kind |-> "close"], state_json, IF ClosesOnChain THEN "submit" ELSE "save")
    /\ UNCHANGED drawn

-----------------------------------------------------------------------------
(* Transactions.  A signed one carries the nonce its signer had when it was  *)
(* built; a privacy-preserving one carries a proof over the public accounts  *)
(* as they were then (PrivacyPreservingCircuitOutput.public_pre_states).     *)

SignedTx(kind, c, amount, now) ==
    [kind |-> kind, id |-> c.loaded.airdrop_id, attempt |-> c.attempt,
     amount |-> amount, now |-> now, nonce |-> nonce]

public_pre_states(id, row) ==
    <<airdrop[id], nullifier_record[id][h_null(row.salt)], vault[id]>>

ClaimTx(c, now) ==
    [kind |-> "claim", id |-> c.loaded.airdrop_id, attempt |-> c.attempt,
     row |-> c.job.row, dest |-> c.job.dest, now |-> now,
     pre |-> public_pre_states(c.loaded.airdrop_id, c.job.row)]

SettleTx(c) ==
    [kind |-> "settle", id |-> c.loaded.airdrop_id, attempt |-> c.attempt, row |-> c.job.row]

\* getTransaction finds the transaction this command sent, by its hash.
Included(p, kind) ==
    \E tx \in included : tx.kind = kind /\ tx.attempt = command[p].attempt

At(p, step) == command[p] # Idle /\ command[p].step = step

Goto(p, step) == command' = [command EXCEPT ![p].step = step]

Send(p, tx, step) ==
    /\ pending' = pending \cup {tx}
    /\ Goto(p, step)
    /\ UNCHANGED <<vars, state_json, included, nonce, drawn, token_balance, settled,
                   attempts, failed>>

\* The process goes on; nothing else changes.
Proceed(p, step) ==
    /\ Goto(p, step)
    /\ UNCHANGED <<vars, state_json, pending, included, nonce,
                   drawn, token_balance, settled, attempts, failed>>

-----------------------------------------------------------------------------
(* prefund_vault: the balance is read first, the transfer built from it      *)
(* later, with whatever nonce the distributor has by then.                   *)

\* Faulty variant: the missing amount is computed without the comparison.
prefund_read_NoCompare(p) ==
    /\ At(p, "prefund")
    /\ command' = [command EXCEPT ![p].step = "transfer",
             ![p].deposit = command[p].job.amount - vault[command[p].loaded.airdrop_id].balance]
    /\ UNCHANGED <<vars, state_json, pending, included, nonce,
                   drawn, token_balance, settled, attempts, failed>>

prefund_read(p) ==
    /\ At(p, "prefund")
    /\ IF vault[command[p].loaded.airdrop_id].balance >= command[p].job.amount
       THEN Goto(p, "submit")
       ELSE command' = [command EXCEPT ![p].step = "transfer",
                ![p].deposit = command[p].job.amount - vault[command[p].loaded.airdrop_id].balance]
    /\ UNCHANGED <<vars, state_json, pending, included, nonce,
                   drawn, token_balance, settled, attempts, failed>>

prefund_transfer(p) ==
    /\ At(p, "transfer")
    /\ Send(p, SignedTx("deposit", command[p], command[p].deposit, 0), "transfer_wait")

prefund_wait(p) ==
    /\ At(p, "transfer_wait")
    /\ Included(p, "deposit")
    /\ Proceed(p, "submit")

-----------------------------------------------------------------------------
(* run: submit, wait for inclusion, settle custom tokens, report back.       *)

submit(p) ==
    /\ At(p, "submit")
    /\ \E now \in CallerTimes :
         LET c == command[p] IN
         Send(p, CASE c.job.kind = "claim" -> ClaimTx(c, now)
                   [] c.job.kind = "fund" -> SignedTx("fund", c, c.job.amount, now)
                   [] OTHER -> SignedTx(c.job.kind, c, 0, now),
              "wait")

SettlementDue(c) ==
    HasTokenSource /\ c.job.kind = "claim" /\ ClaimAmount(c.loaded.airdrop_id, c.job.row) # 0

\* Faulty variants: a wait that runs out counts as inclusion; a claim counts as
\* included when any claim of its nullifier is.
confirm_Optimistic(p) ==
    /\ At(p, "wait")
    /\ Proceed(p, IF SettlementDue(command[p]) THEN "settle" ELSE "save")

confirm_ByNullifier(p) ==
    /\ At(p, "wait")
    /\ \/ Included(p, command[p].job.kind)
       \/ /\ command[p].job.kind = "claim"
          /\ \E tx \in included : tx.kind = "claim" /\ tx.row.salt = command[p].job.row.salt
    /\ Proceed(p, IF SettlementDue(command[p]) THEN "settle" ELSE "save")

confirm(p) ==
    /\ At(p, "wait")
    /\ Included(p, command[p].job.kind)
    /\ Proceed(p, IF SettlementDue(command[p]) THEN "settle" ELSE "save")

settle_claim_tokens(p) ==
    /\ At(p, "settle")
    /\ Send(p, SettleTx(command[p]), "settle_wait")

settle_confirm(p) ==
    /\ At(p, "settle_wait")
    /\ Included(p, "settle")
    /\ Proceed(p, "save")

\* Faulty variant: fund rebuilds the record instead of updating the one it read.
Updated_Rebuilt(c) ==
    CASE c.job.kind = "init" -> c.loaded
      [] c.job.kind = "fund" -> [FreshState(c.loaded.airdrop_id) EXCEPT
                                    !.total_funded = c.loaded.total_funded + c.job.amount]
      [] c.job.kind = "claim" ->
           [c.loaded EXCEPT !.total_claimed = @ + ClaimAmount(c.loaded.airdrop_id, c.job.row),
                            !.nullifiers = @ \cup {h_null(c.job.row.salt)}]
      [] c.job.kind = "close" -> [c.loaded EXCEPT !.status = "closed"]

\* Faulty variant: claim records the nullifier but not the amount.
Updated_ForgetsAmount(c) ==
    CASE c.job.kind = "init" -> c.loaded
      [] c.job.kind = "fund" -> [c.loaded EXCEPT !.total_funded = @ + c.job.amount]
      [] c.job.kind = "claim" ->
           [c.loaded EXCEPT !.nullifiers = @ \cup {h_null(c.job.row.salt)}]
      [] c.job.kind = "close" -> [c.loaded EXCEPT !.status = "closed"]

\* What the command adds to the state it read when it started.
Updated(c) ==
    CASE c.job.kind = "init" -> c.loaded
      [] c.job.kind = "fund" -> [c.loaded EXCEPT !.total_funded = @ + c.job.amount]
      [] c.job.kind = "claim" ->
           [c.loaded EXCEPT !.total_claimed = @ + ClaimAmount(c.loaded.airdrop_id, c.job.row),
                            !.nullifiers = @ \cup {h_null(c.job.row.salt)}]
      [] c.job.kind = "close" -> [c.loaded EXCEPT !.status = "closed"]

\* The whole file is written from the snapshot: what others saved since is lost.
save_state(p) ==
    /\ At(p, "save")
    /\ Updated(command[p]).total_funded <= U64Max
    /\ Updated(command[p]).total_claimed <= U64Max
    /\ state_json' = Updated(command[p])
    /\ command' = [command EXCEPT ![p] = Idle]
    /\ UNCHANGED <<vars, pending, included, nonce, drawn, token_balance, settled, attempts,
                   failed>>

\* The command ends without saving; what it may have sent stays with the ledger.
End(p) ==
    /\ command' = [command EXCEPT ![p] = Idle]
    /\ failed' = IF command[p].step \in Sent THEN failed \cup {command[p].attempt} ELSE failed
    /\ UNCHANGED <<vars, state_json, pending, included, nonce,
                   drawn, token_balance, settled, attempts>>

\* The transaction a step waits for.
Awaited(p) ==
    CASE command[p].step = "transfer_wait" -> "deposit"
      [] command[p].step = "wait" -> command[p].job.kind
      [] command[p].step = "settle_wait" -> "settle"

\* Faulty variant: the wait for the operation itself has no deadline.
time_out_NoDeadline(p) ==
    /\ At(p, "transfer_wait") \/ At(p, "settle_wait")
    /\ ~ Included(p, Awaited(p))
    /\ End(p)

\* fetch_transaction_until: each round looks the transaction up first; when it is
\* not there and was rejected, or the deadline has passed, the wait ends.  The
\* transaction may still be included afterwards.
time_out(p) ==
    /\ At(p, "transfer_wait") \/ At(p, "wait") \/ At(p, "settle_wait")
    /\ ~ Included(p, Awaited(p))
    /\ End(p)

\* An error in any step, or a kill.  Nothing promises that it comes.
abandon(p) ==
    /\ command[p] # Idle
    /\ End(p)

-----------------------------------------------------------------------------
(* The ledger. *)

Execute(tx) ==
    \/ tx.kind = "init" /\ init_airdrop(tx.id, LocalDistributor, LocalArgs[tx.id])
    \/ tx.kind = "deposit" /\ transfer(LocalDistributor, tx.id, tx.amount)
    \/ tx.kind = "fund" /\ fund(tx.id, LocalDistributor, tx.amount, tx.now)
    \/ tx.kind = "close" /\ close(tx.id, LocalDistributor)

Include(tx) ==
    /\ pending' = pending \ {tx}
    /\ included' = included \cup {tx}
    /\ UNCHANGED <<state_json, command, drawn, attempts, failed>>

IncludeSigned(tx) ==
    /\ tx.kind \in {"init", "deposit", "fund", "close"}
    /\ tx.nonce = nonce
    /\ nonce' = nonce + 1
    /\ Execute(tx)
    /\ Include(tx)
    /\ UNCHANGED <<token_balance, settled>>

\* The proof holds only against the public accounts it was made for.
IncludeClaim(tx) ==
    /\ tx.kind = "claim"
    /\ tx.pre = public_pre_states(tx.id, tx.row)
    /\ claim_ppe(tx.id, tx.row.bucket_id, h_null(tx.row.salt), tx.dest,
                 tx.row.address, tx.row.salt, tx.now)
    /\ Include(tx)
    /\ UNCHANGED <<nonce, token_balance, settled>>

IncludeSettlement(tx) ==
    /\ tx.kind = "settle"
    /\ ClaimAmount(tx.id, tx.row) <= token_balance
    /\ token_balance' = token_balance - ClaimAmount(tx.id, tx.row)
    /\ settled' = [settled EXCEPT ![tx.id][h_null(tx.row.salt)] = @ + ClaimAmount(tx.id, tx.row)]
    /\ Include(tx)
    /\ UNCHANGED <<vars, nonce>>

-----------------------------------------------------------------------------
StartCommand(p) ==
    \/ \E id \in AirdropIds : init(p, id)
    \/ \E amount \in FundAmounts : fund_command(p, amount)
    \/ /\ state_json # Missing
       /\ \E row \in LocalArgs[state_json.airdrop_id].merkle_root, dest \in Wallets :
            claim_command(p, row, dest)
    \/ close_command(p)

\* What a live process does by itself.
Advance(p) ==
    \/ prefund_read(p)
    \/ prefund_transfer(p)
    \/ prefund_wait(p)
    \/ submit(p)
    \/ confirm(p)
    \/ settle_claim_tokens(p)
    \/ settle_confirm(p)
    \/ save_state(p)
    \/ time_out(p)

Ledger ==
    \/ \E tx \in pending : IncludeSigned(tx) \/ IncludeClaim(tx) \/ IncludeSettlement(tx)
    \/ Tick /\ UNCHANGED localVars

LocalNext == (\E p \in Processes : StartCommand(p) \/ Advance(p) \/ abandon(p)) \/ Ledger

LocalSpec == LocalInit /\ [][LocalNext]_allVars

\* A live process goes on: it takes its next step, and its waits end at their
\* deadline.  It need not fail.
RunsOn(p) == WF_allVars(Advance(p))
FairLocalSpec == LocalSpec /\ \A p \in Processes : RunsOn(p)

-----------------------------------------------------------------------------
LocalTypeOK ==
    /\ state_json \in LocalAirdropState \cup {Missing}
    /\ \A p \in Processes : command[p] \in Commands \cup {Idle}
    /\ nonce \in Nat /\ attempts \in 0 .. MaxCommands
    /\ drawn \subseteq AirdropIds
    /\ token_balance \in 0 .. TokenFunds
    /\ settled \in [AirdropIds -> [Nullifiers -> Nat]]
    /\ failed \subseteq 0 .. attempts - 1

\* What the distributor's machine believes was done, was done: totals,
\* nullifiers and (when close is submitted) the status in state.json never run
\* ahead of the ledger, although commands overlap, time out, are killed between
\* inclusion and save, and overwrite each other's saves.
LocalNeverAhead ==
    LET s == state_json
        id == s.airdrop_id
    IN  s # Missing =>
          /\ airdrop[id] # Default
          /\ s.total_funded <= airdrop[id].total_funded
          /\ s.total_claimed <= airdrop[id].total_claimed
          /\ \A n \in s.nullifiers : nullifier_record[id][n].claimed
          /\ (ClosesOnChain /\ s.status = "closed") => ~ Active(id)

\* A row's custom tokens are sent at most once, and only after its native claim
\* was included, whatever is retried, raced or included late.
SettledAtMostOnce ==
    \A id \in AirdropIds : \A row \in LocalArgs[id].merkle_root :
        LET n == h_null(row.salt) IN
        settled[id][n] # 0 => /\ settled[id][n] = ClaimAmount(id, row)
                              /\ nullifier_record[id][n].claimed

\* Included transactions of an airdrop whose command has not saved them: it
\* reported an error, was killed, or is still running.
Unrecorded(id, kind) ==
    {tx \in included :
        /\ tx.id = id /\ tx.kind = kind
        /\ \/ tx.attempt \in failed
           \/ \E p \in Processes : command[p] # Idle /\ command[p].attempt = tx.attempt}

\* Commands that do not overlap keep exact books: the ledger is ahead of
\* state.json by precisely the transactions of commands that did not report
\* success, whatever was retried after them or included late.
LagIsReported ==
    LET id == state_json.airdrop_id
        funded == [tx \in Unrecorded(id, "fund") |-> tx.amount]
        claimed == [tx \in Unrecorded(id, "claim") |-> ClaimAmount(id, tx.row)]
    IN  state_json # Missing =>
          /\ airdrop[id].total_funded = state_json.total_funded + SumFunction(funded)
          /\ airdrop[id].total_claimed = state_json.total_claimed + SumFunction(claimed)
          /\ {n \in Nullifiers : nullifier_record[id][n].claimed} =
                state_json.nullifiers \cup {h_null(tx.row.salt) : tx \in Unrecorded(id, "claim")}

\* The ledger only ever moves by the program's own instructions.
DrivesProgram == Spec

\* Commands that do not overlap lose no record of the airdrop they are about:
\* its nullifiers and totals only grow, a closed airdrop stays closed, and only a
\* completed init puts another airdrop, with nothing funded yet, in its place.
RecordsSurvive ==
    [][state_json' # state_json /\ state_json # Missing =>
         IF state_json'.airdrop_id # state_json.airdrop_id
         THEN state_json' = FreshState(state_json'.airdrop_id)
         ELSE /\ state_json.nullifiers \subseteq state_json'.nullifiers
              /\ state_json.total_funded <= state_json'.total_funded
              /\ state_json.total_claimed <= state_json'.total_claimed
              /\ state_json.status = "closed" => state_json'.status = "closed"]_allVars

\* No command is ever left with nothing but an error: whatever the ledger, the
\* files and the other commands did, it can take its next step or its wait can run
\* out.  In particular a save never overflows: the totals it adds up are bounded
\* by the ledger's, which passed the same checked additions on chain.
NoCommandStuck == \A p \in Processes : command[p] # Idle => ENABLED <<Advance(p)>>_allVars

\* Every command comes to an end, though its transaction may never be included.
EveryCommandEnds == \A p \in Processes : command[p] # Idle ~> command[p] = Idle

\* docs/WRITEUP.md:84 says of the custom-token settlement that "the adapter
\* preflights it": when a claim with a settlement is submitted, the source
\* account can cover the settlement.
SettlementPreflighted ==
    [][\A tx \in pending' \ pending :
         tx.kind = "claim" /\ HasTokenSource =>
             ClaimAmount(tx.id, tx.row) <= token_balance]_allVars

=============================================================================
