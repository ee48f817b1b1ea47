------------------------ MODULE DistributionXProgram ------------------------
(***************************************************************************)
(* The DistributionX on-chain program: the six instructions of the         *)
(* deployed guest (methods/guest/src/bin/distributionx.rs), the account    *)
(* constraints #[lez_program] generates for them, the execution rules of   *)
(* the vendored runtime, and the environment they run in: native transfers *)
(* into the vault by anybody, and the ledger's clock.                      *)
(*                                                                         *)
(* A transaction that fails a check changes nothing, so it is a stuttering *)
(* step and only successful instructions are actions.  Which check rejects *)
(* it (the E_ code) is left out.  Hashes, signatures and Merkle paths are  *)
(* symbolic: a root is the set of rows under it, h_null is injective, and  *)
(* a signature verifies when its holder made it.                           *)
(***************************************************************************)
EXTENDS Integers, Sequences, FiniteSetsExt

CONSTANTS
    AirdropIds,
    Addresses,       \* allowlisted claim keys
    Salts,           \* per-row salts
    Wallets,         \* native accounts: distributors, recoveries, recipients
    ZeroCommitment,  \* the all-zero destination commitment, not a wallet
    Signatures,      \* <<address, airdrop_id, destination>>: every claim message ever signed
    InitArgs,        \* the arguments init_airdrop is called with
    Amounts,         \* amounts funded or transferred in one transaction
    CallerTimes,     \* values callers pass as now_unix (seconds)
    InitialWallet,   \* owner and balance of every native account at the start
    U64Max,          \* largest u64: amounts, totals and milliseconds
    MillisPerSecond, \* 1000 in the program
    MaxClock,        \* bound on the ledger clock (milliseconds), for model checking
    Default          \* an account that does not exist yet

VARIABLES
    airdrop,           \* airdrop PDA of each id: Default or an AirdropState
    vault,             \* vault PDA of each id: [owner, balance]
    nullifier_record,  \* nullifier PDA of each id and nullifier: [claimed, balance]
    wallet,            \* native accounts: [owner, balance]
    clock              \* timestamp of the next block, milliseconds

vars == <<airdrop, vault, nullifier_record, wallet, clock>>

TREE_DEPTH == 20
MAX_BUCKETS == 32
EXPECTED_IMAGE_ID == "claim"
Owners == {"default", "program", "transfer"}
NativeAccount == [owner: Owners, balance: Nat]
Commitments == Wallets \cup {ZeroCommitment}

\* What #[account(init)] wants of an account: nobody ever touched it.
Untouched == [owner |-> "default", balance |-> 0]
UntouchedRecord == [claimed |-> FALSE, balance |-> 0]

h_null(salt) == <<"null", salt>>
Nullifiers == {h_null(salt) : salt \in Salts}
Rows == [address: Addresses, bucket_id: Nat, salt: Salts]
InitArg ==
    [merkle_root: SUBSET Rows, tree_depth: Nat, bucket_table: Seq(0 .. U64Max),
     image_id: {EXPECTED_IMAGE_ID, "other"}, expiry_unix: Int,
     recovery_address: Wallets, now_unix: Int]
AirdropState ==
    [distributor: Wallets, merkle_root: SUBSET Rows, bucket_table: Seq(0 .. U64Max),
     expiry_unix: Int, recovery_address: Wallets, total_funded: 0 .. U64Max,
     total_claimed: 0 .. U64Max, status: {"active", "closed"}]

ASSUME ConstantsAssumption ==
    /\ U64Max \in Nat
    /\ MillisPerSecond \in Nat \ {0}
    /\ MaxClock \in Nat
    /\ Amounts \subseteq Nat
    /\ CallerTimes \subseteq Int
    /\ InitArgs \subseteq InitArg
    /\ InitialWallet \in [Wallets -> NativeAccount]
    /\ ZeroCommitment \notin Wallets
    /\ Default \notin AirdropState

\* Airdrop ids, salts and account ids are arrays of 32 bytes.
ASSUME FiniteAssumption ==
    IsFiniteSet(AirdropIds) /\ IsFiniteSet(Salts) /\ IsFiniteSet(Wallets)

-----------------------------------------------------------------------------
(* What the circuit proves about a claim journal: its bucket and nullifier  *)
(* are those of one row under its root, and the holder of that row signed   *)
(* the journal's airdrop and destination.                                   *)

Journal(id, root, bucket_id, nullifier, dest) ==
    [airdrop_id |-> id, merkle_root |-> root, bucket_id |-> bucket_id,
     nullifier |-> nullifier, claim_destination_commitment |-> dest]

\* Faulty variant: the claim message leaves out the airdrop id.
verify_claim_constraints_UnboundId(j, address, salt) ==
    /\ \E id \in AirdropIds :
         <<address, id, j.claim_destination_commitment>> \in Signatures
    /\ [address |-> address, bucket_id |-> j.bucket_id, salt |-> salt] \in j.merkle_root
    /\ h_null(salt) = j.nullifier

verify_claim_constraints(j, address, salt) ==
    /\ <<address, j.airdrop_id, j.claim_destination_commitment>> \in Signatures
    /\ [address |-> address, bucket_id |-> j.bucket_id, salt |-> salt] \in j.merkle_root
    /\ h_null(salt) = j.nullifier

\* A receipt exists for every journal somebody has a witness for.  A holder
\* cannot take a signature back, so when the receipt was made does not matter.
verify_claim_receipt(j) ==
    \E address \in Addresses, salt \in Salts : verify_claim_constraints(j, address, salt)

-----------------------------------------------------------------------------
Init ==
    /\ airdrop = [id \in AirdropIds |-> Default]
    /\ vault = [id \in AirdropIds |-> Untouched]
    /\ nullifier_record =
         [id \in AirdropIds |-> [n \in Nullifiers |-> UntouchedRecord]]
    /\ wallet = InitialWallet
    /\ clock = 0

-----------------------------------------------------------------------------
(* Checks the instructions share. *)

\* Signing leaves a nonce in the account (public_account_nonce_increment), and an
\* account with a nonce is not new.  What an account that no program owns can sign
\* is an init, as the distributor.
HasSigned(w) == \E id \in AirdropIds : airdrop[id] # Default /\ airdrop[id].distributor = w

NewAccount(w) == wallet[w] = Untouched /\ ~ HasSigned(w)

\* Faulty variant: expiry alone ends an airdrop.
ensure_active_NoStatus(id, now) ==
    /\ airdrop[id] # Default
    /\ now < airdrop[id].expiry_unix

ensure_active(id, now) ==
    /\ airdrop[id] # Default
    /\ airdrop[id].status = "active"
    /\ now < airdrop[id].expiry_unix

ensure_distributor(id, signer) ==
    /\ airdrop[id] # Default
    /\ airdrop[id].distributor = signer

\* Faulty variant: an overflow goes unnoticed.
checked_add_u64_Unchecked(a, b) == TRUE

checked_add_u64(a, b) == a + b <= U64Max

\* Faulty variant: the claim is trusted to be in time because the caller's
\* now_unix was.
with_claim_expiry_NoWindow(expiry_unix) ==
    /\ expiry_unix >= 0
    /\ expiry_unix * MillisPerSecond <= U64Max

\* The transaction is valid only in blocks stamped before the expiry.
with_claim_expiry(expiry_unix) ==
    /\ expiry_unix >= 0
    /\ expiry_unix * MillisPerSecond <= U64Max
    /\ clock < expiry_unix * MillisPerSecond

-----------------------------------------------------------------------------
(* init_airdrop.  A vault somebody sent money to first can no longer be *)
(* initialised.                                                        *)

init_airdrop(id, distributor, args) ==
    /\ airdrop[id] = Default
    /\ vault[id] = Untouched
    /\ args.tree_depth = TREE_DEPTH
    /\ Len(args.bucket_table) \in 1 .. MAX_BUCKETS
    /\ \A i \in DOMAIN args.bucket_table : args.bucket_table[i] # 0
    /\ args.image_id = EXPECTED_IMAGE_ID
    /\ args.now_unix < args.expiry_unix
    /\ airdrop' = [airdrop EXCEPT ![id] =
         [distributor |-> distributor, merkle_root |-> args.merkle_root,
          bucket_table |-> args.bucket_table, expiry_unix |-> args.expiry_unix,
          recovery_address |-> args.recovery_address, total_funded |-> 0,
          total_claimed |-> 0, status |-> "active"]]
    /\ vault' = [vault EXCEPT ![id].owner = "program"]
    /\ UNCHANGED <<nullifier_record, wallet, clock>>

\* Faulty variant: the vault is compared with the increment, not the new total.
fund_ComparesIncrement(id, signer, amount, now) ==
    /\ amount # 0
    /\ ensure_active(id, now)
    /\ ensure_distributor(id, signer)
    /\ checked_add_u64(airdrop[id].total_funded, amount)
    /\ vault[id].balance >= amount
    /\ airdrop' = [airdrop EXCEPT ![id].total_funded = @ + amount]
    /\ UNCHANGED <<vault, nullifier_record, wallet, clock>>

\* Money moves into the vault before, by a native transfer; fund only counts
\* it.  There is no validity window here: now_unix is the caller's word.
fund(id, signer, amount, now) ==
    /\ amount # 0
    /\ ensure_active(id, now)
    /\ ensure_distributor(id, signer)
    /\ checked_add_u64(airdrop[id].total_funded, amount)
    /\ vault[id].balance >= airdrop[id].total_funded + amount
    /\ airdrop' = [airdrop EXCEPT ![id].total_funded = @ + amount]
    /\ UNCHANGED <<vault, nullifier_record, wallet, clock>>

-----------------------------------------------------------------------------
(* The three claim instructions share the budget check, the debit and the   *)
(* nullifier; they differ in who is credited and how the witness arrives.   *)

BucketAmount(id, bucket_id) == airdrop[id].bucket_table[bucket_id + 1]

\* Faulty variant: the last unit of the budget cannot be claimed.
VaultCovers_OffByOne(id, amount) ==
    /\ checked_add_u64(airdrop[id].total_claimed, amount)
    /\ airdrop[id].total_claimed + amount < airdrop[id].total_funded
    /\ vault[id].balance >= amount

VaultCovers(id, amount) ==
    /\ checked_add_u64(airdrop[id].total_claimed, amount)
    /\ airdrop[id].total_claimed + amount <= airdrop[id].total_funded
    /\ vault[id].balance >= amount

Debit(id, amount) ==
    /\ airdrop' = [airdrop EXCEPT ![id].total_claimed = @ + amount]
    /\ vault' = [vault EXCEPT ![id].balance = @ - amount]

\* Faulty variant: the record is not required to be new.
NullifierUnused_Unchecked(id, nullifier) == TRUE

\* Not only unspent: a record somebody sent money to is lost for claims.
NullifierUnused(id, nullifier) == nullifier_record[id][nullifier] = UntouchedRecord

\* Faulty variant: the record is marked, the credit forgotten.
SpendNullifier_NoCredit(id, nullifier, credit) ==
    nullifier_record' = [nullifier_record EXCEPT ![id][nullifier].claimed = TRUE]

SpendNullifier(id, nullifier, credit) ==
    nullifier_record' = [nullifier_record EXCEPT ![id][nullifier] =
        [claimed |-> TRUE, balance |-> @.balance + credit]]

\* What each claim instruction checks before it changes anything.
claim_checks(id, j, now) ==
    /\ NullifierUnused(id, j.nullifier)
    /\ ensure_active(id, now)
    /\ verify_claim_receipt(j)
    /\ j.airdrop_id = id
    /\ j.merkle_root = airdrop[id].merkle_root
    /\ j.bucket_id < Len(airdrop[id].bucket_table)
    /\ j.claim_destination_commitment # ZeroCommitment
    /\ VaultCovers(id, BucketAmount(id, j.bucket_id))
    /\ with_claim_expiry(airdrop[id].expiry_unix)

witness_checks(id, bucket_id, nullifier, dest, address, salt, now) ==
    /\ NullifierUnused(id, nullifier)
    /\ ensure_active(id, now)
    /\ bucket_id < Len(airdrop[id].bucket_table)
    /\ verify_claim_constraints(
         Journal(id, airdrop[id].merkle_root, bucket_id, nullifier, dest), address, salt)
    /\ VaultCovers(id, BucketAmount(id, bucket_id))
    /\ with_claim_expiry(airdrop[id].expiry_unix)

claim_private_checks(id, bucket_id, nullifier, dest, address, salt, now) ==
    /\ dest # ZeroCommitment
    /\ witness_checks(id, bucket_id, nullifier, dest, address, salt, now)

claim_ppe_checks(id, bucket_id, nullifier, dest, address, salt, now) ==
    /\ dest \in Wallets
    /\ NewAccount(dest)
    /\ witness_checks(id, bucket_id, nullifier, dest, address, salt, now)

\* The receipt path: the payout goes to the nullifier's own account.
claim(id, j, now) ==
    /\ claim_checks(id, j, now)
    /\ Debit(id, BucketAmount(id, j.bucket_id))
    /\ SpendNullifier(id, j.nullifier, BucketAmount(id, j.bucket_id))
    /\ UNCHANGED <<wallet, clock>>

\* The in-program verifier: the same credit, the witness in the arguments.
claim_private(id, bucket_id, nullifier, dest, address, salt, now) ==
    /\ claim_private_checks(id, bucket_id, nullifier, dest, address, salt, now)
    /\ Debit(id, BucketAmount(id, bucket_id))
    /\ SpendNullifier(id, nullifier, BucketAmount(id, bucket_id))
    /\ UNCHANGED <<wallet, clock>>

\* Faulty variant: the nullifier record is credited as well, as in claim.
claim_ppe_CreditsTwice(id, bucket_id, nullifier, dest, address, salt, now) ==
    /\ claim_ppe_checks(id, bucket_id, nullifier, dest, address, salt, now)
    /\ Debit(id, BucketAmount(id, bucket_id))
    /\ SpendNullifier(id, nullifier, BucketAmount(id, bucket_id))
    /\ wallet' = [wallet EXCEPT ![dest] =
         [owner |-> "program", balance |-> BucketAmount(id, bucket_id)]]
    /\ UNCHANGED clock

\* The privacy-preserving path: the payout goes to the signed destination,
\* an untouched account that the program comes to own (#[account(init)]).
claim_ppe(id, bucket_id, nullifier, dest, address, salt, now) ==
    /\ claim_ppe_checks(id, bucket_id, nullifier, dest, address, salt, now)
    /\ Debit(id, BucketAmount(id, bucket_id))
    /\ SpendNullifier(id, nullifier, 0)
    /\ wallet' = [wallet EXCEPT ![dest] =
         [owner |-> "program", balance |-> BucketAmount(id, bucket_id)]]
    /\ UNCHANGED clock

-----------------------------------------------------------------------------
(* close.  The runtime wants the accounts distinct.  A recovery account that  *)
(* is not new but that no program owns is dropped from the program's output  *)
(* (#[lez_program] main), and a dropped credit unbalances the transaction.   *)

RecoveryAccepts(id) ==
    LET r == airdrop[id].recovery_address IN
    /\ r # airdrop[id].distributor
    /\ \/ vault[id].balance = 0
       \/ wallet[r].owner # "default"
       \/ NewAccount(r)

Sweep(id, to) ==
    /\ airdrop' = [airdrop EXCEPT ![id].status = "closed"]
    /\ wallet' = [wallet EXCEPT ![to].balance = @ + vault[id].balance]
    /\ vault' = [vault EXCEPT ![id].balance = 0]
    /\ UNCHANGED <<nullifier_record, clock>>

\* Faulty variant: an airdrop closes once only.
close_checks_OnceOnly(id, signer) ==
    /\ ensure_distributor(id, signer)
    /\ airdrop[id].status = "active"
    /\ RecoveryAccepts(id)

\* Neither the status nor the expiry is checked: the distributor may close
\* early, and again.
close_checks(id, signer) ==
    /\ ensure_distributor(id, signer)
    /\ RecoveryAccepts(id)

\* Faulty variant: the signer gets the remainder.
close_ToSigner(id, signer) ==
    /\ close_checks(id, signer)
    /\ Sweep(id, signer)

close(id, signer) ==
    /\ close_checks(id, signer)
    /\ Sweep(id, airdrop[id].recovery_address)

-----------------------------------------------------------------------------
(* The environment: native transfers.  Anybody who holds money may credit a  *)
(* vault, any nullifier record, spent or not, and any other account.         *)

Sends(from, amount) ==
    /\ wallet[from].owner = "transfer"
    /\ amount \in 1 .. wallet[from].balance

\* A credited account nobody owned may be taken over by the sending program;
\* it has to be if it is not new (validate_execution, rule 7).
OwnersAfterCredit(account, new) ==
    IF account.owner # "default" THEN {account.owner}
    ELSE IF new THEN {"default", "transfer"}
    ELSE {"transfer"}

transfer(from, id, amount) ==
    /\ Sends(from, amount)
    /\ wallet' = [wallet EXCEPT ![from].balance = @ - amount]
    /\ \E owner \in OwnersAfterCredit(vault[id], vault[id] = Untouched) :
         vault' = [vault EXCEPT ![id] = [owner |-> owner, balance |-> @.balance + amount]]
    /\ UNCHANGED <<airdrop, nullifier_record, clock>>

touch_recipient(from, to, amount) ==
    /\ Sends(from, amount)
    /\ to # from
    /\ \E owner \in OwnersAfterCredit(wallet[to], NewAccount(to)) :
         wallet' = [wallet EXCEPT ![from].balance = @ - amount,
                                  ![to] = [owner |-> owner, balance |-> @.balance + amount]]
    /\ UNCHANGED <<airdrop, vault, nullifier_record, clock>>

touch_record(from, id, nullifier, amount) ==
    /\ Sends(from, amount)
    /\ wallet' = [wallet EXCEPT ![from].balance = @ - amount]
    /\ nullifier_record' = [nullifier_record EXCEPT ![id][nullifier].balance = @ + amount]
    /\ UNCHANGED <<airdrop, vault, clock>>

Tick ==
    /\ clock < MaxClock
    /\ clock' = clock + 1
    /\ UNCHANGED <<airdrop, vault, nullifier_record, wallet>>

InitAirdrop == \E id \in AirdropIds, d \in Wallets, args \in InitArgs : init_airdrop(id, d, args)

Fund == \E id \in AirdropIds, s \in Wallets, a \in Amounts, now \in CallerTimes :
            fund(id, s, a, now)

CommittedRows(id) == IF airdrop[id] = Default THEN {} ELSE airdrop[id].merkle_root

\* A receipt may be for any root a distributor could commit to.
Claim ==
    \E id, jid \in AirdropIds, args \in InitArgs, dest \in Commitments, now \in CallerTimes :
        \E row \in args.merkle_root :
            claim(id, Journal(jid, args.merkle_root, row.bucket_id, h_null(row.salt), dest), now)

ClaimPrivate ==
    \E id \in AirdropIds, dest \in Commitments, now \in CallerTimes :
        \E row \in CommittedRows(id) :
            claim_private(id, row.bucket_id, h_null(row.salt), dest, row.address, row.salt, now)

ClaimPpe ==
    \E id \in AirdropIds, dest \in Wallets, now \in CallerTimes :
        \E row \in CommittedRows(id) :
            claim_ppe(id, row.bucket_id, h_null(row.salt), dest, row.address, row.salt, now)

Close == \E id \in AirdropIds, s \in Wallets : close(id, s)

Transfer == \E id \in AirdropIds, from \in Wallets, a \in Amounts : transfer(from, id, a)

Touch ==
    \E from \in Wallets, a \in Amounts :
        \/ \E to \in Wallets : touch_recipient(from, to, a)
        \/ \E id \in AirdropIds, n \in Nullifiers : touch_record(from, id, n, a)

Next ==
    \/ InitAirdrop
    \/ Fund
    \/ Claim
    \/ ClaimPrivate
    \/ ClaimPpe
    \/ Close
    \/ Transfer
    \/ Touch
    \/ Tick

Spec == Init /\ [][Next]_vars

-----------------------------------------------------------------------------
(* Invariants. *)

\* Types and ranges.  In particular no u64 total ever leaves its width.
TypeOK ==
    /\ airdrop \in [AirdropIds -> AirdropState \cup {Default}]
    /\ vault \in [AirdropIds -> NativeAccount]
    /\ nullifier_record \in
         [AirdropIds -> [Nullifiers -> [claimed: BOOLEAN, balance: Nat]]]
    /\ wallet \in [Wallets -> NativeAccount]
    /\ clock \in 0 .. MaxClock

Active(id) == airdrop[id] # Default /\ airdrop[id].status = "active"

\* While an airdrop is active its vault holds everything funded and not yet
\* claimed, whatever mix of deposits, fundings and claims led there: the
\* second half of the E_VAULT_INSUFFICIENT check never refuses a claim the
\* first half admits.
Solvent ==
    \A id \in AirdropIds : Active(id) =>
        /\ airdrop[id].total_claimed <= airdrop[id].total_funded
        /\ airdrop[id].total_funded - airdrop[id].total_claimed <= vault[id].balance

\* Every unit the airdrops count as claimed was credited to a payout account and
\* is still there: the record of a spent nullifier or a recipient the program
\* created.  More may have been sent there natively, and a remainder swept.
ClaimedIsPaidOut ==
    LET claimed == [id \in AirdropIds |->
                      IF airdrop[id] = Default THEN 0 ELSE airdrop[id].total_claimed]
        recorded == [r \in AirdropIds \X Nullifiers |->
                       IF nullifier_record[r[1]][r[2]].claimed
                       THEN nullifier_record[r[1]][r[2]].balance ELSE 0]
        received == [w \in Wallets |->
                       IF wallet[w].owner = "program" /\ InitialWallet[w].owner # "program"
                       THEN wallet[w].balance ELSE 0]
    IN  SumFunction(claimed) <= SumFunction(recorded) + SumFunction(received)

\* No instruction creates or destroys money, so none of the three credits of a
\* claim is made twice and no remainder is dropped on its way to the recovery:
\* vaults, nullifier records and wallets together hold what the wallets held first.
MoneyConserved ==
    LET vaults == [id \in AirdropIds |-> vault[id].balance]
        records == [r \in AirdropIds \X Nullifiers |-> nullifier_record[r[1]][r[2]].balance]
        wallets == [w \in Wallets |-> wallet[w].balance]
        initially == [w \in Wallets |-> InitialWallet[w].balance]
    IN  SumFunction(vaults) + SumFunction(records) + SumFunction(wallets) = SumFunction(initially)

\* Nothing but the rules stands between a holder and a payout: a row of an
\* open, unexpired airdrop, whose record is untouched, signed for a destination
\* and covered by the unclaimed budget, is accepted by each claim instruction,
\* whatever happened to other rows and other airdrops.
EligibleRowIsClaimable ==
    \A id \in AirdropIds, dest \in Wallets :
        \A row \in CommittedRows(id) :
            LET n == h_null(row.salt)
                amount == BucketAmount(id, row.bucket_id)
            IN  \A now \in CallerTimes :
                  /\ Active(id)
                  /\ now < airdrop[id].expiry_unix
                  /\ with_claim_expiry(airdrop[id].expiry_unix)
                  /\ row.bucket_id < Len(airdrop[id].bucket_table)
                  /\ nullifier_record[id][n] = UntouchedRecord
                  /\ <<row.address, id, dest>> \in Signatures
                  /\ amount <= airdrop[id].total_funded - airdrop[id].total_claimed
                  => /\ claim_checks(id, Journal(id, airdrop[id].merkle_root,
                                               row.bucket_id, n, dest), now)
                     /\ claim_private_checks(id, row.bucket_id, n, dest,
                                             row.address, row.salt, now)
                     /\ NewAccount(dest) =>
                            claim_ppe_checks(id, row.bucket_id, n, dest,
                                             row.address, row.salt, now)

-----------------------------------------------------------------------------
(* Action properties. *)

\* A spent nullifier stays spent, and what its record holds stays there: none of
\* the three claim instructions, no close and no funding touches the record again,
\* only a native transfer may add to it.
SpentForever ==
    [][\A id \in AirdropIds, n \in Nullifiers :
         LET record == nullifier_record[id][n] IN
         record.claimed =>
             /\ nullifier_record'[id][n].claimed
             /\ nullifier_record'[id][n].balance >= record.balance
             /\ nullifier_record'[id][n] # record => UNCHANGED <<airdrop, vault>>]_vars

\* Nothing is paid in a block stamped at or after the expiry, whatever time
\* the claimant states.
NoPayoutAfterExpiry ==
    [][\A id \in AirdropIds, n \in Nullifiers :
         nullifier_record'[id][n].claimed # nullifier_record[id][n].claimed =>
             clock < airdrop[id].expiry_unix * MillisPerSecond]_vars

\* Closing is final: a closed airdrop's record never changes, so no funding and
\* no claim follows a close.
ClosedIsFinal ==
    [][\A id \in AirdropIds :
         (airdrop[id] # Default /\ ~ Active(id)) => airdrop'[id] = airdrop[id]]_vars

\* Money leaves a vault in two ways only: as the amount of one bucket, counted
\* as claimed, or all of it, to the recovery address fixed at init.
VaultOutflow ==
    [][\A id \in AirdropIds : vault'[id].balance < vault[id].balance =>
         LET out == vault[id].balance - vault'[id].balance
             a == airdrop[id]
         IN  \/ /\ airdrop'[id].total_claimed = a.total_claimed + out
                /\ \E i \in DOMAIN a.bucket_table : a.bucket_table[i] = out
             \/ /\ vault'[id].balance = 0
                /\ airdrop'[id].status = "closed"
                /\ wallet'[a.recovery_address].balance =
                       wallet[a.recovery_address].balance + out]_vars

-----------------------------------------------------------------------------
(* What stays possible. *)

\* An airdrop with a recovery account that close can pay to.
Recoverable(id) ==
    /\ airdrop[id] # Default
    /\ airdrop[id].recovery_address # airdrop[id].distributor
    /\ wallet[airdrop[id].recovery_address].owner # "default"

StaysOpen(id) == [](Recoverable(id) => []close_checks(id, airdrop[id].distributor))

\* Once the recovery account of an airdrop has an owner and is not the distributor,
\* the distributor's close passes its checks from then on: after the expiry, after
\* a first close, after fundings and deposits that came late, after an expiry whose
\* milliseconds overflow, whatever is claimed or sent anywhere in between.
RecoveryStaysOpen == \A id \in AirdropIds : StaysOpen(id)

-----------------------------------------------------------------------------
(* Refinement: the program keeps the promise of AllowlistAirdrop. *)

ClaimDeadline(args) ==
    IF args.expiry_unix >= 0 /\ args.expiry_unix * MillisPerSecond <= U64Max
    THEN args.expiry_unix * MillisPerSecond
    ELSE 0

OfferOf(args) ==
    [rows |-> {[holder |-> row.address, amount |-> args.bucket_table[row.bucket_id + 1],
                ticket |-> h_null(row.salt)] :
                  row \in {r \in args.merkle_root : r.bucket_id < Len(args.bucket_table)}},
     deadline |-> ClaimDeadline(args)]

PhaseOf(id) ==
    IF airdrop[id] = Default THEN "none" ELSE IF Active(id) THEN "open" ELSE "closed"

Promise == INSTANCE AllowlistAirdrop WITH
    Airdrops <- AirdropIds,
    Destinations <- Wallets,
    Approvals <- Signatures,
    Offers <- {OfferOf(args) : args \in InitArgs},
    phase <- [id \in AirdropIds |-> PhaseOf(id)],
    offer <- [id \in AirdropIds |-> IF airdrop[id] = Default
                                    THEN [rows |-> {}, deadline |-> 0]
                                    ELSE OfferOf(airdrop[id])],
    spent <- [id \in AirdropIds |-> {n \in Nullifiers : nullifier_record[id][n].claimed}],
    pool <- [id \in AirdropIds |-> vault[id].balance],
    budget <- [id \in AirdropIds |->
                 IF Active(id) THEN airdrop[id].total_funded - airdrop[id].total_claimed ELSE 0],
    time <- clock

\* Every behaviour of the program is one AllowlistAirdrop allows: a committed
\* row is paid at most once, in time, as its holder signed, out of the budget.
KeepsPromise == Promise!Spec

=============================================================================
