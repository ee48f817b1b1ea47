----------------------------- MODULE Eligibility -----------------------------
(***************************************************************************)
(* From a list of recipients to a checked claim: the list file (parse_csv,   *)
(* pad-csv), the Merkle tree and the encrypted bundle init builds from it    *)
(* (distributionx-tree, distributionx-client), and what prove and            *)
(* check-eligibility do with a bundle and a claim key                        *)
(* (prepare_checked_claim), down to the circuit's constraints and the        *)
(* library copy of the program (processor/validator.rs).                     *)
(*                                                                         *)
(* Hashes are symbolic and injective; a row can be decrypted with one X25519 *)
(* key in one context; a signature names its signer and its message.  Salts  *)
(* are random, so every build draws new ones and every airdrop id, a hash    *)
(* over the root, is new: the number of the build stands for it.  Lists with *)
(* lines that do not parse, and inputs that cannot be read, are left out:    *)
(* every command refuses them at once.                                       *)
(***************************************************************************)
EXTENDS Integers, SequencesExt

CONSTANTS
    Addresses,      \* 32-byte strings lists contain
    x25519,         \* ed25519_public_to_x25519, on the addresses it accepts
    Wallets,        \* the addresses of claim keys
    Decoys,         \* SHA256(label || index), for the indices 0, 1, ...
    Lines,          \* lines a distributor types: address and raw_amount
    Floors,         \* values of --min-per-bucket
    Funds,          \* amounts funded at once
    Destinations,   \* claim destination commitments
    TREE_DEPTH,     \* 20
    MaxBuckets,     \* 32
    MaxPopulation,  \* 50 000
    MaxTyped,       \* bounds on the lines typed, the bundles built and
    MaxBuilds,      \*   the fundings, for model checking
    MaxFunded

VARIABLES
    csv,            \* the list file
    built,          \* bundles built so far
    bundles,        \* every bundle.json there ever was
    states,         \* the local state of each airdrop
    lists,          \* history: the list each airdrop was made from
    paid            \* history: the keys paid, in order

eligibilityVars == <<csv, built, bundles, states, lists, paid>>

\* Leaves under a node.
Capacity[level \in 0 .. TREE_DEPTH] == IF level = 0 THEN 1 ELSE 2 * Capacity[level - 1]

\* The k-th smallest number of a set.
Nth(S, k) == CHOOSE x \in S : Cardinality({y \in S : y < x}) = k - 1

Rows(list) == DOMAIN list
AddressesIn(list) == {list[i].address : i \in Rows(list)}
AmountsIn(list) == {list[i].raw_amount : i \in Rows(list)}

ASSUME EligibilityAssumption ==
    /\ DOMAIN x25519 \subseteq Addresses /\ Wallets \subseteq DOMAIN x25519
    /\ Decoys \in Seq(Addresses)
    /\ Lines \subseteq [address: Addresses, raw_amount: Nat]
    /\ Floors \subseteq Nat /\ Funds \subseteq Nat
    /\ {TREE_DEPTH, MaxBuckets, MaxTyped, MaxBuilds, MaxFunded} \subseteq Nat
    /\ MaxPopulation \in 0 .. Capacity[TREE_DEPTH]

EligibilityInit ==
    /\ csv = <<>>
    /\ built = 0 /\ bundles = {}
    /\ states = << >> /\ lists = << >> /\ paid = << >>

-----------------------------------------------------------------------------
(* The list.                                                                *)

\* The lists parse_csv accepts.
parse_csv(list) ==
    /\ IsInjective([i \in Rows(list) |-> list[i].address])
    /\ Len(list) <= MaxPopulation
    /\ Cardinality(AmountsIn(list)) <= MaxBuckets

bucket_table(list) ==
    [b \in 1 .. Cardinality(AmountsIn(list)) |-> Nth(AmountsIn(list), b)]

\* Positions count from 0.
bucket_id(list, i) ==
    Cardinality({amount \in AmountsIn(list) : amount < list[i].raw_amount})

population(list, amount) == Cardinality({i \in Rows(list) : list[i].raw_amount = amount})

\* Faulty variant: one decoy too few.
Gaps_OffByOne(list, floor) ==
    FlattenSeq([b \in DOMAIN bucket_table(list) |->
      [k \in 1 .. floor - population(list, bucket_table(list)[b]) - 1 |->
         bucket_table(list)[b]]])

\* The amounts of the decoys a list needs, bucket by bucket.
Gaps(list, floor) ==
    FlattenSeq([b \in DOMAIN bucket_table(list) |->
      [k \in 1 .. floor - population(list, bucket_table(list)[b]) |->
         bucket_table(list)[b]]])

\* Those on the list or drawn before are passed over.
FreshDecoys(list) ==
    LET fresh == {i \in DOMAIN Decoys : /\ Decoys[i] \notin AddressesIn(list)
                                       /\ \A j \in 1 .. i - 1 : Decoys[j] # Decoys[i]}
    IN [k \in 1 .. Cardinality(fresh) |-> Decoys[Nth(fresh, k)]]

padded(list, floor) ==
    list \o [i \in DOMAIN Gaps(list, floor) |->
               [address |-> FreshDecoys(list)[i], raw_amount |-> Gaps(list, floor)[i]]]

EnoughDecoys(list, floor) == Len(Gaps(list, floor)) <= Len(FreshDecoys(list))

-----------------------------------------------------------------------------
(* The tree.                                                                *)

h_leaf(address, bucket, salt) == <<"leaf", address, bucket, salt>>
h_node(left, right) == <<"node", left, right>>
h_empty == <<"empty">>
h_null(salt) == <<"null", salt>>

\* The levels, leaves first; indices count from 0.
from_leaves(leaves) ==
    LET level[d \in 0 .. TREE_DEPTH] ==
          [i \in 0 .. Capacity[TREE_DEPTH - d] - 1 |->
             IF d > 0 THEN h_node(level[d - 1][2 * i], level[d - 1][2 * i + 1])
             ELSE IF i < Len(leaves) THEN leaves[i + 1] ELSE h_empty]
    IN level

\* Faulty variant: the side of the leaf is taken at every level.
path_LeafSide(tree, index) ==
    [level \in 1 .. TREE_DEPTH |->
       LET idx == index \div Capacity[level - 1] IN
       [sibling |-> tree[level - 1][IF idx % 2 = 0 THEN idx + 1 ELSE idx - 1],
        is_right |-> index % 2 = 1]]

path(tree, index) ==
    [level \in 1 .. TREE_DEPTH |->
       LET idx == index \div Capacity[level - 1] IN
       [sibling |-> tree[level - 1][IF idx % 2 = 0 THEN idx + 1 ELSE idx - 1],
        is_right |-> idx % 2 = 1]]

-----------------------------------------------------------------------------
(* The bundle.                                                              *)

\* init builds a bundle only for addresses a row can be encrypted to.
Buildable(list) == parse_csv(list) /\ AddressesIn(list) \subseteq DOMAIN x25519

RowPlaintext(list, tree, id, i) ==
    [address |-> list[i].address, bucket_id |-> bucket_id(list, i), salt |-> <<id, i>>,
     merkle_path |-> path(tree, i - 1)]

\* Faulty variant: the airdrop id is that of the next nonce.
build_bundle_NextId(list, id) ==
    LET tree == from_leaves([i \in Rows(list) |->
                  h_leaf(list[i].address, bucket_id(list, i), <<id, i>>)])
    IN [airdrop_id |-> id + 1, merkle_root |-> tree[TREE_DEPTH][0],
        bucket_table_hash |-> bucket_table(list), encrypted_rows |-> <<>>]

build_bundle(list, id) ==
    LET tree == from_leaves([i \in Rows(list) |->
                  h_leaf(list[i].address, bucket_id(list, i), <<id, i>>)])
        context == <<id, tree[TREE_DEPTH][0], bucket_table(list)>>
    IN [airdrop_id |-> id, merkle_root |-> tree[TREE_DEPTH][0],
        bucket_table_hash |-> bucket_table(list),
        encrypted_rows |-> [i \in Rows(list) |->
          [recipient |-> x25519[list[i].address], context |-> context,
           plain |-> RowPlaintext(list, tree, id, i)]]]

decrypts(key, bundle, i) ==
    LET row == bundle.encrypted_rows[i] IN
    /\ row.recipient = x25519[key]
    /\ row.context = <<bundle.airdrop_id, bundle.merkle_root, bundle.bucket_table_hash>>

-----------------------------------------------------------------------------
(* The claim.                                                               *)

sign_claim(key, airdrop_id, destination) == <<key, airdrop_id, destination>>

\* The root a witness leads to.
Fold(leaf, nodes) ==
    LET cur[k \in 0 .. Len(nodes)] ==
          IF k = 0 THEN leaf
          ELSE IF nodes[k].is_right THEN h_node(nodes[k].sibling, cur[k - 1])
          ELSE h_node(cur[k - 1], nodes[k].sibling)
    IN cur[Len(nodes)]

\* Faulty variant: the leaf does not bind the bucket.
verify_claim_constraints_FreeBucket(journal, witness) ==
    /\ witness.claim_sig = sign_claim(witness.address, journal.airdrop_id,
                                      journal.claim_destination_commitment)
    /\ Len(witness.merkle_path) = TREE_DEPTH
    /\ \E bucket \in 0 .. MaxBuckets :
         Fold(h_leaf(witness.address, bucket, witness.salt), witness.merkle_path)
           = journal.merkle_root
    /\ h_null(witness.salt) = journal.nullifier

verify_claim_constraints(journal, witness) ==
    /\ witness.claim_sig = sign_claim(witness.address, journal.airdrop_id,
                                      journal.claim_destination_commitment)
    /\ Len(witness.merkle_path) = TREE_DEPTH
    /\ Fold(h_leaf(witness.address, journal.bucket_id, witness.salt), witness.merkle_path)
         = journal.merkle_root
    /\ h_null(witness.salt) = journal.nullifier

ClaimJournal(bundle, plain, destination) ==
    [airdrop_id |-> bundle.airdrop_id, merkle_root |-> bundle.merkle_root,
     bucket_id |-> plain.bucket_id, nullifier |-> h_null(plain.salt),
     claim_destination_commitment |-> destination]

ClaimWitness(key, bundle, plain, destination) ==
    [address |-> plain.address, salt |-> plain.salt,
     claim_sig |-> sign_claim(key, bundle.airdrop_id, destination),
     merkle_path |-> plain.merkle_path]

Budget(state) == state.total_funded - state.total_claimed

\* Faulty variant: the budget has to exceed the amount.
Covers_KeepsOne(balance, amount) == balance > amount

Covers(balance, amount) == balance >= amount

\* validator.rs claim, once the ids and nullifiers agree.
program_claim(state, journal) ==
    IF state.status # 0 THEN "E_PROGRAM_1"
    ELSE IF journal.merkle_root # state.merkle_root THEN "E_PROGRAM_3"
    ELSE IF journal.bucket_id >= Len(state.bucket_table) THEN "E_PROGRAM_4"
    ELSE IF ~Covers(Budget(state), state.bucket_table[journal.bucket_id + 1]) THEN "E_PROGRAM_7"
    ELSE "OK"

\* Faulty variant: a claim already recorded is not looked for.
pre_prove_rejection_code_Repeats(state, journal) ==
    IF journal.airdrop_id # state.airdrop_id THEN "E_AIRDROP_ID_MISMATCH" ELSE "none"

pre_prove_rejection_code(state, journal) ==
    IF journal.airdrop_id # state.airdrop_id THEN "E_AIRDROP_ID_MISMATCH"
    ELSE IF journal.nullifier \in state.nullifiers THEN "E_ALREADY_CLAIMED" ELSE "none"

\* What the commands that prepare a claim find out about it.
prepare_checked_claim(state, bundle, key, destination) ==
    LET found == {i \in Rows(bundle.encrypted_rows) : decrypts(key, bundle, i)} IN
    IF Cardinality(found) # 1 THEN [code |-> "E_WALLET_NOT_ELIGIBLE"]
    ELSE
    LET plain == bundle.encrypted_rows[CHOOSE i \in found : TRUE].plain
        journal == ClaimJournal(bundle, plain, destination)
        rejection == pre_prove_rejection_code(state, journal)
    IN IF ~verify_claim_constraints(journal, ClaimWitness(key, bundle, plain, destination))
         THEN [code |-> "E_CLAIM_PREPARE_FAILED"]
       ELSE IF rejection # "none" THEN [code |-> rejection]
       ELSE IF program_claim(state, journal) # "OK" THEN [code |-> program_claim(state, journal)]
       ELSE [code |-> "OK", journal |-> journal,
             amount |-> state.bucket_table[plain.bucket_id + 1]]

-----------------------------------------------------------------------------
(* Operations.                                                              *)

\* Nothing would come of a list typed after the last build.
type(line) ==
    /\ Len(csv) < MaxTyped /\ built < MaxBuilds
    /\ csv' = Append(csv, line)
    /\ UNCHANGED <<built, bundles, states, lists, paid>>

\* pad-csv writes a new list; it does not ask parse_csv.
pad_csv(floor) ==
    /\ EnoughDecoys(csv, floor)
    /\ csv' = padded(csv, floor)
    /\ UNCHANGED <<built, bundles, states, lists, paid>>

\* The program's checks that depend on the list.
init_airdrop(table) == table # <<>> /\ Len(table) <= MaxBuckets /\ ~Contains(table, 0)

\* The bundle is written whether or not the program accepts the airdrop.
init ==
    LET id == built + 1
        bundle == build_bundle(csv, id)
        put(f, value) == [i \in DOMAIN f \cup {id} |-> IF i = id THEN value ELSE f[i]]
    IN /\ built < MaxBuilds
       /\ Buildable(csv)
       /\ built' = id /\ bundles' = bundles \cup {bundle}
       /\ IF init_airdrop(bucket_table(csv))
            THEN /\ states' = put(states, [airdrop_id |-> id, merkle_root |-> bundle.merkle_root,
                                           bucket_table |-> bucket_table(csv),
                                           total_funded |-> 0, total_claimed |-> 0,
                                           status |-> 0, nullifiers |-> {}])
                 /\ lists' = put(lists, csv)
                 /\ paid' = put(paid, <<>>)
            ELSE UNCHANGED <<states, lists, paid>>
       /\ csv' = <<>>

fund(id, amount) ==
    /\ states[id].total_funded + amount <= MaxFunded
    /\ states' = [states EXCEPT ![id].total_funded = @ + amount]
    /\ UNCHANGED <<csv, built, bundles, lists, paid>>

close(id) ==
    /\ states[id].status = 0
    /\ states' = [states EXCEPT ![id].status = 1]
    /\ UNCHANGED <<csv, built, bundles, lists, paid>>

\* prove and claim, with whatever bundle the claimant has.
claim(id, bundle, key, destination) ==
    LET checked == prepare_checked_claim(states[id], bundle, key, destination) IN
    /\ checked.code = "OK"
    /\ states' = [states EXCEPT ![id].total_claimed = @ + checked.amount,
                                ![id].nullifiers = @ \cup {checked.journal.nullifier}]
    /\ paid' = [paid EXCEPT ![id] = Append(@, key)]
    /\ UNCHANGED <<csv, built, bundles, lists>>

EligibilityNext ==
    \/ \E line \in Lines : type(line)
    \/ \E floor \in Floors : pad_csv(floor)
    \/ init
    \/ \E id \in DOMAIN states :
         \/ \E amount \in Funds : fund(id, amount)
         \/ close(id)
         \/ \E bundle \in bundles, key \in Wallets, destination \in Destinations :
              claim(id, bundle, key, destination)

EligibilitySpec == EligibilityInit /\ [][EligibilityNext]_eligibilityVars

-----------------------------------------------------------------------------
(* Properties.                                                              *)

EligibilityTypeOK ==
    /\ csv \in Seq([address: Addresses, raw_amount: Nat])
    /\ DOMAIN states = DOMAIN lists /\ DOMAIN paid = DOMAIN lists
    /\ \A id \in DOMAIN states : states[id].airdrop_id = id /\ states[id].status \in {0, 1}
    /\ \A bundle \in bundles : bundle.airdrop_id \in 1 .. built

\* The rows of the list of an airdrop that reach a key.  The conversion forgets
\* a sign, so a key and its negative share their rows.
Reach(id, key) == {i \in Rows(lists[id]) : x25519[lists[id][i].address] = x25519[key]}

\* The key is on the list, and no other row reaches it.
Recipient(id, key) == \E i \in Rows(lists[id]) : lists[id][i].address = key /\ Reach(id, key) = {i}

Due(id, key) == lists[id][CHOOSE i \in Rows(lists[id]) : lists[id][i].address = key].raw_amount

Claimed(id, key) == Contains(paid[id], key)

\* Eligibility is decided by the list: through the tree, the encryption, the
\* circuit and the local state, a key is eligible exactly if it is a recipient on
\* the list, with the bundle of that airdrop, not paid yet, with enough left in an
\* open airdrop, and then for the amount in its line; and it is told it has
\* claimed exactly if it has (check_eligibility, prepare_checked_claim).
CheckIsExact ==
    \A id \in DOMAIN states, bundle \in bundles, key \in Wallets, destination \in Destinations :
      LET checked == prepare_checked_claim(states[id], bundle, key, destination)
          addressed == bundle.airdrop_id = id /\ Recipient(id, key)
      IN /\ checked.code = "OK" <=>
              /\ addressed /\ ~Claimed(id, key)
              /\ states[id].status = 0 /\ Due(id, key) <= Budget(states[id])
         /\ checked.code = "OK" => checked.amount = Due(id, key)
         /\ checked.code = "E_ALREADY_CLAIMED" <=> addressed /\ Claimed(id, key)

\* What a claimant could put together from the rows of all bundles: the address
\* of one row, the bucket of another, the salt of a third, the path of a fourth.
Mixtures ==
    LET plains == UNION {{bundle.encrypted_rows[i].plain : i \in Rows(bundle.encrypted_rows)} :
                           bundle \in bundles}
    IN {[address |-> of.address, bucket_id |-> bucket.bucket_id, salt |-> salt.salt,
         merkle_path |-> way.merkle_path] : of, bucket, salt, way \in plains}

\* No mixture of rows makes a claim that is not a row of the tree
\* (verify_claim_constraints).
NoMixtureProves ==
    \A bundle \in bundles, mixed \in Mixtures, destination \in Destinations :
      verify_claim_constraints(ClaimJournal(bundle, mixed, destination),
                               ClaimWitness(mixed.address, bundle, mixed, destination))
      => \E i \in Rows(bundle.encrypted_rows) :
           LET plain == bundle.encrypted_rows[i].plain IN
           plain.address = mixed.address /\ plain.bucket_id = mixed.bucket_id
             /\ plain.salt = mixed.salt

\* Nobody is paid twice, and what the local state counts as claimed is what the
\* lines of those paid say, never more than was funded (claim, to_airdrop).
PaidByTheList ==
    \A id \in DOMAIN states :
      /\ IsInjective(paid[id])
      /\ states[id].total_claimed =
           SumFunction([n \in DOMAIN paid[id] |-> Due(id, paid[id][n])])
      /\ states[id].total_claimed <= states[id].total_funded

\* An airdrop funded with the sum of its list never runs dry: every recipient who
\* has not claimed can still be paid, whoever claimed before.
FullyFundedPaysAll ==
    \A id \in DOMAIN states, bundle \in bundles, key \in Wallets, destination \in Destinations :
      /\ bundle.airdrop_id = id /\ Recipient(id, key) /\ ~Claimed(id, key)
      /\ states[id].status = 0
      /\ states[id].total_funded >=
           SumFunction([i \in Rows(lists[id]) |-> lists[id][i].raw_amount])
      => prepare_checked_claim(states[id], bundle, key, destination).code = "OK"

\* pad-csv keeps every line, repeats no address and leaves no bucket below the
\* floor, so a list that parses and stays within the cap still parses.
PaddingReachesFloor ==
    \A floor \in Floors : EnoughDecoys(csv, floor) =>
      LET list == padded(csv, floor) IN
      /\ IsPrefix(csv, list)
      /\ \A amount \in AmountsIn(list) : population(list, amount) >= floor
      /\ parse_csv(csv) /\ Len(list) <= MaxPopulation => parse_csv(list)

\* A list that can be distributed can still be distributed after pad-csv.
PaddedIsBuildable ==
    \A floor \in Floors :
      Buildable(csv) /\ EnoughDecoys(csv, floor) /\ Len(padded(csv, floor)) <= MaxPopulation
        => Buildable(padded(csv, floor))
=============================================================================
