-------------------- MODULE DistributionXProgram_proofs ---------------------
(***************************************************************************)
(* Theorems about the on-chain program, for every value of its constants.  *)
(* The inductive invariant is TypeOK /\ Solvent: a claim keeps totals      *)
(* within a u64 only because what is claimed never exceeds what is funded. *)
(* The last two parts are the custody of the claimed money, a comparison of *)
(* sums, and the refinement of AllowlistAirdrop.                           *)
(***************************************************************************)
EXTENDS DistributionXProgram, Sums, SequenceTheorems

LEMMA InitEstablishesInv == Init => TypeOK /\ Solvent
  <1> SUFFICES ASSUME Init PROVE TypeOK /\ Solvent
    OBVIOUS
  <1>1. TypeOK
    BY ConstantsAssumption
       DEF Init, TypeOK, NativeAccount, Owners, Untouched, UntouchedRecord
  <1>2. Solvent
    BY DEF Init, Solvent, Active
  <1> QED BY <1>1, <1>2

\* What the three claim instructions have in common, as far as money goes.
ClaimStep(id, nullifier, amount, credit) ==
    /\ id \in AirdropIds
    /\ nullifier \in Nullifiers
    /\ amount \in Nat
    /\ credit \in Nat
    /\ NullifierUnused(id, nullifier)
    /\ Active(id)
    /\ VaultCovers(id, amount)
    /\ with_claim_expiry(airdrop[id].expiry_unix)
    /\ \E i \in DOMAIN airdrop[id].bucket_table : airdrop[id].bucket_table[i] = amount
    /\ Debit(id, amount)
    /\ SpendNullifier(id, nullifier, credit)
    /\ \/ /\ wallet' = wallet
          /\ credit = amount
       \/ \E dest \in Wallets :
            /\ wallet[dest] = Untouched
            /\ wallet' = [wallet EXCEPT ![dest] = [owner |-> "program", balance |-> amount]]
            /\ credit = 0
    /\ clock' = clock

LEMMA BucketAmountInTable ==
    ASSUME TypeOK, NEW id \in AirdropIds, airdrop[id] # Default,
           NEW b \in Nat, b < Len(airdrop[id].bucket_table)
    PROVE  /\ b + 1 \in DOMAIN airdrop[id].bucket_table
           /\ BucketAmount(id, b) \in 0 .. U64Max
  <1>1. airdrop[id] \in AirdropState
    BY DEF TypeOK
  <1>2. airdrop[id].bucket_table \in Seq(0 .. U64Max)
    BY <1>1 DEF AirdropState
  <1> DEFINE table == airdrop[id].bucket_table
  <1>3. table \in Seq(0 .. U64Max) /\ b < Len(table)
    BY <1>2
  <1>4. b + 1 \in DOMAIN table /\ table[b + 1] \in 0 .. U64Max
    <2> HIDE DEF table
    <2>1. Len(table) \in Nat /\ DOMAIN table = 1 .. Len(table)
      BY <1>3, LenProperties
    <2>2. b + 1 \in 1 .. Len(table)
      BY <1>3, <2>1
    <2> QED BY <1>3, <2>1, <2>2, ElementOfSeq
  <1> QED
    BY <1>4 DEF BucketAmount

LEMMA RowsTyped ==
    /\ \A args \in InitArgs : args.merkle_root \subseteq Rows
    /\ \A row \in Rows : /\ row.bucket_id \in Nat
                         /\ h_null(row.salt) \in Nullifiers
  BY ConstantsAssumption DEF InitArg, Rows, Nullifiers

LEMMA ClaimIsClaimStep ==
    ASSUME TypeOK, Claim
    PROVE  \E id, n, amount, credit : ClaimStep(id, n, amount, credit)
  <1>1. PICK id \in AirdropIds, jid \in AirdropIds, args \in InitArgs,
             dest \in Commitments, now \in CallerTimes :
          \E row \in args.merkle_root :
            claim(id, Journal(jid, args.merkle_root, row.bucket_id, h_null(row.salt), dest), now)
    BY DEF Claim
  <1>2. PICK row \in args.merkle_root :
          claim(id, Journal(jid, args.merkle_root, row.bucket_id, h_null(row.salt), dest), now)
    BY <1>1
  <1> DEFINE n == h_null(row.salt)
             amount == BucketAmount(id, row.bucket_id)
  <1>3. row.bucket_id \in Nat /\ n \in Nullifiers
    BY RowsTyped
  <1>4. Active(id) /\ row.bucket_id < Len(airdrop[id].bucket_table)
    BY <1>2 DEF claim, ensure_active, Active, Journal, claim_checks
  <1>5. amount \in 0 .. U64Max /\ row.bucket_id + 1 \in DOMAIN airdrop[id].bucket_table
    BY <1>3, <1>4, BucketAmountInTable DEF Active
  <1>6. ClaimStep(id, n, amount, amount)
    BY <1>2, <1>3, <1>4, <1>5, ConstantsAssumption
       DEF claim, ClaimStep, Journal, BucketAmount, claim_checks
  <1> QED BY <1>6

LEMMA ClaimPrivateIsClaimStep ==
    ASSUME TypeOK, ClaimPrivate
    PROVE  \E id, n, amount, credit : ClaimStep(id, n, amount, credit)
  <1>1. PICK id \in AirdropIds, dest \in Commitments, now \in CallerTimes :
          \E row \in CommittedRows(id) :
            claim_private(id, row.bucket_id, h_null(row.salt), dest, row.address, row.salt, now)
    BY DEF ClaimPrivate
  <1>2. PICK row \in CommittedRows(id) :
            claim_private(id, row.bucket_id, h_null(row.salt), dest, row.address, row.salt, now)
    BY <1>1
  <1> DEFINE n == h_null(row.salt)
             amount == BucketAmount(id, row.bucket_id)
  <1>3. Active(id) /\ row.bucket_id < Len(airdrop[id].bucket_table)
    BY <1>2 DEF claim_private, ensure_active, Active, claim_private_checks, witness_checks
  <1>4. row \in Rows
    BY <1>3 DEF CommittedRows, TypeOK, AirdropState, Active
  <1>5. row.bucket_id \in Nat /\ n \in Nullifiers
    BY <1>4, RowsTyped
  <1>6. amount \in 0 .. U64Max /\ row.bucket_id + 1 \in DOMAIN airdrop[id].bucket_table
    BY <1>3, <1>5, BucketAmountInTable DEF Active
  <1>7. ClaimStep(id, n, amount, amount)
    BY <1>2, <1>3, <1>5, <1>6, ConstantsAssumption
       DEF claim_private, ClaimStep, BucketAmount, claim_private_checks, witness_checks
  <1> QED BY <1>7

LEMMA ClaimPpeIsClaimStep ==
    ASSUME TypeOK, ClaimPpe
    PROVE  \E id, n, amount, credit : ClaimStep(id, n, amount, credit)
  <1>1. PICK id \in AirdropIds, dest \in Wallets, now \in CallerTimes :
          \E row \in CommittedRows(id) :
            claim_ppe(id, row.bucket_id, h_null(row.salt), dest, row.address, row.salt, now)
    BY DEF ClaimPpe
  <1>2. PICK row \in CommittedRows(id) :
            claim_ppe(id, row.bucket_id, h_null(row.salt), dest, row.address, row.salt, now)
    BY <1>1
  <1> DEFINE n == h_null(row.salt)
             amount == BucketAmount(id, row.bucket_id)
  <1>3. Active(id) /\ row.bucket_id < Len(airdrop[id].bucket_table)
    BY <1>2 DEF claim_ppe, ensure_active, Active, claim_ppe_checks, witness_checks
  <1>4. row \in Rows
    BY <1>3 DEF CommittedRows, TypeOK, AirdropState, Active
  <1>5. row.bucket_id \in Nat /\ n \in Nullifiers
    BY <1>4, RowsTyped
  <1>6. amount \in 0 .. U64Max /\ row.bucket_id + 1 \in DOMAIN airdrop[id].bucket_table
    BY <1>3, <1>5, BucketAmountInTable DEF Active
  <1>7. /\ NullifierUnused(id, n)
        /\ VaultCovers(id, amount)
        /\ with_claim_expiry(airdrop[id].expiry_unix)
        /\ Debit(id, amount)
        /\ SpendNullifier(id, n, 0)
        /\ wallet[dest] = Untouched
        /\ wallet' = [wallet EXCEPT ![dest] = [owner |-> "program", balance |-> amount]]
        /\ clock' = clock
    BY <1>2 DEF claim_ppe, claim_ppe_checks, witness_checks, NewAccount
  <1>8. \E i \in DOMAIN airdrop[id].bucket_table : airdrop[id].bucket_table[i] = amount
    BY <1>6 DEF BucketAmount
  <1>9. amount \in Nat
    BY <1>6, ConstantsAssumption
  <1> HIDE DEF n, amount
  <1>10. ClaimStep(id, n, amount, 0)
    BY <1>3, <1>5, <1>7, <1>8, <1>9 DEF ClaimStep
  <1> QED BY <1>10

-----------------------------------------------------------------------------
(* One lemma per instruction: it preserves TypeOK /\ Solvent. *)

LEMMA ClaimStepPreservesInv ==
    ASSUME TypeOK, Solvent,
           NEW id, NEW n, NEW amount, NEW credit, ClaimStep(id, n, amount, credit)
    PROVE  TypeOK' /\ Solvent'
  <1> USE DEF ClaimStep, Debit
  <1>1. id \in AirdropIds /\ airdrop[id] \in AirdropState
    BY DEF TypeOK, Active
  <1>2. /\ airdrop[id].total_claimed \in 0 .. U64Max
        /\ airdrop[id].total_funded \in 0 .. U64Max
        /\ vault[id] \in NativeAccount
        /\ U64Max \in Nat
    BY <1>1, ConstantsAssumption DEF TypeOK, AirdropState
  <1>3. /\ airdrop[id].total_claimed + amount \in 0 .. U64Max
        /\ airdrop[id].total_claimed + amount <= airdrop[id].total_funded
        /\ vault[id].balance - amount \in Nat
    BY <1>2 DEF VaultCovers, checked_add_u64, NativeAccount
  <1>4. /\ airdrop' = [airdrop EXCEPT ![id] =
              [airdrop[id] EXCEPT !.total_claimed = airdrop[id].total_claimed + amount]]
        /\ vault' = [vault EXCEPT ![id] =
              [vault[id] EXCEPT !.balance = vault[id].balance - amount]]
    OBVIOUS
  <1>5. [airdrop[id] EXCEPT !.total_claimed = airdrop[id].total_claimed + amount]
            \in AirdropState
    BY <1>1, <1>3 DEF AirdropState
  <1>6. [vault[id] EXCEPT !.balance = vault[id].balance - amount] \in NativeAccount
    BY <1>2, <1>3 DEF NativeAccount
  <1>7. nullifier_record' \in [AirdropIds -> [Nullifiers -> [claimed: BOOLEAN, balance: Nat]]]
    BY DEF TypeOK, SpendNullifier
  <1>8. wallet' \in [Wallets -> NativeAccount]
    <2>1. [owner |-> "program", balance |-> amount] \in NativeAccount
      BY DEF NativeAccount, Owners
    <2> QED BY <2>1 DEF TypeOK
  <1>9. TypeOK'
    <2>1. airdrop' \in [AirdropIds -> AirdropState \cup {Default}]
      BY <1>1, <1>4, <1>5 DEF TypeOK
    <2>2. vault' \in [AirdropIds -> NativeAccount]
      BY <1>1, <1>4, <1>6 DEF TypeOK
    <2> QED BY <1>7, <1>8, <2>1, <2>2 DEF TypeOK
  <1>10. ASSUME NEW i \in AirdropIds, Active(i)'
         PROVE  /\ airdrop'[i].total_claimed <= airdrop'[i].total_funded
                /\ airdrop'[i].total_funded - airdrop'[i].total_claimed <= vault'[i].balance
    <2>1. CASE i = id
      <3>1. /\ airdrop'[i].total_claimed = airdrop[id].total_claimed + amount
            /\ airdrop'[i].total_funded = airdrop[id].total_funded
            /\ vault'[i].balance = vault[id].balance - amount
        BY <1>1, <1>2, <1>4, <2>1 DEF TypeOK, AirdropState, NativeAccount
      <3>2. airdrop[id].total_funded - airdrop[id].total_claimed <= vault[id].balance
        BY <1>1 DEF Solvent
      <3> QED BY <1>2, <1>3, <3>1, <3>2 DEF NativeAccount
    <2>2. CASE i # id
      <3>1. airdrop'[i] = airdrop[i] /\ vault'[i] = vault[i]
        BY <1>4, <2>2 DEF TypeOK
      <3> QED BY <1>10, <3>1 DEF Solvent, Active
    <2> QED BY <2>1, <2>2
  <1> QED BY <1>9, <1>10 DEF Solvent

LEMMA InitAirdropPreservesInv ==
    ASSUME TypeOK, Solvent, InitAirdrop
    PROVE  TypeOK' /\ Solvent'
  <1>1. PICK id \in AirdropIds, d \in Wallets, args \in InitArgs : init_airdrop(id, d, args)
    BY DEF InitAirdrop
  <1> DEFINE new == [distributor |-> d, merkle_root |-> args.merkle_root,
          bucket_table |-> args.bucket_table, expiry_unix |-> args.expiry_unix,
          recovery_address |-> args.recovery_address, total_funded |-> 0,
          total_claimed |-> 0, status |-> "active"]
  <1>2. new \in AirdropState
    BY ConstantsAssumption DEF InitArg, AirdropState
  <1>3. /\ airdrop' = [airdrop EXCEPT ![id] = new]
        /\ vault' = [vault EXCEPT ![id] = [vault[id] EXCEPT !.owner = "program"]]
        /\ UNCHANGED <<nullifier_record, wallet, clock>>
    BY <1>1 DEF init_airdrop
  <1>4. /\ new.total_funded = 0
        /\ new.total_claimed = 0
    OBVIOUS
  <1> HIDE DEF new
  <1>5. [vault[id] EXCEPT !.owner = "program"] \in NativeAccount
    BY DEF TypeOK, NativeAccount, Owners
  <1>6. TypeOK'
    BY <1>2, <1>3, <1>5 DEF TypeOK
  <1>7. ASSUME NEW i \in AirdropIds, Active(i)'
        PROVE  /\ airdrop'[i].total_claimed <= airdrop'[i].total_funded
               /\ airdrop'[i].total_funded - airdrop'[i].total_claimed <= vault'[i].balance
    <2>1. CASE i = id
      <3>1. airdrop'[i] = new
        BY <1>3, <2>1 DEF TypeOK
      <3>2. vault'[i].balance \in Nat
        BY <1>6 DEF TypeOK, NativeAccount
      <3> QED BY <1>4, <3>1, <3>2
    <2>2. CASE i # id
      <3>1. airdrop'[i] = airdrop[i] /\ vault'[i] = vault[i]
        BY <1>3, <2>2 DEF TypeOK
      <3> QED BY <1>7, <3>1 DEF Solvent, Active
    <2> QED BY <2>1, <2>2
  <1> QED BY <1>6, <1>7 DEF Solvent

LEMMA FundPreservesInv ==
    ASSUME TypeOK, Solvent, Fund
    PROVE  TypeOK' /\ Solvent'
  <1>1. PICK id \in AirdropIds, s \in Wallets, amount \in Amounts, now \in CallerTimes :
          fund(id, s, amount, now)
    BY DEF Fund
  <1>2. amount \in Nat /\ U64Max \in Nat
    BY ConstantsAssumption
  <1>3. airdrop[id] \in AirdropState /\ Active(id)
    BY <1>1 DEF fund, ensure_active, TypeOK, Active
  <1>4. /\ airdrop[id].total_claimed \in 0 .. U64Max
        /\ airdrop[id].total_funded \in 0 .. U64Max
        /\ vault[id].balance \in Nat
    BY <1>3 DEF TypeOK, AirdropState, NativeAccount
  <1> DEFINE total == airdrop[id].total_funded + amount
  <1>5. total \in 0 .. U64Max /\ total <= vault[id].balance /\ airdrop[id].total_funded <= total
    BY <1>1, <1>2, <1>4 DEF fund, checked_add_u64
  <1>6. /\ airdrop' = [airdrop EXCEPT ![id] = [airdrop[id] EXCEPT !.total_funded = total]]
        /\ UNCHANGED <<vault, nullifier_record, wallet, clock>>
    BY <1>1 DEF fund
  <1> HIDE DEF total
  <1>7. [airdrop[id] EXCEPT !.total_funded = total] \in AirdropState
    BY <1>3, <1>5 DEF AirdropState
  <1>8. TypeOK'
    BY <1>6, <1>7 DEF TypeOK
  <1>9. ASSUME NEW i \in AirdropIds, Active(i)'
        PROVE  /\ airdrop'[i].total_claimed <= airdrop'[i].total_funded
               /\ airdrop'[i].total_funded - airdrop'[i].total_claimed <= vault'[i].balance
    <2>1. CASE i = id
      <3>1. airdrop'[i].total_claimed = airdrop[id].total_claimed /\ airdrop'[i].total_funded = total
        BY <1>3, <1>6, <2>1 DEF TypeOK, AirdropState
      <3>2. airdrop[id].total_claimed <= airdrop[id].total_funded
        BY <1>3 DEF Solvent
      <3> QED BY <1>2, <1>4, <1>5, <1>6, <2>1, <3>1, <3>2
    <2>2. CASE i # id
      <3>1. airdrop'[i] = airdrop[i] /\ vault'[i] = vault[i]
        BY <1>6, <2>2 DEF TypeOK
      <3> QED BY <1>9, <3>1 DEF Solvent, Active
    <2> QED BY <2>1, <2>2
  <1> QED BY <1>8, <1>9 DEF Solvent

LEMMA ClosePreservesInv ==
    ASSUME TypeOK, Solvent, Close
    PROVE  TypeOK' /\ Solvent'
  <1>1. PICK id \in AirdropIds, s \in Wallets : close(id, s)
    BY DEF Close
  <1> DEFINE to == airdrop[id].recovery_address
  <1>2. airdrop[id] \in AirdropState /\ to \in Wallets
    BY <1>1 DEF close, ensure_distributor, TypeOK, AirdropState, close_checks
  <1>3. vault[id] \in NativeAccount /\ wallet[to] \in NativeAccount
    BY <1>2 DEF TypeOK
  <1>4. /\ airdrop' = [airdrop EXCEPT ![id] = [airdrop[id] EXCEPT !.status = "closed"]]
        /\ wallet' = [wallet EXCEPT ![to] =
              [wallet[to] EXCEPT !.balance = wallet[to].balance + vault[id].balance]]
        /\ vault' = [vault EXCEPT ![id] = [vault[id] EXCEPT !.balance = 0]]
        /\ UNCHANGED <<nullifier_record, clock>>
    BY <1>1 DEF close, Sweep, close_checks
  <1>5. [airdrop[id] EXCEPT !.status = "closed"] \in AirdropState
    BY <1>2 DEF AirdropState
  <1> HIDE DEF to
  <1>6. /\ [wallet[to] EXCEPT !.balance = wallet[to].balance + vault[id].balance] \in NativeAccount
        /\ [vault[id] EXCEPT !.balance = 0] \in NativeAccount
    BY <1>3 DEF NativeAccount
  <1>7. TypeOK'
    BY <1>4, <1>5, <1>6 DEF TypeOK
  <1>8. ASSUME NEW i \in AirdropIds, Active(i)'
        PROVE  i # id
    BY <1>2, <1>4, <1>8 DEF Active, TypeOK, AirdropState
  <1>9. \A i \in AirdropIds : i # id => airdrop'[i] = airdrop[i] /\ vault'[i] = vault[i]
    BY <1>4 DEF TypeOK
  <1> QED BY <1>7, <1>8, <1>9 DEF Solvent, Active

LEMMA OwnersTyped ==
    \A account \in NativeAccount, new \in BOOLEAN :
        OwnersAfterCredit(account, new) \subseteq Owners
  BY DEF NativeAccount, OwnersAfterCredit, Owners

LEMMA TransferPreservesInv ==
    ASSUME TypeOK, Solvent, Transfer
    PROVE  TypeOK' /\ Solvent'
  <1>1. PICK id \in AirdropIds, from \in Wallets, amount \in Amounts : transfer(from, id, amount)
    BY DEF Transfer
  <1>2. PICK owner \in OwnersAfterCredit(vault[id], vault[id] = Untouched) :
          vault' = [vault EXCEPT ![id] =
                      [owner |-> owner, balance |-> vault[id].balance + amount]]
    BY <1>1 DEF transfer
  <1>3. /\ wallet[from] \in NativeAccount
        /\ vault[id] \in NativeAccount
        /\ amount \in Nat
        /\ owner \in Owners
    BY <1>2, ConstantsAssumption, OwnersTyped DEF TypeOK
  <1> DEFINE filled == [owner |-> owner, balance |-> vault[id].balance + amount]
             emptied == [wallet[from] EXCEPT !.balance = wallet[from].balance - amount]
  <1>4. /\ wallet' = [wallet EXCEPT ![from] = emptied]
        /\ vault' = [vault EXCEPT ![id] = filled]
        /\ UNCHANGED <<airdrop, nullifier_record, clock>>
    BY <1>1, <1>2 DEF transfer
  <1>5. filled \in NativeAccount
    BY <1>3 DEF NativeAccount
  <1>6. emptied \in NativeAccount
    BY <1>1, <1>3 DEF NativeAccount, transfer, Sends
  <1>7. filled.balance = vault[id].balance + amount
    OBVIOUS
  <1> HIDE DEF filled, emptied
  <1>8. TypeOK'
    BY <1>4, <1>5, <1>6 DEF TypeOK
  <1>9. ASSUME NEW i \in AirdropIds
        PROVE  vault[i].balance \in Nat /\ vault[i].balance <= vault'[i].balance
    BY <1>3, <1>4, <1>7 DEF TypeOK, NativeAccount
  <1>10. ASSUME NEW i \in AirdropIds, Active(i)
         PROVE  /\ airdrop[i].total_claimed <= airdrop[i].total_funded
                /\ airdrop[i].total_funded - airdrop[i].total_claimed <= vault'[i].balance
    <2>1. airdrop[i].total_claimed \in Int /\ airdrop[i].total_funded \in Int
      BY <1>10, ConstantsAssumption DEF TypeOK, Active, AirdropState
    <2>2. vault'[i].balance \in Nat
      BY <1>8 DEF TypeOK, NativeAccount
    <2> QED BY <1>9, <1>10, <2>1, <2>2 DEF Solvent
  <1> QED BY <1>4, <1>8, <1>10 DEF Solvent, Active

\* Money sent to a wallet or to a record: no airdrop and no vault changes, no
\* record becomes spent or stops being so, and none loses money.
LEMMA TouchIsHarmless ==
    ASSUME TypeOK, Touch
    PROVE  /\ TypeOK'
           /\ UNCHANGED <<airdrop, vault, clock>>
           /\ \A id \in AirdropIds, n \in Nullifiers :
                /\ nullifier_record'[id][n].claimed = nullifier_record[id][n].claimed
                /\ nullifier_record'[id][n].balance >= nullifier_record[id][n].balance
  <1> DEFINE emptied(from, amount) ==
               [wallet[from] EXCEPT !.balance = wallet[from].balance - amount]
  <1>1. ASSUME NEW from \in Wallets, NEW amount \in Amounts, Sends(from, amount)
        PROVE  emptied(from, amount) \in NativeAccount /\ amount \in Nat
    <2>1. wallet[from] \in NativeAccount /\ amount \in Nat
      BY ConstantsAssumption DEF TypeOK
    <2> QED BY <1>1, <2>1 DEF NativeAccount, Sends
  <1>2. ASSUME NEW from \in Wallets, NEW to \in Wallets, NEW amount \in Amounts,
               touch_recipient(from, to, amount)
        PROVE  TypeOK'
    <2>1. PICK owner \in OwnersAfterCredit(wallet[to], NewAccount(to)) :
            wallet' = [wallet EXCEPT ![from] = emptied(from, amount),
                       ![to] = [owner |-> owner, balance |-> wallet[to].balance + amount]]
      BY <1>2 DEF touch_recipient
    <2>2. owner \in Owners
      BY <2>1 DEF TypeOK, NativeAccount, Owners, OwnersAfterCredit
    <2>3. amount \in Nat /\ emptied(from, amount) \in NativeAccount
      BY <1>1, <1>2 DEF touch_recipient
    <2> DEFINE credited == [owner |-> owner, balance |-> wallet[to].balance + amount]
    <2>4. credited \in NativeAccount
      BY <2>2, <2>3 DEF NativeAccount, TypeOK
    <2> HIDE DEF emptied, credited
    <2>5. wallet' \in [Wallets -> NativeAccount]
      <3>1. wallet' = [wallet EXCEPT ![from] = emptied(from, amount), ![to] = credited]
        BY <2>1 DEF credited
      <3> QED BY <2>3, <2>4, <3>1 DEF TypeOK
    <2> QED BY <1>2, <2>5 DEF touch_recipient, TypeOK
  <1>3. ASSUME NEW from \in Wallets, NEW id \in AirdropIds, NEW n \in Nullifiers,
               NEW amount \in Amounts, touch_record(from, id, n, amount)
        PROVE  /\ TypeOK'
               /\ \A i \in AirdropIds, m \in Nullifiers :
                    /\ nullifier_record'[i][m].claimed = nullifier_record[i][m].claimed
                    /\ nullifier_record'[i][m].balance >= nullifier_record[i][m].balance
    <2>1. amount \in Nat /\ emptied(from, amount) \in NativeAccount
      BY <1>1, <1>3 DEF touch_record
    <2> HIDE DEF emptied
    <2> DEFINE old == nullifier_record[id][n]
               touched == [old EXCEPT !.balance = old.balance + amount]
    <2>2. /\ wallet' = [wallet EXCEPT ![from] = emptied(from, amount)]
          /\ nullifier_record' = [nullifier_record EXCEPT ![id] =
               [nullifier_record[id] EXCEPT ![n] = touched]]
          /\ UNCHANGED <<airdrop, vault, clock>>
      BY <1>3 DEF touch_record, emptied
    <2>3. old \in [claimed: BOOLEAN, balance: Nat]
      BY DEF TypeOK
    <2>4. /\ touched \in [claimed: BOOLEAN, balance: Nat]
          /\ touched.claimed = old.claimed
          /\ touched.balance = old.balance + amount
      BY <2>1, <2>3
    <2> HIDE DEF touched
    <2>5. TypeOK'
      BY <2>1, <2>2, <2>4 DEF TypeOK
    <2>6. ASSUME NEW i \in AirdropIds, NEW m \in Nullifiers
          PROVE  /\ nullifier_record'[i][m] =
                      IF i = id /\ m = n THEN touched ELSE nullifier_record[i][m]
                 /\ nullifier_record[i][m].balance \in Nat
      BY <2>2 DEF TypeOK
    <2>7. ASSUME NEW i \in AirdropIds, NEW m \in Nullifiers
          PROVE  /\ nullifier_record'[i][m].claimed = nullifier_record[i][m].claimed
                 /\ nullifier_record'[i][m].balance >= nullifier_record[i][m].balance
      <3>1. CASE i = id /\ m = n
        <4>1. nullifier_record'[i][m] = touched /\ nullifier_record[i][m] = old
          BY <2>6, <3>1
        <4>2. old.balance \in Nat
          BY <2>3
        <4> HIDE DEF old
        <4> QED BY <2>1, <2>4, <4>1, <4>2
      <3>2. CASE ~ (i = id /\ m = n)
        BY <2>6, <3>2
      <3> QED BY <3>1, <3>2
    <2> QED BY <2>5, <2>7
  <1>4. UNCHANGED <<airdrop, vault, clock>>
    BY DEF Touch, touch_recipient, touch_record
  <1>5. CASE \E from \in Wallets, amount \in Amounts, to \in Wallets :
               touch_recipient(from, to, amount)
    <2>1. PICK from \in Wallets, amount \in Amounts, to \in Wallets :
            touch_recipient(from, to, amount)
      BY <1>5
    <2>2. nullifier_record' = nullifier_record
      BY <2>1 DEF touch_recipient
    <2>3. \A id \in AirdropIds, n \in Nullifiers : nullifier_record[id][n].balance \in Nat
      BY DEF TypeOK
    <2> QED BY <1>2, <1>4, <2>1, <2>2, <2>3
  <1>6. CASE \E from \in Wallets, amount \in Amounts, id \in AirdropIds, n \in Nullifiers :
               touch_record(from, id, n, amount)
    BY <1>3, <1>4, <1>6
  <1> QED BY <1>5, <1>6 DEF Touch

LEMMA NextPreservesInv == TypeOK /\ Solvent /\ [Next]_vars => TypeOK' /\ Solvent'
  <1> SUFFICES ASSUME TypeOK, Solvent, [Next]_vars
               PROVE  TypeOK' /\ Solvent'
    OBVIOUS
  <1>1. CASE InitAirdrop
    BY <1>1, InitAirdropPreservesInv
  <1>2. CASE Fund
    BY <1>2, FundPreservesInv
  <1>3. CASE Claim
    BY <1>3, ClaimIsClaimStep, ClaimStepPreservesInv
  <1>4. CASE ClaimPrivate
    BY <1>4, ClaimPrivateIsClaimStep, ClaimStepPreservesInv
  <1>5. CASE ClaimPpe
    BY <1>5, ClaimPpeIsClaimStep, ClaimStepPreservesInv
  <1>6. CASE Close
    BY <1>6, ClosePreservesInv
  <1>7. CASE Transfer
    BY <1>7, TransferPreservesInv
  <1>8. CASE Touch
    BY <1>8, TouchIsHarmless DEF Solvent, Active
  <1>9. CASE Tick
    BY <1>9, ConstantsAssumption DEF Tick, TypeOK, Solvent, Active
  <1>10. CASE UNCHANGED vars
    BY <1>10 DEF vars, TypeOK, Solvent, Active
  <1> QED
    BY <1>1, <1>2, <1>3, <1>4, <1>5, <1>6, <1>7, <1>8, <1>9, <1>10 DEF Next

\* Types and widths hold always: in particular no u64 total overflows.
THEOREM TypeCorrect == Spec => []TypeOK
  <1>1. Init => TypeOK /\ Solvent
    BY InitEstablishesInv
  <1>2. (TypeOK /\ Solvent) /\ [Next]_vars => (TypeOK /\ Solvent)'
    BY NextPreservesInv
  <1> QED BY <1>1, <1>2, PTL DEF Spec

\* An active airdrop's vault always holds what is funded and not yet claimed.
THEOREM AlwaysSolvent == Spec => []Solvent
  <1>1. Init => TypeOK /\ Solvent
    BY InitEstablishesInv
  <1>2. (TypeOK /\ Solvent) /\ [Next]_vars => (TypeOK /\ Solvent)'
    BY NextPreservesInv
  <1> QED BY <1>1, <1>2, PTL DEF Spec

-----------------------------------------------------------------------------
(* What solvency and the checks give a holder. *)

\* What solvency is for: an amount the unclaimed budget covers is one the vault
\* covers, so a claim is refused for want of money only with the budget spent.
LEMMA BudgetIsPayable ==
    ASSUME TypeOK, Solvent, NEW id \in AirdropIds, Active(id), NEW amount \in Nat,
           amount <= airdrop[id].total_funded - airdrop[id].total_claimed
    PROVE  VaultCovers(id, amount)
  <1>1. PICK funded \in Nat : funded = airdrop[id].total_funded /\ funded <= U64Max
    BY ConstantsAssumption DEF TypeOK, Active, AirdropState
  <1>2. PICK claimed \in Nat : claimed = airdrop[id].total_claimed
    BY ConstantsAssumption DEF TypeOK, Active, AirdropState
  <1>3. PICK balance \in Nat : balance = vault[id].balance
    BY DEF TypeOK, NativeAccount
  <1>4. funded - claimed <= balance
    BY <1>1, <1>2, <1>3 DEF Solvent
  <1>5. amount <= funded - claimed
    BY <1>1, <1>2
  <1>6. claimed + amount <= U64Max /\ claimed + amount <= funded /\ balance >= amount
    BY <1>1, <1>4, <1>5, ConstantsAssumption DEF ConstantsAssumption
  <1> QED BY <1>1, <1>2, <1>3, <1>6 DEF VaultCovers, checked_add_u64

\* A payable row of an airdrop that is open passes the checks of every claim
\* instruction, for every now_unix before the expiry.
LEMMA PayableRowPasses ==
    ASSUME TypeOK, Solvent, NEW id \in AirdropIds, NEW dest \in Wallets,
           NEW row \in CommittedRows(id), NEW now \in CallerTimes,
           Active(id),
           now < airdrop[id].expiry_unix,
           with_claim_expiry(airdrop[id].expiry_unix),
           row.bucket_id < Len(airdrop[id].bucket_table),
           nullifier_record[id][h_null(row.salt)] = UntouchedRecord,
           <<row.address, id, dest>> \in Signatures,
           BucketAmount(id, row.bucket_id)
               <= airdrop[id].total_funded - airdrop[id].total_claimed
    PROVE  /\ claim_checks(id, Journal(id, airdrop[id].merkle_root, row.bucket_id,
                                       h_null(row.salt), dest), now)
           /\ claim_private_checks(id, row.bucket_id, h_null(row.salt), dest,
                                   row.address, row.salt, now)
           /\ NewAccount(dest) =>
                claim_ppe_checks(id, row.bucket_id, h_null(row.salt), dest,
                                 row.address, row.salt, now)
  <1> DEFINE n == h_null(row.salt)
             amount == BucketAmount(id, row.bucket_id)
             j == Journal(id, airdrop[id].merkle_root, row.bucket_id, n, dest)
  <1>1. row \in airdrop[id].merkle_root /\ row \in Rows
    BY DEF CommittedRows, Active, TypeOK, AirdropState
  <1>2. row.bucket_id \in Nat /\ row.address \in Addresses /\ row.salt \in Salts
    BY <1>1 DEF Rows
  <1>3. amount \in Nat
    BY <1>2, BucketAmountInTable, ConstantsAssumption DEF ConstantsAssumption, Active
  <1>4. VaultCovers(id, amount)
    BY <1>3, BudgetIsPayable
  <1>5. dest # ZeroCommitment
    BY ConstantsAssumption DEF ConstantsAssumption
  <1>6. NullifierUnused(id, n) /\ ensure_active(id, now)
    BY DEF NullifierUnused, ensure_active, Active
  <1>7. verify_claim_constraints(j, row.address, row.salt)
    <2>1. [address |-> row.address, bucket_id |-> row.bucket_id, salt |-> row.salt] = row
      BY <1>1 DEF Rows
    <2> QED BY <1>1, <2>1 DEF verify_claim_constraints, Journal
  <1>8. witness_checks(id, row.bucket_id, n, dest, row.address, row.salt, now)
    BY <1>4, <1>6, <1>7 DEF witness_checks
  <1>9. claim_checks(id, j, now)
    <2>1. verify_claim_receipt(j)
      BY <1>2, <1>7 DEF verify_claim_receipt
    <2>2. /\ j.nullifier = n /\ j.airdrop_id = id /\ j.bucket_id = row.bucket_id
          /\ j.merkle_root = airdrop[id].merkle_root
          /\ j.claim_destination_commitment = dest
      BY DEF Journal
    <2> HIDE DEF j, n, amount
    <2>3. VaultCovers(id, BucketAmount(id, j.bucket_id))
      BY <1>4, <2>2 DEF amount
    <2> QED BY <1>5, <1>6, <2>1, <2>2, <2>3 DEF claim_checks
  <1>10. claim_private_checks(id, row.bucket_id, n, dest, row.address, row.salt, now)
    BY <1>5, <1>8 DEF claim_private_checks
  <1>11. NewAccount(dest) =>
           claim_ppe_checks(id, row.bucket_id, n, dest, row.address, row.salt, now)
    BY <1>8 DEF claim_ppe_checks
  <1> QED BY <1>9, <1>10, <1>11

\* No holder of a payable row is ever turned away: an open airdrop's committed
\* row, unspent, signed and within the unclaimed budget, passes every check of
\* each of the three claim instructions, in every reachable state.
THEOREM EligibleRowsAreClaimable == Spec => []EligibleRowIsClaimable
  <1>1. TypeOK /\ Solvent => EligibleRowIsClaimable
    BY PayableRowPasses DEF EligibleRowIsClaimable
  <1> QED BY <1>1, TypeCorrect, AlwaysSolvent, PTL

-----------------------------------------------------------------------------
(* Action properties, from the same invariant. *)

LEMMA NextIsClaimOrNot ==
    ASSUME TypeOK, [Next]_vars
    PROVE  \/ \E id, n, amount, credit : ClaimStep(id, n, amount, credit)
           \/ /\ nullifier_record' = nullifier_record
              /\ InitAirdrop \/ Fund \/ Close \/ Transfer \/ Tick \/ UNCHANGED vars
           \/ Touch
  <1>1. CASE Claim \/ ClaimPrivate \/ ClaimPpe
    BY <1>1, ClaimIsClaimStep, ClaimPrivateIsClaimStep, ClaimPpeIsClaimStep
  <1>2. CASE InitAirdrop \/ Fund \/ Close \/ Transfer \/ Tick \/ UNCHANGED vars
    BY <1>2 DEF InitAirdrop, init_airdrop, Fund, fund, Close, close, Sweep,
                Transfer, transfer, Tick, vars, close_checks
  <1> QED BY <1>1, <1>2 DEF Next

\* A spent nullifier stays spent for every later transaction, and what a record
\* holds stays in it: no instruction touches the record again, so no row is paid
\* twice, and native transfers only add to it (claim, claim_private, claim_ppe).
THEOREM SpentStaysSpent == Spec => SpentForever
  <1> DEFINE Kept(id, n) == nullifier_record[id][n].claimed =>
               /\ nullifier_record'[id][n].claimed
               /\ nullifier_record'[id][n].balance >= nullifier_record[id][n].balance
               /\ nullifier_record'[id][n] # nullifier_record[id][n] => UNCHANGED <<airdrop, vault>>
             AllKept == \A id \in AirdropIds, n \in Nullifiers : Kept(id, n)
  <1>1. TypeOK /\ [Next]_vars => [AllKept]_vars
    <2> SUFFICES ASSUME TypeOK, [Next]_vars PROVE AllKept
      OBVIOUS
    <2>0. ASSUME NEW i \in AirdropIds, NEW m \in Nullifiers,
                 nullifier_record'[i][m] = nullifier_record[i][m]
          PROVE  Kept(i, m)
      <3>1. nullifier_record[i][m].balance \in Nat
        BY DEF TypeOK
      <3> QED BY <2>0, <3>1
    <2>1. ASSUME NEW id, NEW n, NEW amount, NEW credit, ClaimStep(id, n, amount, credit)
          PROVE  AllKept
      <3>1. /\ id \in AirdropIds
            /\ n \in Nullifiers
            /\ ~ nullifier_record[id][n].claimed
        BY <2>1 DEF ClaimStep, NullifierUnused, UntouchedRecord
      <3>2. nullifier_record' = [nullifier_record EXCEPT ![id] =
              [nullifier_record[id] EXCEPT ![n] =
                [claimed |-> TRUE, balance |-> nullifier_record[id][n].balance + credit]]]
        BY <2>1 DEF ClaimStep, SpendNullifier
      <3>3. ASSUME NEW i \in AirdropIds, NEW m \in Nullifiers, i # id \/ m # n
            PROVE  nullifier_record'[i][m] = nullifier_record[i][m]
        BY <3>1, <3>2, <3>3 DEF TypeOK
      <3> QED BY <2>0, <3>1, <3>3
    <2>2. CASE Touch
      BY <2>2, TouchIsHarmless
    <2>3. CASE nullifier_record' = nullifier_record
      BY <2>0, <2>3
    <2> QED BY <2>1, <2>2, <2>3, NextIsClaimOrNot
  <1> QED BY <1>1, TypeCorrect, PTL DEF Spec, SpentForever

\* A nullifier is recorded only in a block stamped before the expiry.
THEOREM PayoutsStopAtExpiry == Spec => NoPayoutAfterExpiry
  <1> DEFINE InTime == \A id \in AirdropIds, n \in Nullifiers :
         nullifier_record'[id][n].claimed # nullifier_record[id][n].claimed =>
             clock < airdrop[id].expiry_unix * MillisPerSecond
  <1>1. TypeOK /\ [Next]_vars => [InTime]_vars
    <2> SUFFICES ASSUME TypeOK, [Next]_vars PROVE InTime
      OBVIOUS
    <2>1. ASSUME NEW id, NEW n, NEW amount, NEW credit, ClaimStep(id, n, amount, credit)
          PROVE  InTime
      <3>1. clock < airdrop[id].expiry_unix * MillisPerSecond
        BY <2>1 DEF ClaimStep, with_claim_expiry
      <3>2. \A i \in AirdropIds : i # id => nullifier_record'[i] = nullifier_record[i]
        BY <2>1 DEF ClaimStep, SpendNullifier, TypeOK
      <3> QED BY <3>1, <3>2
    <2>2. CASE Touch
      BY <2>2, TouchIsHarmless
    <2> QED BY <2>1, <2>2, NextIsClaimOrNot
  <1> QED BY <1>1, TypeCorrect, PTL DEF Spec, NoPayoutAfterExpiry

\* No instruction changes the state of a closed airdrop.
THEOREM ClosedStaysClosed == Spec => ClosedIsFinal
  <1> DEFINE Final == \A id \in AirdropIds :
         (airdrop[id] # Default /\ ~ Active(id)) => airdrop'[id] = airdrop[id]
  <1>1. TypeOK /\ [Next]_vars => [Final]_vars
    <2> SUFFICES ASSUME TypeOK, [Next]_vars,
                        NEW i \in AirdropIds, airdrop[i] # Default, ~ Active(i)
                 PROVE  airdrop'[i] = airdrop[i]
      OBVIOUS
    <2>1. ASSUME NEW id, NEW n, NEW amount, NEW credit, ClaimStep(id, n, amount, credit)
          PROVE  airdrop'[i] = airdrop[i]
      BY <2>1 DEF ClaimStep, Debit, TypeOK
    <2>2. CASE InitAirdrop
      BY <2>2 DEF InitAirdrop, init_airdrop, TypeOK
    <2>3. CASE Fund
      BY <2>3 DEF Fund, fund, ensure_active, Active, TypeOK
    <2>4. CASE Close
      <3>1. PICK id \in AirdropIds, s \in Wallets : close(id, s)
        BY <2>4 DEF Close
      <3>2. airdrop' = [airdrop EXCEPT ![id] = [airdrop[id] EXCEPT !.status = "closed"]]
        BY <3>1 DEF close, Sweep, close_checks
      <3>3. CASE i = id
        <4>1. airdrop[i] \in AirdropState /\ airdrop[i].status = "closed"
          BY DEF TypeOK, Active, AirdropState
        <4> QED BY <3>2, <3>3, <4>1 DEF AirdropState, TypeOK
      <3>4. CASE i # id
        BY <3>2, <3>4 DEF TypeOK
      <3> QED BY <3>3, <3>4
    <2>5. CASE Transfer \/ Tick \/ UNCHANGED vars
      BY <2>5 DEF Transfer, transfer, Tick, vars
    <2>6. CASE Touch
      BY <2>6, TouchIsHarmless
    <2> QED BY <2>1, <2>2, <2>3, <2>4, <2>5, <2>6, NextIsClaimOrNot
  <1> QED BY <1>1, TypeCorrect, PTL DEF Spec, ClosedIsFinal

\* A vault is debited for one bucket amount, counted as claimed, or emptied
\* into the recovery account.
THEOREM VaultOutflowJustified == Spec => VaultOutflow
  <1> DEFINE Justified(id) ==
         LET out == vault[id].balance - vault'[id].balance
             a == airdrop[id]
         IN  \/ /\ airdrop'[id].total_claimed = a.total_claimed + out
                /\ \E i \in DOMAIN a.bucket_table : a.bucket_table[i] = out
             \/ /\ vault'[id].balance = 0
                /\ airdrop'[id].status = "closed"
                /\ wallet'[a.recovery_address].balance =
                       wallet[a.recovery_address].balance + out
      Outflow == \A id \in AirdropIds :
                    vault'[id].balance < vault[id].balance => Justified(id)
  <1>1. TypeOK /\ [Next]_vars => [Outflow]_vars
    <2> SUFFICES ASSUME TypeOK, [Next]_vars,
                        NEW i \in AirdropIds, vault'[i].balance < vault[i].balance
                 PROVE  Justified(i)
      OBVIOUS
    <2>1. vault[i] \in NativeAccount /\ vault[i].balance \in Nat
      BY DEF TypeOK, NativeAccount
    <2>2. ASSUME NEW id, NEW n, NEW amount, NEW credit, ClaimStep(id, n, amount, credit)
          PROVE  Justified(i)
      <3>1. i = id
        BY <2>1, <2>2 DEF ClaimStep, Debit, TypeOK
      <3>2. vault'[i].balance = vault[i].balance - amount /\ amount \in Nat
        BY <2>2, <3>1 DEF ClaimStep, Debit, TypeOK, NativeAccount
      <3>3. airdrop'[i].total_claimed = airdrop[i].total_claimed + amount
        BY <2>2, <3>1 DEF ClaimStep, Debit, TypeOK, Active, AirdropState
      <3>4. \E k \in DOMAIN airdrop[i].bucket_table : airdrop[i].bucket_table[k] = amount
        BY <2>2, <3>1 DEF ClaimStep
      <3>5. vault[i].balance - vault'[i].balance = amount
        BY <2>1, <3>2
      <3> QED BY <3>3, <3>4, <3>5
    <2>3. CASE Close
      <3>1. PICK id \in AirdropIds, s \in Wallets : close(id, s)
        BY <2>3 DEF Close
      <3> DEFINE to == airdrop[id].recovery_address
      <3>2. airdrop[id] \in AirdropState /\ to \in Wallets
        BY <3>1 DEF close, ensure_distributor, TypeOK, AirdropState, close_checks
      <3>3. /\ airdrop' = [airdrop EXCEPT ![id] = [airdrop[id] EXCEPT !.status = "closed"]]
            /\ wallet' = [wallet EXCEPT ![to] =
                  [wallet[to] EXCEPT !.balance = wallet[to].balance + vault[id].balance]]
            /\ vault' = [vault EXCEPT ![id] = [vault[id] EXCEPT !.balance = 0]]
        BY <3>1 DEF close, Sweep, close_checks
      <3>4. i = id
        BY <2>1, <3>3 DEF TypeOK
      <3>5. vault'[i].balance = 0 /\ vault[i].balance - vault'[i].balance = vault[i].balance
        BY <2>1, <3>3, <3>4 DEF TypeOK, NativeAccount
      <3>6. airdrop'[i].status = "closed"
        BY <3>2, <3>3, <3>4 DEF TypeOK, AirdropState
      <3>7. wallet[to] \in NativeAccount
        BY <3>2 DEF TypeOK
      <3>8. wallet'[to].balance = wallet[to].balance + vault[i].balance
        BY <3>2, <3>3, <3>4, <3>7 DEF TypeOK, NativeAccount
      <3> QED BY <3>4, <3>5, <3>6, <3>8
    <2>4. CASE InitAirdrop
      BY <2>1, <2>4 DEF InitAirdrop, init_airdrop, TypeOK, NativeAccount
    <2>5. CASE Transfer
      <3>1. PICK id \in AirdropIds, from \in Wallets, amount \in Amounts :
              transfer(from, id, amount)
        BY <2>5 DEF Transfer
      <3>2. vault'[id].balance = vault[id].balance + amount /\ amount \in Nat
        BY <3>1, ConstantsAssumption DEF transfer, TypeOK, NativeAccount
      <3>3. i = id
        BY <2>1, <3>1 DEF transfer, TypeOK
      <3> QED BY <2>1, <3>2, <3>3
    <2>6. CASE Fund \/ Tick \/ UNCHANGED vars
      BY <2>1, <2>6 DEF Fund, fund, Tick, vars
    <2>7. CASE Touch
      BY <2>1, <2>7, TouchIsHarmless
    <2> QED BY <2>2, <2>3, <2>4, <2>5, <2>6, <2>7, NextIsClaimOrNot
  <1> QED BY <1>1, TypeCorrect, PTL DEF Spec, VaultOutflow

-----------------------------------------------------------------------------
(* Where the claimed money is.  ClaimedIsPaidOut compares three sums; a claim *)
(* adds one amount to both sides, and no step lowers the right-hand side.    *)

ClaimedOf == [id \in AirdropIds |->
                IF airdrop[id] = Default THEN 0 ELSE airdrop[id].total_claimed]
RecordedOf == [r \in AirdropIds \X Nullifiers |->
                 IF nullifier_record[r[1]][r[2]].claimed
                 THEN nullifier_record[r[1]][r[2]].balance ELSE 0]
ReceivedOf == [w \in Wallets |->
                 IF wallet[w].owner = "program" /\ InitialWallet[w].owner # "program"
                 THEN wallet[w].balance ELSE 0]

Balanced ==
    SumFunctionOnSet(ClaimedOf, AirdropIds) <=
        SumFunctionOnSet(RecordedOf, AirdropIds \X Nullifiers) + SumFunctionOnSet(ReceivedOf, Wallets)

\* The program never gives an account up.
OwnerKept ==
    \A w \in Wallets : InitialWallet[w].owner = "program" => wallet[w].owner = "program"

LEMMA PaidOutMeans == ClaimedIsPaidOut <=> Balanced
  <1>1. /\ DOMAIN ClaimedOf = AirdropIds
        /\ DOMAIN RecordedOf = AirdropIds \X Nullifiers
        /\ DOMAIN ReceivedOf = Wallets
    BY DEF ClaimedOf, RecordedOf, ReceivedOf
  <1>2. ClaimedIsPaidOut <=>
          SumFunction(ClaimedOf) <= SumFunction(RecordedOf) + SumFunction(ReceivedOf)
    BY DEF ClaimedIsPaidOut, ClaimedOf, RecordedOf, ReceivedOf
  <1> QED BY <1>1, <1>2 DEF Balanced, SumFunction

LEMMA IndexSetsFinite ==
    IsFiniteSet(AirdropIds) /\ IsFiniteSet(AirdropIds \X Nullifiers) /\ IsFiniteSet(Wallets)
  <1>1. IsFiniteSet(Nullifiers)
    <2> DEFINE f == [salt \in Salts |-> h_null(salt)]
    <2>1. f \in Surjection(Salts, Nullifiers)
      BY DEF Surjection, Nullifiers
    <2> QED BY <2>1, FiniteAssumption, FS_Surjection
  <1> QED BY <1>1, FiniteAssumption, FS_Product

LEMMA SummandsTyped ==
    ASSUME TypeOK
    PROVE  /\ ClaimedOf \in [AirdropIds -> Int]
           /\ RecordedOf \in [AirdropIds \X Nullifiers -> Int]
           /\ ReceivedOf \in [Wallets -> Int]
  <1>1. \A id \in AirdropIds : airdrop[id] # Default => airdrop[id].total_claimed \in Int
    BY ConstantsAssumption DEF TypeOK, AirdropState
  <1>2. \A id \in AirdropIds, n \in Nullifiers : nullifier_record[id][n].balance \in Int
    BY DEF TypeOK
  <1>3. \A w \in Wallets : wallet[w].balance \in Int
    BY DEF TypeOK, NativeAccount
  <1> QED BY <1>1, <1>2, <1>3 DEF ClaimedOf, RecordedOf, ReceivedOf

\* A claim adds its amount to the airdrop's total and to one payout account.
LEMMA ClaimStepBalanced ==
    ASSUME TypeOK, OwnerKept, Balanced,
           NEW id, NEW n, NEW amount, NEW credit, ClaimStep(id, n, amount, credit)
    PROVE  Balanced'
  <1>1. /\ id \in AirdropIds /\ n \in Nullifiers /\ amount \in Int /\ credit \in Int
        /\ airdrop[id] \in AirdropState /\ airdrop[id] # Default
    BY DEF ClaimStep, Active, TypeOK
  <1>2. /\ ClaimedOf \in [AirdropIds -> Int]
        /\ RecordedOf \in [AirdropIds \X Nullifiers -> Int]
        /\ ReceivedOf \in [Wallets -> Int]
    BY SummandsTyped
  <1>3. ClaimedOf' = [ClaimedOf EXCEPT ![id] = ClaimedOf[id] + amount]
    <2>1. airdrop' = [airdrop EXCEPT ![id] =
              [airdrop[id] EXCEPT !.total_claimed = airdrop[id].total_claimed + amount]]
      BY DEF ClaimStep, Debit
    <2> DEFINE new == [airdrop[id] EXCEPT !.total_claimed = airdrop[id].total_claimed + amount]
    <2>2. new.total_claimed = airdrop[id].total_claimed + amount
      BY <1>1 DEF AirdropState
    <2>3. new # Default
      <3>1. VaultCovers(id, amount)
        BY DEF ClaimStep
      <3>2. airdrop[id].total_claimed + amount \in 0 .. U64Max
        <4>1. airdrop[id].total_claimed \in 0 .. U64Max
          BY <1>1 DEF AirdropState
        <4>2. amount \in Nat
          BY DEF ClaimStep
        <4> QED BY <3>1, <4>1, <4>2, ConstantsAssumption DEF VaultCovers, checked_add_u64
      <3>3. new \in AirdropState
        BY <1>1, <3>2 DEF AirdropState
      <3> QED BY <3>3, ConstantsAssumption
    <2> HIDE DEF new
    <2>4. \A i \in AirdropIds : airdrop'[i] = IF i = id THEN new ELSE airdrop[i]
      BY <2>1 DEF TypeOK, new
    <2>5. \A i \in AirdropIds :
            ClaimedOf'[i] = IF i = id THEN ClaimedOf[i] + amount ELSE ClaimedOf[i]
      BY <1>1, <2>2, <2>3, <2>4 DEF ClaimedOf
    <2>6. ClaimedOf' = [i \in AirdropIds |-> ClaimedOf'[i]]
      BY DEF ClaimedOf
    <2> QED BY <1>1, <1>2, <2>5, <2>6
  <1>4. RecordedOf' = [RecordedOf EXCEPT ![<<id, n>>] = RecordedOf[<<id, n>>] + credit]
    <2>1. /\ nullifier_record[id][n] = [claimed |-> FALSE, balance |-> 0]
          /\ nullifier_record' = [nullifier_record EXCEPT ![id] =
              [nullifier_record[id] EXCEPT ![n] =
                [claimed |-> TRUE, balance |-> nullifier_record[id][n].balance + credit]]]
      BY DEF ClaimStep, NullifierUnused, UntouchedRecord, SpendNullifier
    <2> DEFINE new == [claimed |-> TRUE, balance |-> nullifier_record[id][n].balance + credit]
    <2>2. new.claimed /\ new.balance = credit
      BY <1>1, <2>1
    <2>3. ~ nullifier_record[id][n].claimed
      BY <2>1
    <2> HIDE DEF new
    <2>4. \A i \in AirdropIds, m \in Nullifiers :
            nullifier_record'[i][m] = IF i = id /\ m = n THEN new ELSE nullifier_record[i][m]
      BY <1>1, <2>1 DEF TypeOK, new
    <2>5. \A r \in AirdropIds \X Nullifiers : r = <<r[1], r[2]>> /\ r[1] \in AirdropIds /\ r[2] \in Nullifiers
      OBVIOUS
    <2>6. \A r \in AirdropIds \X Nullifiers :
            RecordedOf'[r] = IF r = <<id, n>> THEN RecordedOf[r] + credit ELSE RecordedOf[r]
      <3> SUFFICES ASSUME NEW r \in AirdropIds \X Nullifiers
                   PROVE  RecordedOf'[r] = IF r = <<id, n>> THEN RecordedOf[r] + credit ELSE RecordedOf[r]
        OBVIOUS
      <3>1. CASE r = <<id, n>>
        <4>1. r[1] = id /\ r[2] = n
          BY <3>1
        <4>2. RecordedOf[r] = 0
          BY <2>3, <4>1 DEF RecordedOf
        <4>3. RecordedOf'[r] = credit
          BY <1>1, <2>2, <2>4, <4>1 DEF RecordedOf
        <4> QED BY <1>1, <3>1, <4>2, <4>3
      <3>2. CASE r # <<id, n>>
        <4>1. ~ (r[1] = id /\ r[2] = n)
          BY <2>5, <3>2
        <4>2. nullifier_record'[r[1]][r[2]] = nullifier_record[r[1]][r[2]]
          BY <2>4, <2>5, <4>1
        <4> QED BY <3>2, <4>2 DEF RecordedOf
      <3> QED BY <3>1, <3>2
    <2>7. RecordedOf' = [r \in AirdropIds \X Nullifiers |-> RecordedOf'[r]]
      BY DEF RecordedOf
    <2>8. <<id, n>> \in AirdropIds \X Nullifiers
      BY <1>1
    <2> HIDE DEF RecordedOf
    <2> QED BY <1>2, <2>6, <2>7, <2>8
  <1>5. \/ /\ ReceivedOf' = ReceivedOf
           /\ credit = amount
        \/ \E dest \in Wallets :
             /\ ReceivedOf' = [ReceivedOf EXCEPT ![dest] = ReceivedOf[dest] + amount]
             /\ credit = 0
    <2>1. CASE wallet' = wallet /\ credit = amount
      BY <2>1 DEF ReceivedOf
    <2>2. CASE \E dest \in Wallets :
                 /\ wallet[dest] = Untouched
                 /\ wallet' = [wallet EXCEPT ![dest] = [owner |-> "program", balance |-> amount]]
                 /\ credit = 0
      <3>1. PICK dest \in Wallets :
                 /\ wallet[dest] = Untouched
                 /\ wallet' = [wallet EXCEPT ![dest] = [owner |-> "program", balance |-> amount]]
                 /\ credit = 0
        BY <2>2
      <3>2. wallet[dest].owner = "default"
        BY <3>1 DEF Untouched
      <3>3. InitialWallet[dest].owner # "program"
        BY <3>2 DEF OwnerKept
      <3>4. ReceivedOf[dest] = 0
        BY <3>2 DEF ReceivedOf
      <3> DEFINE paid == [owner |-> "program", balance |-> amount]
      <3>5. paid.owner = "program" /\ paid.balance = amount
        OBVIOUS
      <3> HIDE DEF paid
      <3>6. \A w \in Wallets : wallet'[w] = IF w = dest THEN paid ELSE wallet[w]
        BY <3>1 DEF TypeOK, paid
      <3>7. \A w \in Wallets :
              ReceivedOf'[w] = IF w = dest THEN ReceivedOf[w] + amount ELSE ReceivedOf[w]
        BY <1>1, <3>3, <3>4, <3>5, <3>6 DEF ReceivedOf
      <3>8. ReceivedOf' = [w \in Wallets |-> ReceivedOf'[w]]
        BY DEF ReceivedOf
      <3>9. ReceivedOf' = [ReceivedOf EXCEPT ![dest] = ReceivedOf[dest] + amount]
        BY <1>2, <3>7, <3>8
      <3> QED BY <3>1, <3>9
    <2> QED BY <2>1, <2>2 DEF ClaimStep
  <1> DEFINE index == AirdropIds \X Nullifiers
             C == SumFunctionOnSet(ClaimedOf, AirdropIds)
             D == SumFunctionOnSet(RecordedOf, index)
             W == SumFunctionOnSet(ReceivedOf, Wallets)
  <1>6. <<id, n>> \in index /\ IsFiniteSet(index)
    BY <1>1, IndexSetsFinite
  <1> HIDE DEF index
  <1>7. C \in Int /\ D \in Int /\ W \in Int
    BY <1>2, <1>6, IndexSetsFinite, SumInt DEF index
  <1>8. C' = C + amount
    <2>1. PICK f, g : f = ClaimedOf /\ g = ClaimedOf'
      OBVIOUS
    <2>2. SumFunctionOnSet(g, AirdropIds) = SumFunctionOnSet(f, AirdropIds) + amount
      <3>1. f \in [AirdropIds -> Int] /\ g = [f EXCEPT ![id] = f[id] + amount]
        BY <1>2, <1>3, <2>1
      <3>2. IsFiniteSet(AirdropIds) /\ id \in AirdropIds /\ amount \in Int
        BY <1>1, IndexSetsFinite
      <3>3. \A x \in AirdropIds : f[x] \in Int
        BY <3>1
      <3>4. \A x \in AirdropIds : g[x] = IF x = id THEN f[id] + amount ELSE f[x]
        BY <3>1
      <3> QED BY <3>2, <3>3, <3>4, SumIncrease
    <2> QED BY <2>1, <2>2
  <1>9. D' = D + credit
    <2>1. PICK f, g : f = RecordedOf /\ g = RecordedOf'
      OBVIOUS
    <2>2. SumFunctionOnSet(g, index) = SumFunctionOnSet(f, index) + credit
      <3> DEFINE r == <<id, n>>
      <3>1. f \in [index -> Int] /\ g = [f EXCEPT ![r] = f[r] + credit]
        BY <1>2, <1>4, <2>1 DEF index
      <3>2. IsFiniteSet(index) /\ r \in index /\ credit \in Int
        BY <1>1, <1>6
      <3> HIDE DEF r
      <3>3. \A x \in index : f[x] \in Int
        BY <3>1
      <3>4. \A x \in index : g[x] = IF x = r THEN f[r] + credit ELSE f[x]
        BY <3>1
      <3> QED BY <3>2, <3>3, <3>4, SumIncrease
    <2>3. index' = index
      BY DEF index
    <2> QED BY <2>1, <2>2, <2>3
  <1>10. W' + credit = W + amount
    <2>1. CASE ReceivedOf' = ReceivedOf /\ credit = amount
      BY <1>7, <2>1
    <2>2. CASE \E dest \in Wallets :
                 /\ ReceivedOf' = [ReceivedOf EXCEPT ![dest] = ReceivedOf[dest] + amount]
                 /\ credit = 0
      <3>1. PICK dest \in Wallets :
                 /\ ReceivedOf' = [ReceivedOf EXCEPT ![dest] = ReceivedOf[dest] + amount]
                 /\ credit = 0
        BY <2>2
      <3>2. PICK f, g : f = ReceivedOf /\ g = ReceivedOf'
        OBVIOUS
      <3>3. SumFunctionOnSet(g, Wallets) = SumFunctionOnSet(f, Wallets) + amount
        <4>1. f \in [Wallets -> Int] /\ g = [f EXCEPT ![dest] = f[dest] + amount]
          BY <1>2, <3>1, <3>2
        <4>2. IsFiniteSet(Wallets) /\ amount \in Int
          BY <1>1, IndexSetsFinite
        <4>3. \A x \in Wallets : f[x] \in Int
          BY <4>1
        <4>4. \A x \in Wallets : g[x] = IF x = dest THEN f[dest] + amount ELSE f[x]
          BY <4>1
        <4> QED BY <4>2, <4>3, <4>4, SumIncrease
      <3>4. W' = W + amount
        BY <3>2, <3>3
      <3> QED BY <1>1, <1>7, <3>1, <3>4
    <2> QED BY <1>5, <2>1, <2>2
  <1>11. C <= D + W
    BY DEF Balanced, index
  <1>12. W' \in Int
    <2>1. ReceivedOf' \in [Wallets -> Int]
      BY <1>1, <1>2, <1>5
    <2>2. PICK g : g = ReceivedOf'
      OBVIOUS
    <2>3. SumFunctionOnSet(g, Wallets) \in Int
      BY <2>1, <2>2, IndexSetsFinite, SumInt
    <2> QED BY <2>2, <2>3
  <1> HIDE DEF C, D, W
  <1>13. C' <= D' + W'
    <2>1. PICK c, d, w, c1, d1, w1 : /\ c = C /\ d = D /\ w = W
                                     /\ c1 = C' /\ d1 = D' /\ w1 = W'
      OBVIOUS
    <2>2. amount \in Int /\ credit \in Int /\ c \in Int /\ d \in Int /\ w \in Int /\ w1 \in Int
      BY <1>1, <1>7, <1>12, <2>1
    <2>3. c1 = c + amount /\ d1 = d + credit /\ w1 + credit = w + amount /\ c <= d + w
      BY <1>8, <1>9, <1>10, <1>11, <2>1
    <2>4. c1 <= d1 + w1
      BY <2>2, <2>3
    <2> QED BY <2>1, <2>4
  <1> QED BY <1>13 DEF Balanced, C, D, W, index

\* What init_airdrop fixes.
SameTerms(a, b) ==
    /\ a.distributor = b.distributor
    /\ a.merkle_root = b.merkle_root
    /\ a.bucket_table = b.bucket_table
    /\ a.expiry_unix = b.expiry_unix
    /\ a.recovery_address = b.recovery_address

\* The owner of an account and the terms of an airdrop are for good.
LEMMA NothingGivenUp ==
    ASSUME TypeOK, [Next]_vars
    PROVE  /\ \A w \in Wallets :
                wallet[w].owner # "default" => wallet'[w].owner = wallet[w].owner
           /\ \A id \in AirdropIds : airdrop[id] # Default =>
                /\ airdrop'[id] # Default
                /\ SameTerms(airdrop'[id], airdrop[id])
  <1> DEFINE Owners1 == \A w \in Wallets :
                wallet[w].owner # "default" => wallet'[w].owner = wallet[w].owner
             Kept(i) == airdrop[i] # Default =>
                /\ airdrop'[i] # Default
                /\ SameTerms(airdrop'[i], airdrop[i])
             Terms1 == \A i \in AirdropIds : Kept(i)
  <1>0. ASSUME NEW id \in AirdropIds, NEW new \in AirdropState,
               airdrop' = [airdrop EXCEPT ![id] = new],
               airdrop[id] # Default => SameTerms(new, airdrop[id])
        PROVE  Terms1
    <2>1. new # Default
      BY ConstantsAssumption
    <2>2. \A i \in AirdropIds : airdrop'[i] = IF i = id THEN new ELSE airdrop[i]
      BY <1>0 DEF TypeOK
    <2> QED BY <1>0, <2>1, <2>2 DEF SameTerms
  <1>1. ASSUME NEW id, NEW n, NEW amount, NEW credit, ClaimStep(id, n, amount, credit)
        PROVE  Owners1 /\ Terms1
    <2>1. Owners1
      <3>1. CASE wallet' = wallet
        BY <3>1
      <3>2. CASE \E dest \in Wallets :
                   /\ wallet[dest] = Untouched
                   /\ wallet' = [wallet EXCEPT ![dest] =
                                   [owner |-> "program", balance |-> amount]]
        <4>1. PICK dest \in Wallets :
                   /\ wallet[dest] = Untouched
                   /\ wallet' = [wallet EXCEPT ![dest] =
                                   [owner |-> "program", balance |-> amount]]
          BY <3>2
        <4>2. wallet[dest].owner = "default"
          BY <4>1 DEF Untouched
        <4>3. \A w \in Wallets : w # dest => wallet'[w] = wallet[w]
          BY <4>1 DEF TypeOK
        <4> QED BY <4>2, <4>3
      <3> QED BY <1>1, <3>1, <3>2 DEF ClaimStep
    <2>2. /\ id \in AirdropIds /\ airdrop[id] \in AirdropState
          /\ airdrop[id].total_claimed + amount \in 0 .. U64Max
      <3>1. id \in AirdropIds /\ airdrop[id] \in AirdropState /\ amount \in Nat
        BY <1>1 DEF ClaimStep, Active, TypeOK
      <3>2. airdrop[id].total_claimed \in 0 .. U64Max
        BY <3>1 DEF AirdropState
      <3>3. airdrop[id].total_claimed + amount <= U64Max
        BY <1>1 DEF ClaimStep, VaultCovers, checked_add_u64
      <3> QED BY <3>1, <3>2, <3>3, ConstantsAssumption
    <2> DEFINE new == [airdrop[id] EXCEPT !.total_claimed = airdrop[id].total_claimed + amount]
    <2>3. new \in AirdropState /\ SameTerms(new, airdrop[id])
      BY <2>2 DEF AirdropState, SameTerms
    <2>4. airdrop' = [airdrop EXCEPT ![id] = new]
      BY <1>1 DEF ClaimStep, Debit
    <2> HIDE DEF new
    <2>5. Terms1
      BY <1>0, <2>2, <2>3, <2>4
    <2> QED BY <2>1, <2>5
  <1>2. CASE InitAirdrop
    <2>1. PICK id \in AirdropIds, d \in Wallets, args \in InitArgs : init_airdrop(id, d, args)
      BY <1>2 DEF InitAirdrop
    <2> DEFINE new == [distributor |-> d, merkle_root |-> args.merkle_root,
          bucket_table |-> args.bucket_table, expiry_unix |-> args.expiry_unix,
          recovery_address |-> args.recovery_address, total_funded |-> 0,
          total_claimed |-> 0, status |-> "active"]
    <2>2. new \in AirdropState
      BY ConstantsAssumption DEF InitArg, AirdropState
    <2>3. airdrop' = [airdrop EXCEPT ![id] = new] /\ airdrop[id] = Default /\ wallet' = wallet
      BY <2>1 DEF init_airdrop
    <2> HIDE DEF new
    <2>4. Terms1
      BY <1>0, <2>2, <2>3
    <2> QED BY <2>3, <2>4
  <1>3. CASE Fund
    <2>1. PICK id \in AirdropIds, s \in Wallets, amount \in Amounts, now \in CallerTimes :
            fund(id, s, amount, now)
      BY <1>3 DEF Fund
    <2>2. /\ airdrop[id] \in AirdropState /\ wallet' = wallet
          /\ airdrop[id].total_funded + amount \in 0 .. U64Max
      <3>1. airdrop[id] \in AirdropState /\ wallet' = wallet
            /\ airdrop[id].total_funded + amount <= U64Max
        BY <2>1 DEF fund, ensure_active, checked_add_u64, TypeOK
      <3>2. airdrop[id].total_funded \in 0 .. U64Max
        BY <3>1 DEF AirdropState
      <3> QED BY <3>1, <3>2, ConstantsAssumption
    <2> DEFINE new == [airdrop[id] EXCEPT !.total_funded = airdrop[id].total_funded + amount]
    <2>3. new \in AirdropState /\ SameTerms(new, airdrop[id])
      BY <2>2 DEF AirdropState, SameTerms
    <2>4. airdrop' = [airdrop EXCEPT ![id] = new]
      BY <2>1 DEF fund
    <2> HIDE DEF new
    <2>5. Terms1
      BY <1>0, <2>2, <2>3, <2>4
    <2> QED BY <2>2, <2>5
  <1>4. CASE Close
    <2>1. PICK id \in AirdropIds, s \in Wallets : close(id, s)
      BY <1>4 DEF Close
    <2>2. airdrop[id] \in AirdropState
      BY <2>1 DEF close, ensure_distributor, TypeOK, close_checks
    <2> DEFINE new == [airdrop[id] EXCEPT !.status = "closed"]
    <2>3. new \in AirdropState /\ SameTerms(new, airdrop[id])
      BY <2>2 DEF AirdropState, SameTerms
    <2>4. airdrop' = [airdrop EXCEPT ![id] = new]
      BY <2>1 DEF close, Sweep, close_checks
    <2> HIDE DEF new
    <2>5. Terms1
      BY <1>0, <2>3, <2>4
    <2>6. PICK to : to = airdrop[id].recovery_address
      OBVIOUS
    <2>7. wallet' = [wallet EXCEPT ![to] =
              [wallet[to] EXCEPT !.balance = wallet[to].balance + vault[id].balance]]
      BY <2>1, <2>6 DEF close, Sweep, close_checks
    <2>8. \A w \in Wallets : wallet'[w].owner = wallet[w].owner
      BY <2>7 DEF TypeOK, NativeAccount
    <2> QED BY <2>5, <2>8
  <1>5. CASE Transfer
    <2>1. PICK id \in AirdropIds, from \in Wallets, amount \in Amounts : transfer(from, id, amount)
      BY <1>5 DEF Transfer
    <2>2. /\ airdrop' = airdrop
          /\ wallet' = [wallet EXCEPT ![from] =
                [wallet[from] EXCEPT !.balance = wallet[from].balance - amount]]
      BY <2>1 DEF transfer
    <2>3. \A w \in Wallets : wallet'[w].owner = wallet[w].owner
      BY <2>2 DEF TypeOK, NativeAccount
    <2> QED BY <2>2, <2>3 DEF SameTerms
  <1>6. CASE Touch
    <2>1. airdrop' = airdrop
      BY <1>6, TouchIsHarmless
    <2>2. CASE \E from \in Wallets, amount \in Amounts, to \in Wallets :
                 touch_recipient(from, to, amount)
      <3>1. PICK from \in Wallets, amount \in Amounts, to \in Wallets :
              touch_recipient(from, to, amount)
        BY <2>2
      <3>2. PICK owner \in OwnersAfterCredit(wallet[to], NewAccount(to)) :
              wallet' = [wallet EXCEPT
                 ![from] = [wallet[from] EXCEPT !.balance = wallet[from].balance - amount],
                 ![to] = [owner |-> owner, balance |-> wallet[to].balance + amount]]
        BY <3>1 DEF touch_recipient, TypeOK
      <3>3. wallet[to].owner # "default" => owner = wallet[to].owner
        BY <3>2 DEF OwnersAfterCredit
      <3>4. wallet'[to].owner = owner
        BY <3>2 DEF TypeOK
      <3>5. \A w \in Wallets : w # to => wallet'[w].owner = wallet[w].owner
        BY <3>2 DEF TypeOK, NativeAccount
      <3> QED BY <2>1, <3>3, <3>4, <3>5 DEF SameTerms
    <2>3. CASE \E from \in Wallets, amount \in Amounts, id \in AirdropIds, n \in Nullifiers :
                 touch_record(from, id, n, amount)
      <3>1. PICK from \in Wallets, amount \in Amounts :
              wallet' = [wallet EXCEPT ![from] =
                  [wallet[from] EXCEPT !.balance = wallet[from].balance - amount]]
        BY <2>3 DEF touch_record
      <3>2. \A w \in Wallets : wallet'[w].owner = wallet[w].owner
        BY <3>1 DEF TypeOK, NativeAccount
      <3> QED BY <2>1, <3>2 DEF SameTerms
    <2> QED BY <1>6, <2>2, <2>3 DEF Touch
  <1>7. CASE Tick \/ UNCHANGED vars
    BY <1>7 DEF Tick, vars, SameTerms
  <1> QED BY <1>1, <1>2, <1>3, <1>4, <1>5, <1>6, <1>7, NextIsClaimOrNot

LEMMA OneStaysOpen ==
    ASSUME NEW id \in AirdropIds
    PROVE  Spec => StaysOpen(id)
  <1>1. TypeOK /\ [Next]_vars /\ Recoverable(id) => Recoverable(id)'
    <2> SUFFICES ASSUME TypeOK, [Next]_vars, Recoverable(id) PROVE Recoverable(id)'
      OBVIOUS
    <2>1. /\ airdrop'[id] # Default
          /\ airdrop'[id].recovery_address = airdrop[id].recovery_address
          /\ airdrop'[id].distributor = airdrop[id].distributor
      BY NothingGivenUp DEF Recoverable, SameTerms
    <2>2. PICK to \in Wallets : to = airdrop[id].recovery_address
      BY DEF TypeOK, AirdropState, Recoverable
    <2>3. wallet'[to].owner = wallet[to].owner
      BY <2>2, NothingGivenUp DEF Recoverable
    <2> QED BY <2>1, <2>2, <2>3 DEF Recoverable
  <1>2. Recoverable(id) => close_checks(id, airdrop[id].distributor)
    BY DEF Recoverable, close_checks, ensure_distributor, RecoveryAccepts
  <1> QED BY <1>1, <1>2, TypeCorrect, PTL DEF Spec, StaysOpen

\* Once the recovery account of an airdrop has an owner and is not the distributor,
\* the distributor's close passes its checks in that state and in every later one:
\* no transfer, claim, close or other airdrop ever takes the way back away (close).
THEOREM RecoveryNeverCloses == Spec => RecoveryStaysOpen
  BY OneStaysOpen DEF RecoveryStaysOpen

LEMMA ClaimedSame ==
    ASSUME TypeOK, NEW id \in AirdropIds, NEW new \in AirdropState,
           airdrop' = [airdrop EXCEPT ![id] = new],
           new.total_claimed = IF airdrop[id] = Default THEN 0 ELSE airdrop[id].total_claimed
    PROVE  ClaimedOf' = ClaimedOf
  <1>1. new # Default
    BY ConstantsAssumption
  <1>2. \A i \in AirdropIds : airdrop'[i] = IF i = id THEN new ELSE airdrop[i]
    BY DEF TypeOK
  <1> QED BY <1>1, <1>2 DEF ClaimedOf

\* No other step changes what is counted as claimed or takes anything out of a
\* payout account: the program owns it and debits vaults only.
LEMMA OthersKeepPayouts ==
    ASSUME TypeOK,
           InitAirdrop \/ Fund \/ Close \/ Transfer \/ Touch \/ Tick \/ UNCHANGED vars
    PROVE  /\ ClaimedOf' = ClaimedOf
           /\ \A id \in AirdropIds, n \in Nullifiers :
                /\ nullifier_record'[id][n].claimed = nullifier_record[id][n].claimed
                /\ nullifier_record'[id][n].balance >= nullifier_record[id][n].balance
           /\ \A w \in Wallets : wallet[w].owner = "program" =>
                wallet'[w].balance >= wallet[w].balance
  <1> DEFINE RecordsKept == \A id \in AirdropIds, n \in Nullifiers :
                /\ nullifier_record'[id][n].claimed = nullifier_record[id][n].claimed
                /\ nullifier_record'[id][n].balance >= nullifier_record[id][n].balance
             WalletsKept == \A w \in Wallets : wallet[w].owner = "program" =>
                wallet'[w].balance >= wallet[w].balance
  <1>a. ASSUME nullifier_record' = nullifier_record PROVE RecordsKept
    <2>1. \A id \in AirdropIds, n \in Nullifiers : nullifier_record[id][n].balance \in Nat
      BY DEF TypeOK
    <2> QED BY <1>a, <2>1
  <1>b. \A w \in Wallets : wallet[w].balance \in Nat
    BY DEF TypeOK, NativeAccount
  <1>1. CASE InitAirdrop
    <2>1. PICK id \in AirdropIds, d \in Wallets, args \in InitArgs : init_airdrop(id, d, args)
      BY <1>1 DEF InitAirdrop
    <2> DEFINE new == [distributor |-> d, merkle_root |-> args.merkle_root,
          bucket_table |-> args.bucket_table, expiry_unix |-> args.expiry_unix,
          recovery_address |-> args.recovery_address, total_funded |-> 0,
          total_claimed |-> 0, status |-> "active"]
    <2>2. new \in AirdropState /\ new.total_claimed = 0
      BY ConstantsAssumption DEF InitArg, AirdropState
    <2>3. /\ airdrop' = [airdrop EXCEPT ![id] = new] /\ airdrop[id] = Default
          /\ nullifier_record' = nullifier_record /\ wallet' = wallet
      BY <2>1 DEF init_airdrop
    <2> HIDE DEF new
    <2>4. ClaimedOf' = ClaimedOf
      BY <2>2, <2>3, ClaimedSame
    <2> QED BY <1>a, <1>b, <2>3, <2>4
  <1>2. CASE Fund
    <2>1. PICK id \in AirdropIds, s \in Wallets, amount \in Amounts, now \in CallerTimes :
            fund(id, s, amount, now)
      BY <1>2 DEF Fund
    <2>2. /\ airdrop[id] \in AirdropState /\ airdrop[id] # Default
          /\ airdrop[id].total_funded + amount \in 0 .. U64Max
      <3>1. airdrop[id] \in AirdropState /\ airdrop[id] # Default
            /\ airdrop[id].total_funded + amount <= U64Max
        BY <2>1 DEF fund, ensure_active, checked_add_u64, TypeOK
      <3>2. airdrop[id].total_funded \in 0 .. U64Max
        BY <3>1 DEF AirdropState
      <3> QED BY <3>1, <3>2, ConstantsAssumption
    <2> DEFINE new == [airdrop[id] EXCEPT !.total_funded = airdrop[id].total_funded + amount]
    <2>3. new \in AirdropState /\ new.total_claimed = airdrop[id].total_claimed
      BY <2>2 DEF AirdropState
    <2>4. /\ airdrop' = [airdrop EXCEPT ![id] = new]
          /\ nullifier_record' = nullifier_record /\ wallet' = wallet
      BY <2>1 DEF fund
    <2> HIDE DEF new
    <2>5. ClaimedOf' = ClaimedOf
      BY <2>2, <2>3, <2>4, ClaimedSame
    <2> QED BY <1>a, <1>b, <2>4, <2>5
  <1>3. CASE Close
    <2>1. PICK id \in AirdropIds, s \in Wallets : close(id, s)
      BY <1>3 DEF Close
    <2>2. airdrop[id] \in AirdropState /\ airdrop[id] # Default
      BY <2>1 DEF close, ensure_distributor, TypeOK, close_checks
    <2> DEFINE new == [airdrop[id] EXCEPT !.status = "closed"]
    <2>3. new \in AirdropState /\ new.total_claimed = airdrop[id].total_claimed
      BY <2>2 DEF AirdropState
    <2>4. /\ airdrop' = [airdrop EXCEPT ![id] = new]
          /\ nullifier_record' = nullifier_record
          /\ wallet' = [wallet EXCEPT ![airdrop[id].recovery_address].balance =
                          wallet[airdrop[id].recovery_address].balance + vault[id].balance]
      BY <2>1 DEF close, Sweep, close_checks
    <2> HIDE DEF new
    <2>5. ClaimedOf' = ClaimedOf
      BY <2>2, <2>3, <2>4, ClaimedSame
    <2>6. WalletsKept
      <3>1. vault[id].balance \in Nat
        BY DEF TypeOK, NativeAccount
      <3>2. \A w \in Wallets :
              \/ wallet'[w] = wallet[w]
              \/ wallet'[w].balance = wallet[w].balance + vault[id].balance
        BY <2>4 DEF TypeOK, NativeAccount
      <3> QED BY <1>b, <3>1, <3>2
    <2> QED BY <1>a, <2>4, <2>5, <2>6
  <1>4. CASE Transfer
    <2>1. PICK id \in AirdropIds, from \in Wallets, amount \in Amounts : transfer(from, id, amount)
      BY <1>4 DEF Transfer
    <2>2. /\ airdrop' = airdrop /\ nullifier_record' = nullifier_record
          /\ wallet[from].owner = "transfer"
          /\ wallet' = [wallet EXCEPT ![from].balance = wallet[from].balance - amount]
      BY <2>1 DEF transfer, Sends
    <2>3. WalletsKept
      BY <1>b, <2>2 DEF TypeOK
    <2> QED BY <1>a, <2>2, <2>3 DEF ClaimedOf
  <1>5. CASE Touch
    <2>1. /\ airdrop' = airdrop
          /\ RecordsKept
      BY <1>5, TouchIsHarmless
    <2>2. WalletsKept
      <3>1. CASE \E from \in Wallets, amount \in Amounts, to \in Wallets :
                   touch_recipient(from, to, amount)
        <4>1. PICK from \in Wallets, amount \in Amounts, to \in Wallets :
                touch_recipient(from, to, amount)
          BY <3>1
        <4>2. PICK owner \in OwnersAfterCredit(wallet[to], NewAccount(to)) :
                wallet' = [wallet EXCEPT
                   ![from] = [wallet[from] EXCEPT !.balance = wallet[from].balance - amount],
                   ![to] = [owner |-> owner, balance |-> wallet[to].balance + amount]]
          BY <4>1 DEF touch_recipient, TypeOK
        <4>3. wallet[from].owner = "transfer" /\ amount \in Nat
          BY <4>1, ConstantsAssumption DEF touch_recipient, Sends
        <4>4. wallet'[to].balance = wallet[to].balance + amount
          BY <4>2 DEF TypeOK
        <4>5. \A w \in Wallets : w # to /\ w # from => wallet'[w] = wallet[w]
          BY <4>2 DEF TypeOK
        <4>6. ASSUME NEW w \in Wallets, wallet[w].owner = "program"
              PROVE  wallet'[w].balance >= wallet[w].balance
          BY <1>b, <4>3, <4>4, <4>5, <4>6
        <4> QED BY <4>6
      <3>2. CASE \E from \in Wallets, amount \in Amounts, id \in AirdropIds, n \in Nullifiers :
                   touch_record(from, id, n, amount)
        <4>1. PICK from \in Wallets, amount \in Amounts :
                /\ wallet[from].owner = "transfer"
                /\ wallet' = [wallet EXCEPT ![from].balance = wallet[from].balance - amount]
          BY <3>2 DEF touch_record, Sends
        <4> QED BY <1>b, <4>1 DEF TypeOK
      <3> QED BY <1>5, <3>1, <3>2 DEF Touch
    <2> QED BY <2>1, <2>2 DEF ClaimedOf
  <1>6. CASE Tick \/ UNCHANGED vars
    BY <1>6, <1>a, <1>b DEF Tick, vars, ClaimedOf
  <1> QED BY <1>1, <1>2, <1>3, <1>4, <1>5, <1>6

LEMMA OthersBalanced ==
    ASSUME TypeOK, TypeOK', Balanced, [Next]_vars,
           InitAirdrop \/ Fund \/ Close \/ Transfer \/ Touch \/ Tick \/ UNCHANGED vars
    PROVE  Balanced'
  <1> DEFINE index == AirdropIds \X Nullifiers
  <1>1. /\ ClaimedOf' = ClaimedOf
        /\ \A r \in index : RecordedOf[r] <= RecordedOf'[r]
        /\ \A w \in Wallets : ReceivedOf[w] <= ReceivedOf'[w]
    <2>1. \A r \in index : RecordedOf[r] <= RecordedOf'[r]
      <3> SUFFICES ASSUME NEW r \in index PROVE RecordedOf[r] <= RecordedOf'[r]
        OBVIOUS
      <3>1. r[1] \in AirdropIds /\ r[2] \in Nullifiers
        OBVIOUS
      <3>2. PICK x, y : x = nullifier_record[r[1]][r[2]] /\ y = nullifier_record'[r[1]][r[2]]
        OBVIOUS
      <3>3. x.claimed = y.claimed /\ y.balance >= x.balance
        BY <3>1, <3>2, OthersKeepPayouts
      <3>4. RecordedOf[r] = (IF x.claimed THEN x.balance ELSE 0)
        BY <3>2 DEF RecordedOf
      <3>5. RecordedOf'[r] = (IF y.claimed THEN y.balance ELSE 0)
        BY <3>2 DEF RecordedOf
      <3>6. x.balance \in Nat /\ y.balance \in Nat
        BY <3>1, <3>2 DEF TypeOK
      <3> QED BY <3>3, <3>4, <3>5, <3>6
    <2>2. \A w \in Wallets : ReceivedOf[w] <= ReceivedOf'[w]
      <3> SUFFICES ASSUME NEW w \in Wallets PROVE ReceivedOf[w] <= ReceivedOf'[w]
        OBVIOUS
      <3>1. wallet[w].balance \in Nat /\ wallet'[w].balance \in Nat
        BY DEF TypeOK, NativeAccount
      <3>2. wallet[w].owner = "program" =>
              wallet'[w].owner = "program" /\ wallet'[w].balance >= wallet[w].balance
        BY NothingGivenUp, OthersKeepPayouts
      <3> QED BY <3>1, <3>2 DEF ReceivedOf
    <2> QED BY <2>1, <2>2, OthersKeepPayouts
  <1>2. PICK c, d, w, c1, d1, w1 : /\ c = ClaimedOf /\ d = RecordedOf /\ w = ReceivedOf
                                   /\ c1 = ClaimedOf' /\ d1 = RecordedOf' /\ w1 = ReceivedOf'
    OBVIOUS
  <1>3. /\ c = c1
        /\ \A r \in index : d[r] \in Int /\ d1[r] \in Int /\ d[r] <= d1[r]
        /\ \A x \in Wallets : w[x] \in Int /\ w1[x] \in Int /\ w[x] <= w1[x]
        /\ \A x \in AirdropIds : c[x] \in Int
    <2>1. /\ c \in [AirdropIds -> Int]
          /\ d \in [index -> Int]
          /\ w \in [Wallets -> Int]
      BY <1>2, SummandsTyped
    <2>2. /\ \A r \in index : d1[r] \in Int
          /\ \A x \in Wallets : w1[x] \in Int
      <3>1. \A r \in index : RecordedOf'[r] \in Int
        <4> SUFFICES ASSUME NEW r \in index PROVE RecordedOf'[r] \in Int
          OBVIOUS
        <4>1. r[1] \in AirdropIds /\ r[2] \in Nullifiers
          OBVIOUS
        <4>2. nullifier_record'[r[1]][r[2]].balance \in Int
          BY <4>1 DEF TypeOK
        <4> QED BY <4>2 DEF RecordedOf
      <3>2. \A x \in Wallets : ReceivedOf'[x] \in Int
        BY DEF ReceivedOf, TypeOK, NativeAccount
      <3> QED BY <1>2, <3>1, <3>2
    <2>3. c = c1 /\ (\A r \in index : d[r] <= d1[r]) /\ (\A x \in Wallets : w[x] <= w1[x])
      BY <1>1, <1>2
    <2> HIDE DEF index
    <2> QED BY <2>1, <2>2, <2>3
  <1>4. IsFiniteSet(AirdropIds) /\ IsFiniteSet(index) /\ IsFiniteSet(Wallets)
    BY IndexSetsFinite
  <1> HIDE DEF index
  <1>5. SumFunctionOnSet(d, index) <= SumFunctionOnSet(d1, index)
    BY <1>3, <1>4, SumAtMost
  <1>6. SumFunctionOnSet(w, Wallets) <= SumFunctionOnSet(w1, Wallets)
    BY <1>3, <1>4, SumAtMost
  <1>7. /\ SumFunctionOnSet(d, index) \in Int /\ SumFunctionOnSet(d1, index) \in Int
        /\ SumFunctionOnSet(w, Wallets) \in Int /\ SumFunctionOnSet(w1, Wallets) \in Int
        /\ SumFunctionOnSet(c, AirdropIds) \in Int
    BY <1>3, <1>4, SumInt
  <1>8. SumFunctionOnSet(c, AirdropIds) <= SumFunctionOnSet(d, index) + SumFunctionOnSet(w, Wallets)
    BY <1>2 DEF Balanced, index
  <1>9. SumFunctionOnSet(c1, AirdropIds) <= SumFunctionOnSet(d1, index) + SumFunctionOnSet(w1, Wallets)
    BY <1>3, <1>5, <1>6, <1>7, <1>8
  <1> QED BY <1>2, <1>9 DEF Balanced, index

\* Custody of the claimed money: what the airdrops count as claimed was paid into
\* records of spent nullifiers or recipients claim_ppe made, and stays there,
\* whatever the mix of claim paths, deposits, closes and donations.
THEOREM ClaimsArePaidOut == Spec => []ClaimedIsPaidOut
  <1> DEFINE Inv == OwnerKept /\ Balanced
  <1>1. Init => Inv
    <2> SUFFICES ASSUME Init PROVE Inv
      OBVIOUS
    <2>1. OwnerKept
      BY DEF Init, OwnerKept
    <2>2. /\ \A id \in AirdropIds : ClaimedOf[id] = 0
          /\ \A r \in AirdropIds \X Nullifiers : RecordedOf[r] = 0
          /\ \A w \in Wallets : ReceivedOf[w] = 0
      BY DEF Init, ClaimedOf, RecordedOf, ReceivedOf, UntouchedRecord
    <2>3. PICK f, g, h : f = ClaimedOf /\ g = RecordedOf /\ h = ReceivedOf
      OBVIOUS
    <2>4. /\ SumFunctionOnSet(f, AirdropIds) = 0
          /\ SumFunctionOnSet(g, AirdropIds \X Nullifiers) = 0
          /\ SumFunctionOnSet(h, Wallets) = 0
      BY <2>2, <2>3, IndexSetsFinite, SumZero
    <2> QED BY <2>1, <2>3, <2>4 DEF Balanced
  <1>2. (TypeOK /\ Solvent) /\ Inv /\ [Next]_vars => Inv'
    <2> SUFFICES ASSUME TypeOK, Solvent, Inv, [Next]_vars PROVE Inv'
      OBVIOUS
    <2>1. OwnerKept'
      BY NothingGivenUp DEF OwnerKept
    <2>2. CASE \E id, n, amount, credit : ClaimStep(id, n, amount, credit)
      BY <2>1, <2>2, ClaimStepBalanced
    <2>3. CASE InitAirdrop \/ Fund \/ Close \/ Transfer \/ Touch \/ Tick \/ UNCHANGED vars
      BY <2>1, <2>3, NextPreservesInv, OthersBalanced
    <2> QED BY <2>2, <2>3, NextIsClaimOrNot
  <1>3. Inv => ClaimedIsPaidOut
    BY PaidOutMeans
  <1> QED BY <1>1, <1>2, <1>3, TypeCorrect, AlwaysSolvent, PTL DEF Spec

-----------------------------------------------------------------------------
(* The money, to the unit: what every step does to three sums of balances.  *)

VaultOf == [id \in AirdropIds |-> vault[id].balance]
RecordOf == [r \in AirdropIds \X Nullifiers |-> nullifier_record[r[1]][r[2]].balance]
WalletOf == [w \in Wallets |-> wallet[w].balance]
InitialOf == [w \in Wallets |-> InitialWallet[w].balance]

InVaults == SumFunctionOnSet(VaultOf, AirdropIds)
InRecords == SumFunctionOnSet(RecordOf, AirdropIds \X Nullifiers)
InWallets == SumFunctionOnSet(WalletOf, Wallets)
Conserved == InVaults + InRecords + InWallets = SumFunctionOnSet(InitialOf, Wallets)

LEMMA ConservedMeans == MoneyConserved <=> Conserved
  <1>1. /\ DOMAIN VaultOf = AirdropIds
        /\ DOMAIN RecordOf = AirdropIds \X Nullifiers
        /\ DOMAIN WalletOf = Wallets
        /\ DOMAIN InitialOf = Wallets
    BY DEF VaultOf, RecordOf, WalletOf, InitialOf
  <1>2. MoneyConserved <=>
          SumFunction(VaultOf) + SumFunction(RecordOf) + SumFunction(WalletOf)
            = SumFunction(InitialOf)
    BY DEF MoneyConserved, VaultOf, RecordOf, WalletOf, InitialOf
  <1> QED BY <1>1, <1>2 DEF Conserved, InVaults, InRecords, InWallets, SumFunction

LEMMA BalancesTyped ==
    ASSUME TypeOK
    PROVE  /\ \A i \in AirdropIds : VaultOf[i] \in Int
           /\ \A r \in AirdropIds \X Nullifiers : RecordOf[r] \in Int
           /\ \A w \in Wallets : WalletOf[w] \in Int
           /\ InVaults \in Int /\ InRecords \in Int /\ InWallets \in Int
  <1>1. \A i \in AirdropIds : VaultOf[i] \in Int
    BY DEF TypeOK, NativeAccount, VaultOf
  <1>2. \A r \in AirdropIds \X Nullifiers : RecordOf[r] \in Int
    <2> SUFFICES ASSUME NEW r \in AirdropIds \X Nullifiers PROVE RecordOf[r] \in Int
      OBVIOUS
    <2>1. r[1] \in AirdropIds /\ r[2] \in Nullifiers
      OBVIOUS
    <2>2. nullifier_record[r[1]][r[2]].balance \in Int
      BY <2>1 DEF TypeOK
    <2> QED BY <2>2 DEF RecordOf
  <1>3. \A w \in Wallets : WalletOf[w] \in Int
    BY DEF TypeOK, NativeAccount, WalletOf
  <1> DEFINE index == AirdropIds \X Nullifiers
  <1>4. PICK f, g, h : f = VaultOf /\ g = RecordOf /\ h = WalletOf
    OBVIOUS
  <1>5. IsFiniteSet(AirdropIds) /\ IsFiniteSet(index) /\ IsFiniteSet(Wallets)
    BY IndexSetsFinite
  <1>6. /\ SumFunctionOnSet(f, AirdropIds) \in Int
        /\ SumFunctionOnSet(g, index) \in Int
        /\ SumFunctionOnSet(h, Wallets) \in Int
    <2>1. \A r \in index : g[r] \in Int
      BY <1>2, <1>4
    <2> HIDE DEF index
    <2> QED BY <1>1, <1>3, <1>4, <1>5, <2>1, SumInt
  <1> QED BY <1>1, <1>2, <1>3, <1>4, <1>6 DEF InVaults, InRecords, InWallets

\* How a sum moves with one balance.
LEMMA VaultMoves ==
    ASSUME TypeOK, NEW id \in AirdropIds, NEW d \in Int,
           \A i \in AirdropIds :
             vault'[i].balance = IF i = id THEN vault[i].balance + d ELSE vault[i].balance
    PROVE  InVaults' = InVaults + d
  <1>1. PICK f, g : f = VaultOf /\ g = VaultOf'
    OBVIOUS
  <1>2. \A i \in AirdropIds : f[i] \in Int /\ g[i] = IF i = id THEN f[id] + d ELSE f[i]
    BY <1>1, BalancesTyped DEF VaultOf
  <1>3. SumFunctionOnSet(g, AirdropIds) = SumFunctionOnSet(f, AirdropIds) + d
    BY <1>2, IndexSetsFinite, SumIncrease
  <1> QED BY <1>1, <1>3 DEF InVaults

LEMMA RecordMoves ==
    ASSUME TypeOK, NEW id \in AirdropIds, NEW n \in Nullifiers, NEW d \in Int,
           \A i \in AirdropIds, m \in Nullifiers :
             nullifier_record'[i][m].balance =
               IF i = id /\ m = n THEN nullifier_record[i][m].balance + d
               ELSE nullifier_record[i][m].balance
    PROVE  InRecords' = InRecords + d
  <1> DEFINE index == AirdropIds \X Nullifiers
             at == <<id, n>>
  <1>1. PICK f, g : f = RecordOf /\ g = RecordOf'
    OBVIOUS
  <1>2. \A r \in index : f[r] \in Int
    BY <1>1, BalancesTyped
  <1>3. \A r \in index : g[r] = IF r = at THEN f[at] + d ELSE f[r]
    <2> SUFFICES ASSUME NEW r \in index PROVE g[r] = IF r = at THEN f[at] + d ELSE f[r]
      OBVIOUS
    <2>1. r[1] \in AirdropIds /\ r[2] \in Nullifiers /\ r = <<r[1], r[2]>>
      OBVIOUS
    <2>2. /\ f[r] = nullifier_record[r[1]][r[2]].balance
          /\ g[r] = nullifier_record'[r[1]][r[2]].balance
      BY <1>1 DEF RecordOf
    <2>3. (r[1] = id /\ r[2] = n) <=> r = at
      BY <2>1
    <2> HIDE DEF at
    <2> QED BY <2>1, <2>2, <2>3
  <1>4. IsFiniteSet(index) /\ at \in index
    BY IndexSetsFinite
  <1>5. SumFunctionOnSet(g, index) = SumFunctionOnSet(f, index) + d
    <2> HIDE DEF index, at
    <2> QED BY <1>2, <1>3, <1>4, SumIncrease
  <1> QED BY <1>1, <1>5 DEF InRecords

LEMMA WalletMoves ==
    ASSUME TypeOK, NEW to \in Wallets, NEW d \in Int,
           \A w \in Wallets :
             wallet'[w].balance = IF w = to THEN wallet[w].balance + d ELSE wallet[w].balance
    PROVE  InWallets' = InWallets + d
  <1>1. PICK f, g : f = WalletOf /\ g = WalletOf'
    OBVIOUS
  <1>2. \A w \in Wallets : f[w] \in Int /\ g[w] = IF w = to THEN f[to] + d ELSE f[w]
    BY <1>1, BalancesTyped DEF WalletOf
  <1>3. SumFunctionOnSet(g, Wallets) = SumFunctionOnSet(f, Wallets) + d
    BY <1>2, IndexSetsFinite, SumIncrease
  <1> QED BY <1>1, <1>3 DEF InWallets

\* A payment from one wallet to another moves nothing in all.
LEMMA WalletPays ==
    ASSUME TypeOK, NEW from \in Wallets, NEW to \in Wallets, from # to, NEW d \in Int,
           \A w \in Wallets :
             wallet'[w].balance = IF w = to THEN wallet[w].balance + d
                                  ELSE IF w = from THEN wallet[w].balance - d
                                  ELSE wallet[w].balance
    PROVE  InWallets' = InWallets
  <1>1. PICK f, h : f = WalletOf /\ h = WalletOf'
    OBVIOUS
  <1>2. PICK g : g = [w \in Wallets |-> IF w = from THEN f[from] + (0 - d) ELSE f[w]]
    OBVIOUS
  <1>3. \A w \in Wallets : f[w] \in Int /\ g[w] = IF w = from THEN f[from] + (0 - d) ELSE f[w]
    BY <1>1, <1>2, BalancesTyped
  <1>4. \A w \in Wallets : g[w] \in Int /\ h[w] = IF w = to THEN g[to] + d ELSE g[w]
    BY <1>1, <1>3 DEF WalletOf
  <1>5. SumFunctionOnSet(g, Wallets) = SumFunctionOnSet(f, Wallets) + (0 - d)
    BY <1>3, IndexSetsFinite, SumIncrease
  <1>6. SumFunctionOnSet(h, Wallets) = SumFunctionOnSet(g, Wallets) + d
    BY <1>4, IndexSetsFinite, SumIncrease
  <1>7. SumFunctionOnSet(f, Wallets) \in Int
    BY <1>3, IndexSetsFinite, SumInt
  <1> QED BY <1>1, <1>5, <1>6, <1>7 DEF InWallets

LEMMA ClaimConserves ==
    ASSUME TypeOK, NEW id, NEW n, NEW amount, NEW credit, ClaimStep(id, n, amount, credit)
    PROVE  InVaults' + InRecords' + InWallets' = InVaults + InRecords + InWallets
  <1>1. /\ id \in AirdropIds /\ n \in Nullifiers /\ amount \in Int /\ credit \in Int
    BY DEF ClaimStep
  <1>2. InVaults' = InVaults + (0 - amount)
    <2>1. vault' = [vault EXCEPT ![id] = [vault[id] EXCEPT !.balance = vault[id].balance - amount]]
      BY DEF ClaimStep, Debit
    <2>2. \A i \in AirdropIds :
            vault'[i].balance = IF i = id THEN vault[i].balance + (0 - amount) ELSE vault[i].balance
      BY <1>1, <2>1 DEF TypeOK, NativeAccount
    <2> QED BY <1>1, <2>2, VaultMoves
  <1>3. InRecords' = InRecords + credit
    <2> DEFINE new == [claimed |-> TRUE, balance |-> nullifier_record[id][n].balance + credit]
    <2>1. nullifier_record' = [nullifier_record EXCEPT ![id] =
              [nullifier_record[id] EXCEPT ![n] = new]]
      BY DEF ClaimStep, SpendNullifier
    <2>2. new.balance = nullifier_record[id][n].balance + credit
      OBVIOUS
    <2> HIDE DEF new
    <2>3. \A i \in AirdropIds, m \in Nullifiers :
            nullifier_record'[i][m] = IF i = id /\ m = n THEN new ELSE nullifier_record[i][m]
      BY <1>1, <2>1 DEF TypeOK
    <2>4. \A i \in AirdropIds, m \in Nullifiers :
            nullifier_record'[i][m].balance =
              IF i = id /\ m = n THEN nullifier_record[i][m].balance + credit
              ELSE nullifier_record[i][m].balance
      BY <2>2, <2>3
    <2> QED BY <1>1, <2>4, RecordMoves
  <1>4. InWallets' = InWallets + (amount - credit)
    <2>1. CASE wallet' = wallet /\ credit = amount
      <3>1. InWallets' = InWallets
        BY <2>1 DEF InWallets, WalletOf
      <3> QED BY <1>1, <2>1, <3>1, BalancesTyped
    <2>2. CASE \E dest \in Wallets :
                 /\ wallet[dest] = Untouched
                 /\ wallet' = [wallet EXCEPT ![dest] = [owner |-> "program", balance |-> amount]]
                 /\ credit = 0
      <3>1. PICK dest \in Wallets :
                 /\ wallet[dest] = Untouched
                 /\ wallet' = [wallet EXCEPT ![dest] = [owner |-> "program", balance |-> amount]]
                 /\ credit = 0
        BY <2>2
      <3>2. wallet[dest].balance = 0
        BY <3>1 DEF Untouched
      <3>3. \A w \in Wallets :
              wallet'[w].balance = IF w = dest THEN wallet[w].balance + amount ELSE wallet[w].balance
        BY <1>1, <3>1, <3>2 DEF TypeOK
      <3>4. InWallets' = InWallets + amount
        BY <1>1, <3>3, WalletMoves
      <3> QED BY <1>1, <3>1, <3>4
    <2> QED BY <2>1, <2>2 DEF ClaimStep
  <1> QED BY <1>1, <1>2, <1>3, <1>4, BalancesTyped

LEMMA OthersConserve ==
    ASSUME TypeOK,
           InitAirdrop \/ Fund \/ Close \/ Transfer \/ Touch \/ Tick \/ UNCHANGED vars
    PROVE  InVaults' + InRecords' + InWallets' = InVaults + InRecords + InWallets
  <1>0. InVaults \in Int /\ InRecords \in Int /\ InWallets \in Int
    BY BalancesTyped
  <1>a. ASSUME nullifier_record' = nullifier_record PROVE InRecords' = InRecords
    BY <1>a DEF InRecords, RecordOf
  <1>b. ASSUME \A i \in AirdropIds : vault'[i].balance = vault[i].balance
        PROVE  InVaults' = InVaults
    <2>1. VaultOf' = VaultOf
      BY <1>b DEF VaultOf
    <2> QED BY <2>1 DEF InVaults
  <1>c. ASSUME wallet' = wallet PROVE InWallets' = InWallets
    BY <1>c DEF InWallets, WalletOf
  <1>d. ASSUME NEW from \in Wallets, NEW amount \in Amounts, Sends(from, amount),
               wallet' = [wallet EXCEPT ![from].balance = wallet[from].balance - amount]
        PROVE  amount \in Int /\ InWallets' = InWallets + (0 - amount)
    <2>1. amount \in Int
      BY ConstantsAssumption
    <2>2. \A w \in Wallets :
            wallet'[w].balance = IF w = from THEN wallet[w].balance + (0 - amount)
                                 ELSE wallet[w].balance
      BY <1>d, <2>1 DEF TypeOK, NativeAccount
    <2> QED BY <2>1, <2>2, WalletMoves
  <1>1. CASE InitAirdrop
    <2>1. PICK id \in AirdropIds, d \in Wallets, args \in InitArgs : init_airdrop(id, d, args)
      BY <1>1 DEF InitAirdrop
    <2>2. \A i \in AirdropIds : vault'[i].balance = vault[i].balance
      BY <2>1 DEF init_airdrop, TypeOK, NativeAccount
    <2> QED BY <1>a, <1>b, <1>c, <2>1, <2>2 DEF init_airdrop
  <1>2. CASE Fund \/ Tick \/ UNCHANGED vars
    BY <1>2, <1>a, <1>b, <1>c DEF Fund, fund, Tick, vars
  <1>3. CASE Close
    <2>1. PICK id \in AirdropIds, s \in Wallets : close(id, s)
      BY <1>3 DEF Close
    <2> DEFINE to == airdrop[id].recovery_address
               out == vault[id].balance
    <2>2. to \in Wallets /\ out \in Int
      BY <2>1 DEF close, close_checks, ensure_distributor, TypeOK, AirdropState, NativeAccount
    <2>3. /\ wallet' = [wallet EXCEPT ![to].balance = wallet[to].balance + out]
          /\ vault' = [vault EXCEPT ![id].balance = 0]
          /\ nullifier_record' = nullifier_record
      BY <2>1 DEF close, Sweep
    <2> HIDE DEF to
    <2>4. \A i \in AirdropIds :
            vault'[i].balance = IF i = id THEN vault[i].balance + (0 - out) ELSE vault[i].balance
      BY <2>2, <2>3 DEF TypeOK, NativeAccount
    <2> HIDE DEF out
    <2>5. \A w \in Wallets :
            wallet'[w].balance = IF w = to THEN wallet[w].balance + out ELSE wallet[w].balance
      BY <2>2, <2>3 DEF TypeOK, NativeAccount
    <2>6. InVaults' = InVaults + (0 - out) /\ InWallets' = InWallets + out
      BY <2>2, <2>4, <2>5, VaultMoves, WalletMoves
    <2> QED BY <1>0, <1>a, <2>2, <2>3, <2>6
  <1>4. CASE Transfer
    <2>1. PICK id \in AirdropIds, from \in Wallets, amount \in Amounts : transfer(from, id, amount)
      BY <1>4 DEF Transfer
    <2>2. /\ Sends(from, amount) /\ nullifier_record' = nullifier_record
          /\ wallet' = [wallet EXCEPT ![from].balance = wallet[from].balance - amount]
      BY <2>1 DEF transfer
    <2>3. amount \in Int /\ InWallets' = InWallets + (0 - amount)
      BY <1>d, <2>2
    <2>4. \A i \in AirdropIds :
            vault'[i].balance = IF i = id THEN vault[i].balance + amount ELSE vault[i].balance
      BY <2>1 DEF transfer, TypeOK
    <2>5. InVaults' = InVaults + amount
      BY <2>3, <2>4, VaultMoves
    <2> QED BY <1>0, <1>a, <2>2, <2>3, <2>5
  <1>5. CASE Touch
    <2>1. InVaults' = InVaults
      BY <1>5, <1>b, TouchIsHarmless
    <2>2. CASE \E from \in Wallets, amount \in Amounts, to \in Wallets :
                 touch_recipient(from, to, amount)
      <3>1. PICK from \in Wallets, amount \in Amounts, to \in Wallets :
              touch_recipient(from, to, amount)
        BY <2>2
      <3>2. PICK owner :
              wallet' = [wallet EXCEPT
                 ![from] = [wallet[from] EXCEPT !.balance = wallet[from].balance - amount],
                 ![to] = [owner |-> owner, balance |-> wallet[to].balance + amount]]
        BY <3>1 DEF touch_recipient
      <3>3. amount \in Int /\ from # to /\ nullifier_record' = nullifier_record
        BY <3>1, ConstantsAssumption DEF touch_recipient
      <3>4. \A w \in Wallets :
             wallet'[w].balance = IF w = to THEN wallet[w].balance + amount
                                  ELSE IF w = from THEN wallet[w].balance - amount
                                  ELSE wallet[w].balance
        BY <3>2, <3>3 DEF TypeOK, NativeAccount
      <3>5. InWallets' = InWallets
        BY <3>3, <3>4, WalletPays
      <3> QED BY <1>a, <2>1, <3>3, <3>5
    <2>3. CASE \E from \in Wallets, amount \in Amounts, id \in AirdropIds, n \in Nullifiers :
                 touch_record(from, id, n, amount)
      <3>1. PICK from \in Wallets, amount \in Amounts, id \in AirdropIds, n \in Nullifiers :
              touch_record(from, id, n, amount)
        BY <2>3
      <3>2. /\ Sends(from, amount)
            /\ wallet' = [wallet EXCEPT ![from].balance = wallet[from].balance - amount]
        BY <3>1 DEF touch_record
      <3>3. amount \in Int /\ InWallets' = InWallets + (0 - amount)
        BY <1>d, <3>2
      <3> DEFINE new == [nullifier_record[id][n] EXCEPT
                           !.balance = nullifier_record[id][n].balance + amount]
      <3>4. nullifier_record' = [nullifier_record EXCEPT ![id] =
                [nullifier_record[id] EXCEPT ![n] = new]]
        BY <3>1 DEF touch_record
      <3>5. new.balance = nullifier_record[id][n].balance + amount
        BY DEF TypeOK
      <3> HIDE DEF new
      <3>6. \A i \in AirdropIds, m \in Nullifiers :
              nullifier_record'[i][m] = IF i = id /\ m = n THEN new ELSE nullifier_record[i][m]
        BY <3>4 DEF TypeOK
      <3>7. \A i \in AirdropIds, m \in Nullifiers :
              nullifier_record'[i][m].balance =
                IF i = id /\ m = n THEN nullifier_record[i][m].balance + amount
                ELSE nullifier_record[i][m].balance
        BY <3>5, <3>6
      <3>8. InRecords' = InRecords + amount
        BY <3>3, <3>7, RecordMoves
      <3> QED BY <1>0, <2>1, <3>3, <3>8
    <2> QED BY <1>5, <2>2, <2>3 DEF Touch
  <1> QED BY <1>1, <1>2, <1>3, <1>4, <1>5

\* No unit of money appears or vanishes, whatever claims, closes and transfers do:
\* what the wallets held first is what vaults, records and wallets hold together.
THEOREM MoneyIsConserved == Spec => []MoneyConserved
  <1>1. Init => Conserved
    <2> SUFFICES ASSUME Init PROVE Conserved
      OBVIOUS
    <2>1. TypeOK
      BY InitEstablishesInv
    <2>2. /\ \A id \in AirdropIds : VaultOf[id] = 0
          /\ \A r \in AirdropIds \X Nullifiers : RecordOf[r] = 0
          /\ WalletOf = InitialOf
      BY DEF Init, VaultOf, RecordOf, WalletOf, InitialOf, Untouched, UntouchedRecord
    <2>3. PICK f, g : f = VaultOf /\ g = RecordOf
      OBVIOUS
    <2>4. /\ SumFunctionOnSet(f, AirdropIds) = 0
          /\ SumFunctionOnSet(g, AirdropIds \X Nullifiers) = 0
      BY <2>2, <2>3, IndexSetsFinite, SumZero
    <2>5. InVaults = 0 /\ InRecords = 0 /\ InWallets = SumFunctionOnSet(InitialOf, Wallets)
      BY <2>2, <2>3, <2>4 DEF InVaults, InRecords, InWallets
    <2> QED BY <2>1, <2>5, BalancesTyped DEF Conserved
  <1>2. TypeOK /\ Conserved /\ [Next]_vars => Conserved'
    <2> SUFFICES ASSUME TypeOK, Conserved, [Next]_vars PROVE Conserved'
      OBVIOUS
    <2>1. InVaults' + InRecords' + InWallets' = InVaults + InRecords + InWallets
      BY ClaimConserves, OthersConserve, NextIsClaimOrNot
    <2>2. SumFunctionOnSet(InitialOf, Wallets)' = SumFunctionOnSet(InitialOf, Wallets)
      BY DEF InitialOf
    <2> QED BY <2>1, <2>2 DEF Conserved
  <1>3. Conserved => MoneyConserved
    BY ConservedMeans
  <1> QED BY <1>1, <1>2, <1>3, TypeCorrect, PTL DEF Spec

-----------------------------------------------------------------------------
(* The program implements AllowlistAirdrop.  The invariant is needed twice: a *)
(* claim stays within the budget because claimed never exceeds funded, and a *)
(* funding reserves deposited money because the vault covers the budget.     *)

LEMMA InitRefines == Init => Promise!Init
  <1> SUFFICES ASSUME Init PROVE Promise!Init
    OBVIOUS
  <1>1. \A id \in AirdropIds : PhaseOf(id) = "none" /\ ~ Active(id)
    BY DEF Init, PhaseOf, Active
  <1>2. \A id \in AirdropIds : {n \in Nullifiers : nullifier_record[id][n].claimed} = {}
    BY DEF Init, UntouchedRecord
  <1> QED BY <1>1, <1>2 DEF Promise!Init, Promise!NoOffer, Init, Active, Untouched

\* A claim instruction accepted for a row its holder signed for a wallet.
ClaimOfRow(id, row, dest) ==
    /\ row \in airdrop[id].merkle_root
    /\ row.bucket_id < Len(airdrop[id].bucket_table)
    /\ dest \in Wallets
    /\ <<row.address, id, dest>> \in Signatures
    /\ \E credit : ClaimStep(id, h_null(row.salt), BucketAmount(id, row.bucket_id), credit)

\* The row a witness proves is a row of the committed tree.
LEMMA WitnessNamesRow ==
    ASSUME NEW root \in SUBSET Rows, NEW b, NEW n, NEW id, NEW dest, NEW address, NEW salt,
           verify_claim_constraints(Journal(id, root, b, n, dest), address, salt)
    PROVE  \E row \in root : /\ row.bucket_id = b
                             /\ h_null(row.salt) = n
                             /\ <<row.address, id, dest>> \in Signatures
  <1> DEFINE row == [address |-> address, bucket_id |-> b, salt |-> salt]
  <1>1. row \in root /\ h_null(salt) = n /\ <<address, id, dest>> \in Signatures
    BY DEF verify_claim_constraints, Journal
  <1>2. row.bucket_id = b /\ row.salt = salt /\ row.address = address
    OBVIOUS
  <1> HIDE DEF row
  <1> QED BY <1>1, <1>2

LEMMA ClaimIsOfRow ==
    ASSUME TypeOK, Claim
    PROVE  \E id, row, dest : ClaimOfRow(id, row, dest)
  <1>1. PICK id \in AirdropIds, jid \in AirdropIds, args \in InitArgs,
             dest \in Commitments, now \in CallerTimes :
          \E r \in args.merkle_root :
            claim(id, Journal(jid, args.merkle_root, r.bucket_id, h_null(r.salt), dest), now)
    BY DEF Claim
  <1>2. PICK r \in args.merkle_root :
          claim(id, Journal(jid, args.merkle_root, r.bucket_id, h_null(r.salt), dest), now)
    BY <1>1
  <1> DEFINE b == r.bucket_id
             n == h_null(r.salt)
             j == Journal(id, args.merkle_root, b, n, dest)
             amount == BucketAmount(id, b)
  <1>3. /\ jid = id
        /\ args.merkle_root = airdrop[id].merkle_root
        /\ dest # ZeroCommitment
        /\ claim(id, j, now)
    BY <1>2 DEF claim, Journal, claim_checks
  <1>4. PICK address \in Addresses, salt \in Salts : verify_claim_constraints(j, address, salt)
    BY <1>3 DEF claim, verify_claim_receipt, claim_checks
  <1>5. args.merkle_root \in SUBSET Rows /\ b \in Nat /\ n \in Nullifiers
    BY RowsTyped
  <1>6. PICK row \in args.merkle_root :
          /\ row.bucket_id = b
          /\ h_null(row.salt) = n
          /\ <<row.address, id, dest>> \in Signatures
    <2> HIDE DEF b, n
    <2> QED BY <1>4, <1>5, WitnessNamesRow
  <1>7. Active(id) /\ b < Len(airdrop[id].bucket_table)
    BY <1>3 DEF claim, ensure_active, Active, Journal, claim_checks
  <1>8. amount \in 0 .. U64Max /\ b + 1 \in DOMAIN airdrop[id].bucket_table
    <2> HIDE DEF b
    <2> QED BY <1>5, <1>7, BucketAmountInTable DEF Active
  <1>9. ClaimStep(id, n, amount, amount)
    BY <1>3, <1>5, <1>7, <1>8, ConstantsAssumption DEF claim, ClaimStep, Journal, BucketAmount,
       claim_checks
  <1>10. dest \in Wallets
    BY <1>3 DEF Commitments
  <1> HIDE DEF b, n, amount
  <1>11. ClaimStep(id, h_null(row.salt), BucketAmount(id, row.bucket_id), amount)
    BY <1>6, <1>9 DEF amount
  <1> QED BY <1>3, <1>6, <1>7, <1>10, <1>11 DEF ClaimOfRow

LEMMA ClaimPrivateIsOfRow ==
    ASSUME TypeOK, ClaimPrivate
    PROVE  \E id, row, dest : ClaimOfRow(id, row, dest)
  <1>1. PICK id \in AirdropIds, dest \in Commitments, now \in CallerTimes :
          \E row \in CommittedRows(id) :
            claim_private(id, row.bucket_id, h_null(row.salt), dest, row.address, row.salt, now)
    BY DEF ClaimPrivate
  <1>2. PICK row \in CommittedRows(id) :
            claim_private(id, row.bucket_id, h_null(row.salt), dest, row.address, row.salt, now)
    BY <1>1
  <1> DEFINE n == h_null(row.salt)
             amount == BucketAmount(id, row.bucket_id)
  <1>3. /\ Active(id)
        /\ row.bucket_id < Len(airdrop[id].bucket_table)
        /\ dest \in Wallets
        /\ <<row.address, id, dest>> \in Signatures
    BY <1>2 DEF claim_private, ensure_active, Active, verify_claim_constraints, Journal,
                Commitments, claim_private_checks, witness_checks
  <1>4. row \in airdrop[id].merkle_root /\ row \in Rows
    BY <1>3 DEF CommittedRows, TypeOK, AirdropState, Active
  <1>5. row.bucket_id \in Nat /\ n \in Nullifiers
    BY <1>4, RowsTyped
  <1>6. amount \in 0 .. U64Max /\ row.bucket_id + 1 \in DOMAIN airdrop[id].bucket_table
    BY <1>3, <1>5, BucketAmountInTable DEF Active
  <1>7. ClaimStep(id, n, amount, amount)
    BY <1>2, <1>3, <1>5, <1>6, ConstantsAssumption
       DEF claim_private, ClaimStep, BucketAmount, claim_private_checks, witness_checks
  <1> QED BY <1>3, <1>4, <1>7 DEF ClaimOfRow

LEMMA ClaimPpeIsOfRow ==
    ASSUME TypeOK, ClaimPpe
    PROVE  \E id, row, dest : ClaimOfRow(id, row, dest)
  <1>1. PICK id \in AirdropIds, dest \in Wallets, now \in CallerTimes :
          \E row \in CommittedRows(id) :
            claim_ppe(id, row.bucket_id, h_null(row.salt), dest, row.address, row.salt, now)
    BY DEF ClaimPpe
  <1>2. PICK row \in CommittedRows(id) :
            claim_ppe(id, row.bucket_id, h_null(row.salt), dest, row.address, row.salt, now)
    BY <1>1
  <1> DEFINE n == h_null(row.salt)
             amount == BucketAmount(id, row.bucket_id)
  <1>3. /\ Active(id)
        /\ row.bucket_id < Len(airdrop[id].bucket_table)
        /\ <<row.address, id, dest>> \in Signatures
    BY <1>2 DEF claim_ppe, ensure_active, Active, verify_claim_constraints, Journal,
       claim_ppe_checks, witness_checks
  <1>4. row \in airdrop[id].merkle_root /\ row \in Rows
    BY <1>3 DEF CommittedRows, TypeOK, AirdropState, Active
  <1>5. row.bucket_id \in Nat /\ n \in Nullifiers
    BY <1>4, RowsTyped
  <1>6. amount \in 0 .. U64Max /\ row.bucket_id + 1 \in DOMAIN airdrop[id].bucket_table
    BY <1>3, <1>5, BucketAmountInTable DEF Active
  <1>7. /\ NullifierUnused(id, n)
        /\ VaultCovers(id, amount)
        /\ with_claim_expiry(airdrop[id].expiry_unix)
        /\ Debit(id, amount)
        /\ SpendNullifier(id, n, 0)
        /\ wallet[dest] = Untouched
        /\ wallet' = [wallet EXCEPT ![dest] = [owner |-> "program", balance |-> amount]]
        /\ clock' = clock
    BY <1>2 DEF claim_ppe, claim_ppe_checks, witness_checks, NewAccount
  <1>8. \E i \in DOMAIN airdrop[id].bucket_table : airdrop[id].bucket_table[i] = amount
    BY <1>6 DEF BucketAmount
  <1>9. amount \in Nat
    BY <1>6, ConstantsAssumption
  <1>10. ClaimStep(id, n, amount, 0)
    <2> HIDE DEF n, amount
    <2> QED BY <1>3, <1>5, <1>7, <1>8, <1>9 DEF ClaimStep
  <1> QED BY <1>3, <1>4, <1>10 DEF ClaimOfRow

-----------------------------------------------------------------------------
(* Each instruction is a step of AllowlistAirdrop under the mapping. *)

Offer(id) ==
    IF airdrop[id] = Default THEN [rows |-> {}, deadline |-> 0] ELSE OfferOf(airdrop[id])
Spent(id) == {n \in Nullifiers : nullifier_record[id][n].claimed}
Budget(id) ==
    IF Active(id) THEN airdrop[id].total_funded - airdrop[id].total_claimed ELSE 0

\* What is mapped depends only on these parts of the state.
LEMMA MappingDepends ==
    ASSUME NEW i \in AirdropIds, airdrop'[i] = airdrop[i]
    PROVE  PhaseOf(i)' = PhaseOf(i) /\ Offer(i)' = Offer(i) /\ Budget(i)' = Budget(i)
  BY DEF PhaseOf, Offer, Budget, Active, OfferOf, ClaimDeadline

LEMMA OfferDepends ==
    ASSUME NEW a, NEW b,
           a.merkle_root = b.merkle_root,
           a.bucket_table = b.bucket_table,
           a.expiry_unix = b.expiry_unix
    PROVE  OfferOf(a) = OfferOf(b)
  BY DEF OfferOf, ClaimDeadline

LEMMA InitAirdropRefines ==
    ASSUME TypeOK, InitAirdrop
    PROVE  Promise!Next
  <1>1. PICK id \in AirdropIds, d \in Wallets, args \in InitArgs : init_airdrop(id, d, args)
    BY DEF InitAirdrop
  <1> DEFINE new == [distributor |-> d, merkle_root |-> args.merkle_root,
          bucket_table |-> args.bucket_table, expiry_unix |-> args.expiry_unix,
          recovery_address |-> args.recovery_address, total_funded |-> 0,
          total_claimed |-> 0, status |-> "active"]
  <1>2. new \in AirdropState
    BY ConstantsAssumption DEF InitArg, AirdropState
  <1>3. /\ airdrop[id] = Default
        /\ airdrop' = [airdrop EXCEPT ![id] = new]
        /\ vault' = [vault EXCEPT ![id] = [vault[id] EXCEPT !.owner = "program"]]
        /\ UNCHANGED <<nullifier_record, wallet, clock>>
    BY <1>1 DEF init_airdrop
  <1>4. OfferOf(new) = OfferOf(args)
    BY OfferDepends
  <1>5. new.status = "active" /\ new.total_funded = 0 /\ new.total_claimed = 0
    OBVIOUS
  <1> HIDE DEF new
  <1>6. airdrop'[id] = new /\ new # Default
    BY <1>2, <1>3, ConstantsAssumption DEF TypeOK
  <1>7. /\ PhaseOf(id) = "none" /\ PhaseOf(id)' = "open"
        /\ Budget(id) = 0 /\ Budget(id)' = 0
    BY <1>3, <1>5, <1>6 DEF PhaseOf, Budget, Active
  <1>8. Offer(id)' = OfferOf(args)
    <2>1. Offer(id)' = OfferOf(airdrop'[id])
      BY <1>6 DEF Offer, OfferOf, ClaimDeadline
    <2> QED BY <1>4, <1>6, <2>1
  <1>9. \A i \in AirdropIds : vault'[i].balance = vault[i].balance
    BY <1>3 DEF TypeOK, NativeAccount
  <1>10. \A i \in AirdropIds : i # id =>
           PhaseOf(i)' = PhaseOf(i) /\ Offer(i)' = Offer(i) /\ Budget(i)' = Budget(i)
    BY <1>3, MappingDepends DEF TypeOK
  <1>11. \A i \in AirdropIds : Spent(i)' = Spent(i)
    BY <1>3 DEF Spent
  <1>12. Promise!Open(id, OfferOf(args))
    <2>1. [i \in AirdropIds |-> PhaseOf(i)]' = [[i \in AirdropIds |-> PhaseOf(i)] EXCEPT ![id] = "open"]
      BY <1>7, <1>10
    <2>2. [i \in AirdropIds |-> Offer(i)]' =
            [[i \in AirdropIds |-> Offer(i)] EXCEPT ![id] = OfferOf(args)]
      BY <1>8, <1>10
    <2>3. /\ [i \in AirdropIds |-> Spent(i)]' = [i \in AirdropIds |-> Spent(i)]
          /\ [i \in AirdropIds |-> vault[i].balance]' = [i \in AirdropIds |-> vault[i].balance]
          /\ [i \in AirdropIds |-> Budget(i)]' = [i \in AirdropIds |-> Budget(i)]
          /\ clock' = clock
      BY <1>3, <1>7, <1>9, <1>10, <1>11
    <2> QED BY <1>7, <2>1, <2>2, <2>3 DEF Promise!Open, Offer, Spent, Budget
  <1> QED BY <1>12 DEF Promise!Next

LEMMA FundRefines ==
    ASSUME TypeOK, Solvent, Fund
    PROVE  Promise!Next
  <1>1. PICK id \in AirdropIds, s \in Wallets, amount \in Amounts, now \in CallerTimes :
          fund(id, s, amount, now)
    BY DEF Fund
  <1> DEFINE funded == airdrop[id].total_funded
             claimed == airdrop[id].total_claimed
             new == [airdrop[id] EXCEPT !.total_funded = funded + amount]
  <1>2. Active(id) /\ airdrop[id] \in AirdropState
    BY <1>1 DEF fund, ensure_active, Active, TypeOK
  <1>3. /\ funded \in Nat /\ claimed \in Nat /\ vault[id].balance \in Nat
        /\ amount \in Nat /\ amount > 0
    BY <1>1, <1>2, ConstantsAssumption, SMTT(30) DEF AirdropState, TypeOK, NativeAccount, fund
  <1>4. /\ airdrop' = [airdrop EXCEPT ![id] = new]
        /\ UNCHANGED <<vault, nullifier_record, wallet, clock>>
        /\ funded + amount <= vault[id].balance
        /\ funded + amount <= U64Max
    BY <1>1 DEF fund, checked_add_u64
  <1>5. /\ new.status = "active"
        /\ new.total_funded = funded + amount
        /\ new.total_claimed = claimed
        /\ new.merkle_root = airdrop[id].merkle_root
        /\ new.bucket_table = airdrop[id].bucket_table
        /\ new.expiry_unix = airdrop[id].expiry_unix
    BY <1>2 DEF Active, AirdropState
  <1>6. new \in AirdropState
    <2> DEFINE total == funded + amount
    <2>1. total \in 0 .. U64Max
      BY <1>3, <1>4, ConstantsAssumption
    <2> HIDE DEF total
    <2>2. [airdrop[id] EXCEPT !.total_funded = total] \in AirdropState
      BY <1>2, <2>1 DEF AirdropState
    <2> QED BY <2>2 DEF total
  <1> HIDE DEF new
  <1>7. airdrop'[id] = new /\ new # Default
    BY <1>4, <1>6, ConstantsAssumption DEF TypeOK
  <1>8. /\ PhaseOf(id) = "open" /\ PhaseOf(id)' = "open"
        /\ Budget(id) = funded - claimed
        /\ Budget(id)' = (funded + amount) - claimed
    BY <1>2, <1>5, <1>7 DEF PhaseOf, Budget, Active
  <1>9. Offer(id)' = Offer(id)
    <2>1. Offer(id)' = OfferOf(airdrop'[id])
      BY <1>7 DEF Offer, OfferOf, ClaimDeadline
    <2>2. OfferOf(new) = OfferOf(airdrop[id])
      BY <1>5, OfferDepends
    <2> QED BY <1>2, <1>7, <2>1, <2>2 DEF Offer, Active
  <1>10. \A i \in AirdropIds : i # id =>
           PhaseOf(i)' = PhaseOf(i) /\ Offer(i)' = Offer(i) /\ Budget(i)' = Budget(i)
    BY <1>4, MappingDepends DEF TypeOK
  <1> HIDE DEF funded, claimed
  <1>11. Promise!Reserve(id, amount)
    <2>1. /\ [i \in AirdropIds |-> PhaseOf(i)]' = [i \in AirdropIds |-> PhaseOf(i)]
          /\ [i \in AirdropIds |-> Offer(i)]' = [i \in AirdropIds |-> Offer(i)]
      BY <1>8, <1>9, <1>10
    <2>2. /\ [i \in AirdropIds |-> Spent(i)]' = [i \in AirdropIds |-> Spent(i)]
          /\ [i \in AirdropIds |-> vault[i].balance]' = [i \in AirdropIds |-> vault[i].balance]
          /\ clock' = clock
      BY <1>4 DEF Spent
    <2>3. Budget(id)' = Budget(id) + amount /\ Budget(id) + amount <= vault[id].balance
      BY <1>3, <1>4, <1>8
    <2>4. [i \in AirdropIds |-> Budget(i)]' =
            [[i \in AirdropIds |-> Budget(i)] EXCEPT ![id] = Budget(id) + amount]
      BY <1>10, <2>3
    <2> QED BY <1>3, <1>8, <2>1, <2>2, <2>3, <2>4 DEF Promise!Reserve, Offer, Spent, Budget
  <1> QED BY <1>11 DEF Promise!Next

LEMMA ClaimRefines ==
    ASSUME TypeOK, Solvent, NEW id, NEW row, NEW dest, ClaimOfRow(id, row, dest)
    PROVE  Promise!Next
  <1> DEFINE n == h_null(row.salt)
             amount == BucketAmount(id, row.bucket_id)
             funded == airdrop[id].total_funded
             claimed == airdrop[id].total_claimed
             new == [airdrop[id] EXCEPT !.total_claimed = claimed + amount]
  <1>0. PICK paid : paid = [holder |-> row.address, amount |-> amount, ticket |-> n]
    OBVIOUS
  <1>1. PICK credit : ClaimStep(id, n, amount, credit)
    BY DEF ClaimOfRow
  <1>2. id \in AirdropIds /\ Active(id) /\ airdrop[id] \in AirdropState
    BY <1>1 DEF ClaimStep, Active, TypeOK
  <1>3. /\ funded \in Nat /\ claimed \in Nat /\ vault[id].balance \in Nat
        /\ claimed <= funded
        /\ amount \in Nat /\ n \in Nullifiers
    <2>1. funded \in Nat /\ claimed \in Nat /\ vault[id].balance \in Nat
      BY <1>2, ConstantsAssumption DEF AirdropState, TypeOK, NativeAccount
    <2>2. claimed <= funded
      BY <1>2 DEF Solvent
    <2> HIDE DEF amount, n
    <2>3. amount \in Nat /\ n \in Nullifiers
      BY <1>1 DEF ClaimStep
    <2> QED BY <2>1, <2>2, <2>3
  <1>4. /\ claimed + amount <= funded
        /\ airdrop' = [airdrop EXCEPT ![id] = new]
        /\ vault' = [vault EXCEPT ![id] =
              [vault[id] EXCEPT !.balance = vault[id].balance - amount]]
        /\ nullifier_record' = [nullifier_record EXCEPT ![id] =
              [nullifier_record[id] EXCEPT ![n] =
                 [claimed |-> TRUE, balance |-> nullifier_record[id][n].balance + credit]]]
        /\ ~ nullifier_record[id][n].claimed
        /\ clock' = clock
    <2> HIDE DEF amount, n
    <2> QED BY <1>1 DEF ClaimStep, Debit, VaultCovers, SpendNullifier, NullifierUnused,
                       UntouchedRecord
  <1>5. clock < OfferOf(airdrop[id]).deadline
    <2>1. with_claim_expiry(airdrop[id].expiry_unix)
      <3> HIDE DEF amount, n
      <3> QED BY <1>1 DEF ClaimStep
    <2>2. ClaimDeadline(airdrop[id]) = airdrop[id].expiry_unix * MillisPerSecond
      BY <2>1 DEF with_claim_expiry, ClaimDeadline
    <2>3. clock < airdrop[id].expiry_unix * MillisPerSecond
      BY <2>1 DEF with_claim_expiry
    <2> QED BY <2>2, <2>3 DEF OfferOf
  <1>6. paid \in OfferOf(airdrop[id]).rows
    BY <1>0 DEF ClaimOfRow, OfferOf, BucketAmount
  <1>7. dest \in Wallets /\ <<row.address, id, dest>> \in Signatures
    BY DEF ClaimOfRow
  <1>8. /\ new.status = "active"
        /\ new.total_funded = funded
        /\ new.total_claimed = claimed + amount
        /\ new.merkle_root = airdrop[id].merkle_root
        /\ new.bucket_table = airdrop[id].bucket_table
        /\ new.expiry_unix = airdrop[id].expiry_unix
    <2> HIDE DEF amount, n
    <2> QED BY <1>2 DEF Active, AirdropState
  <1>9. new \in AirdropState
    <2> DEFINE total == claimed + amount
    <2> HIDE DEF amount, n
    <2>1. total \in 0 .. U64Max
      <3>1. funded \in 0 .. U64Max
        BY <1>2 DEF AirdropState
      <3> QED BY <1>3, <1>4, <3>1, ConstantsAssumption
    <2> HIDE DEF total
    <2>2. [airdrop[id] EXCEPT !.total_claimed = total] \in AirdropState
      BY <1>2, <2>1 DEF AirdropState
    <2> QED BY <2>2 DEF total
  <1>10. /\ paid.ticket = n /\ paid.amount = amount /\ paid.holder = row.address
    BY <1>0
  <1> HIDE DEF new, amount, n
  <1>11. airdrop'[id] = new /\ new # Default
    BY <1>2, <1>4, <1>9, ConstantsAssumption DEF TypeOK
  <1>12. /\ PhaseOf(id) = "open" /\ PhaseOf(id)' = "open"
         /\ Budget(id) = funded - claimed
         /\ Budget(id)' = funded - (claimed + amount)
    BY <1>2, <1>8, <1>11 DEF PhaseOf, Budget, Active
  <1>13. Offer(id)' = Offer(id) /\ Offer(id) = OfferOf(airdrop[id])
    <2>1. Offer(id)' = OfferOf(airdrop'[id])
      BY <1>11 DEF Offer, OfferOf, ClaimDeadline
    <2>2. OfferOf(new) = OfferOf(airdrop[id])
      BY <1>8, OfferDepends
    <2> QED BY <1>2, <1>11, <2>1, <2>2 DEF Offer, Active
  <1>14. \A i \in AirdropIds : i # id =>
           /\ PhaseOf(i)' = PhaseOf(i) /\ Offer(i)' = Offer(i) /\ Budget(i)' = Budget(i)
           /\ Spent(i)' = Spent(i) /\ vault'[i] = vault[i]
    BY <1>4, MappingDepends DEF TypeOK, Spent
  <1>15. Spent(id)' = Spent(id) \cup {n} /\ n \notin Spent(id)
    BY <1>2, <1>3, <1>4 DEF TypeOK, Spent
  <1>16. vault'[id].balance = vault[id].balance - amount
    BY <1>2, <1>4 DEF TypeOK, NativeAccount
  <1> HIDE DEF funded, claimed
  <1>17. Promise!Pay(id, paid, dest)
    <2>1. /\ [i \in AirdropIds |-> PhaseOf(i)]' = [i \in AirdropIds |-> PhaseOf(i)]
          /\ [i \in AirdropIds |-> Offer(i)]' = [i \in AirdropIds |-> Offer(i)]
          /\ clock' = clock
      BY <1>4, <1>12, <1>13, <1>14
    <2>2. [i \in AirdropIds |-> Spent(i)]' =
            [[i \in AirdropIds |-> Spent(i)] EXCEPT ![id] = Spent(id) \cup {paid.ticket}]
      BY <1>10, <1>14, <1>15
    <2>3. [i \in AirdropIds |-> vault[i].balance]' =
            [[i \in AirdropIds |-> vault[i].balance] EXCEPT
               ![id] = vault[id].balance - paid.amount]
      BY <1>10, <1>14, <1>16
    <2>4. Budget(id)' = Budget(id) - amount /\ amount <= Budget(id)
      BY <1>3, <1>4, <1>12
    <2>5. [i \in AirdropIds |-> Budget(i)]' =
            [[i \in AirdropIds |-> Budget(i)] EXCEPT ![id] = Budget(id) - paid.amount]
      BY <1>10, <1>14, <2>4
    <2> QED
      BY <1>2, <1>5, <1>6, <1>7, <1>10, <1>12, <1>13, <1>15, <2>1, <2>2, <2>3, <2>4, <2>5
         DEF Promise!Pay, Offer, Spent, Budget
  <1>18. paid \in [i \in AirdropIds |-> Offer(i)][id].rows
    BY <1>2, <1>6, <1>13
  <1> QED BY <1>2, <1>7, <1>17, <1>18 DEF Promise!Next, Offer

LEMMA CloseRefines ==
    ASSUME TypeOK, Close
    PROVE  Promise!Next
  <1>1. PICK id \in AirdropIds, s \in Wallets : close(id, s)
    BY DEF Close
  <1> DEFINE new == [airdrop[id] EXCEPT !.status = "closed"]
  <1>2. airdrop[id] # Default /\ airdrop[id] \in AirdropState
    BY <1>1 DEF close, ensure_distributor, TypeOK, close_checks
  <1>3. /\ airdrop' = [airdrop EXCEPT ![id] = new]
        /\ vault' = [vault EXCEPT ![id] = [vault[id] EXCEPT !.balance = 0]]
        /\ UNCHANGED <<nullifier_record, clock>>
    BY <1>1 DEF close, Sweep, close_checks
  <1>4. /\ new \in AirdropState
        /\ new.status = "closed"
        /\ new.merkle_root = airdrop[id].merkle_root
        /\ new.bucket_table = airdrop[id].bucket_table
        /\ new.expiry_unix = airdrop[id].expiry_unix
    BY <1>2 DEF AirdropState
  <1> HIDE DEF new
  <1>5. airdrop'[id] = new /\ new # Default
    BY <1>3, <1>4, ConstantsAssumption DEF TypeOK
  <1>6. PhaseOf(id) # "none" /\ PhaseOf(id)' = "closed" /\ Budget(id)' = 0
    BY <1>2, <1>4, <1>5 DEF PhaseOf, Budget, Active
  <1>7. Offer(id)' = Offer(id)
    <2>1. Offer(id)' = OfferOf(airdrop'[id])
      BY <1>5 DEF Offer, OfferOf, ClaimDeadline
    <2>2. OfferOf(new) = OfferOf(airdrop[id])
      BY <1>4, OfferDepends
    <2> QED BY <1>2, <1>5, <2>1, <2>2 DEF Offer
  <1>8. \A i \in AirdropIds : i # id =>
           /\ PhaseOf(i)' = PhaseOf(i) /\ Offer(i)' = Offer(i) /\ Budget(i)' = Budget(i)
           /\ vault'[i] = vault[i]
    BY <1>3, MappingDepends DEF TypeOK
  <1>9. vault'[id].balance = 0
    BY <1>3 DEF TypeOK, NativeAccount
  <1>10. Promise!Sweep(id)
    <2>1. /\ [i \in AirdropIds |-> Offer(i)]' = [i \in AirdropIds |-> Offer(i)]
          /\ [i \in AirdropIds |-> Spent(i)]' = [i \in AirdropIds |-> Spent(i)]
          /\ clock' = clock
      BY <1>3, <1>7, <1>8 DEF Spent
    <2>2. /\ [i \in AirdropIds |-> PhaseOf(i)]' =
               [[i \in AirdropIds |-> PhaseOf(i)] EXCEPT ![id] = "closed"]
          /\ [i \in AirdropIds |-> vault[i].balance]' =
               [[i \in AirdropIds |-> vault[i].balance] EXCEPT ![id] = 0]
          /\ [i \in AirdropIds |-> Budget(i)]' =
               [[i \in AirdropIds |-> Budget(i)] EXCEPT ![id] = 0]
      BY <1>6, <1>8, <1>9
    <2> QED BY <1>6, <2>1, <2>2 DEF Promise!Sweep, Offer, Spent, Budget
  <1> QED BY <1>10 DEF Promise!Next

LEMMA TransferRefines ==
    ASSUME TypeOK, Transfer
    PROVE  Promise!Next
  <1>1. PICK id \in AirdropIds, from \in Wallets, amount \in Amounts : transfer(from, id, amount)
    BY DEF Transfer
  <1>2. amount \in Nat /\ amount > 0
    BY <1>1, ConstantsAssumption DEF transfer, Sends, TypeOK, NativeAccount
  <1>3. UNCHANGED <<airdrop, nullifier_record, clock>>
    BY <1>1 DEF transfer
  <1>4. \A i \in AirdropIds :
          vault'[i].balance = IF i = id THEN vault[id].balance + amount ELSE vault[i].balance
    BY <1>1 DEF transfer, TypeOK
  <1>5. \A i \in AirdropIds :
          /\ PhaseOf(i)' = PhaseOf(i) /\ Offer(i)' = Offer(i) /\ Budget(i)' = Budget(i)
          /\ Spent(i)' = Spent(i)
    BY <1>3, MappingDepends DEF Spent
  <1>6. Promise!Deposit(id, amount)
    <2>1. /\ [i \in AirdropIds |-> PhaseOf(i)]' = [i \in AirdropIds |-> PhaseOf(i)]
          /\ [i \in AirdropIds |-> Offer(i)]' = [i \in AirdropIds |-> Offer(i)]
          /\ [i \in AirdropIds |-> Spent(i)]' = [i \in AirdropIds |-> Spent(i)]
          /\ [i \in AirdropIds |-> Budget(i)]' = [i \in AirdropIds |-> Budget(i)]
          /\ clock' = clock
      BY <1>3, <1>5
    <2>2. [i \in AirdropIds |-> vault[i].balance]' =
            [[i \in AirdropIds |-> vault[i].balance] EXCEPT ![id] = vault[id].balance + amount]
      BY <1>4
    <2> QED BY <1>2, <2>1, <2>2 DEF Promise!Deposit, Offer, Spent, Budget
  <1> QED BY <1>6 DEF Promise!Next

\* The mapping of a state in which only wallets, unspent records or the clock
\* differ.
LEMMA MappingUnchanged ==
    ASSUME UNCHANGED <<airdrop, vault>>,
           \A id \in AirdropIds, n \in Nullifiers :
             nullifier_record'[id][n].claimed = nullifier_record[id][n].claimed
    PROVE  /\ [i \in AirdropIds |-> PhaseOf(i)]' = [i \in AirdropIds |-> PhaseOf(i)]
           /\ [i \in AirdropIds |-> Offer(i)]' = [i \in AirdropIds |-> Offer(i)]
           /\ [i \in AirdropIds |-> Spent(i)]' = [i \in AirdropIds |-> Spent(i)]
           /\ [i \in AirdropIds |-> vault[i].balance]' = [i \in AirdropIds |-> vault[i].balance]
           /\ [i \in AirdropIds |-> Budget(i)]' = [i \in AirdropIds |-> Budget(i)]
  <1>1. \A i \in AirdropIds :
          /\ PhaseOf(i)' = PhaseOf(i) /\ Offer(i)' = Offer(i) /\ Budget(i)' = Budget(i)
          /\ Spent(i)' = Spent(i) /\ vault'[i] = vault[i]
    BY MappingDepends DEF Spent
  <1> QED BY <1>1

LEMMA TickRefines == ASSUME TypeOK, Tick PROVE Promise!Next
  <1>1. clock' > clock /\ UNCHANGED <<airdrop, vault, nullifier_record>>
    BY ConstantsAssumption DEF Tick, TypeOK
  <1>2. Promise!Tick
    BY <1>1, MappingUnchanged DEF Promise!Tick, Offer, Spent, Budget
  <1> QED BY <1>2 DEF Promise!Next

\* Money sent to a recipient or a record is not a step of the promise.
LEMMA TouchRefines == ASSUME TypeOK, Touch PROVE UNCHANGED Promise!vars
  BY TouchIsHarmless, MappingUnchanged DEF Promise!vars, Offer, Spent, Budget

LEMMA StutterRefines == ASSUME UNCHANGED vars PROVE UNCHANGED Promise!vars
  BY MappingUnchanged DEF vars, Promise!vars, Offer, Spent, Budget

LEMMA StepRefines == TypeOK /\ Solvent /\ [Next]_vars => [Promise!Next]_Promise!vars
  <1> SUFFICES ASSUME TypeOK, Solvent, [Next]_vars
               PROVE  Promise!Next \/ UNCHANGED Promise!vars
    OBVIOUS
  <1>1. CASE InitAirdrop
    BY <1>1, InitAirdropRefines
  <1>2. CASE Fund
    BY <1>2, FundRefines
  <1>3. CASE Claim
    BY <1>3, ClaimIsOfRow, ClaimRefines
  <1>4. CASE ClaimPrivate
    BY <1>4, ClaimPrivateIsOfRow, ClaimRefines
  <1>5. CASE ClaimPpe
    BY <1>5, ClaimPpeIsOfRow, ClaimRefines
  <1>6. CASE Close
    BY <1>6, CloseRefines
  <1>7. CASE Transfer
    BY <1>7, TransferRefines
  <1>8. CASE Touch
    BY <1>8, TouchRefines
  <1>9. CASE Tick
    BY <1>9, TickRefines
  <1>10. CASE UNCHANGED vars
    BY <1>10, StutterRefines
  <1> QED
    BY <1>1, <1>2, <1>3, <1>4, <1>5, <1>6, <1>7, <1>8, <1>9, <1>10 DEF Next

\* Every behaviour of the on-chain program is one AllowlistAirdrop allows: a
\* committed row is paid at most once, in time, to a destination its holder
\* signed, out of money funded for claims, and money leaves in no other way
\* than a close.
THEOREM ProgramKeepsPromise == Spec => KeepsPromise
  <1>1. Init => Promise!Init
    BY InitRefines
  <1>2. TypeOK /\ Solvent /\ [Next]_vars => [Promise!Next]_Promise!vars
    BY StepRefines
  <1>3. Spec => []TypeOK /\ []Solvent
    BY TypeCorrect, AlwaysSolvent
  <1>4. Spec => Promise!Spec
    BY <1>1, <1>2, <1>3, PTL DEF Spec, Promise!Spec
  <1> QED BY <1>4 DEF KeepsPromise

=============================================================================
