-------------------------- MODULE LocalBooks_proofs --------------------------
(***************************************************************************)
(* Two facts about the records of payments.  A row's custom tokens are sent *)
(* at most once, and only for an included claim, for any number of commands *)
(* that race, retry, time out and die.  And commands that do not overlap    *)
(* keep exact books: what the ledger has and state.json has not is what the *)
(* included transactions of commands without an answer add up to.           *)
(***************************************************************************)
EXTENDS LocalSubmission_proofs

Claims == {tx \in included : tx.kind = "claim"}
Settlements == {tx \in pending \cup included : tx.kind = "settle"}

Nullifier(tx) == h_null(tx.row.salt)

\* The rows of claims and settlements are committed ones.
RowsCommitted ==
    \A tx \in pending \cup included : tx.kind \in {"claim", "settle"} =>
        tx.id \in AirdropIds /\ tx.row \in LocalArgs[tx.id].merkle_root

\* An included claim spent its nullifier, so there is one per nullifier.
ClaimsSpend == \A tx \in Claims : nullifier_record[tx.id][Nullifier(tx)].claimed

OneClaimEach ==
    \A tx, other \in Claims :
        tx.id = other.id /\ Nullifier(tx) = Nullifier(other) => tx = other

\* A settlement is for the claim of the command that sent it, and a command
\* sends one.
ClaimOf(attempt, id, row) ==
    \E claim_tx \in Claims :
        claim_tx.attempt = attempt /\ claim_tx.id = id /\ claim_tx.row = row

SettlementsClaimed == \A tx \in Settlements : ClaimOf(tx.attempt, tx.id, tx.row)

OneSettlementEach ==
    /\ \A tx, other \in Settlements : tx.attempt = other.attempt => tx = other
    /\ \A tx \in pending : tx.kind = "settle" => tx \notin included

NotSettledYet(attempt) == \A tx \in Settlements : tx.attempt # attempt

ReadyToSettle ==
    \A p \in Processes : command[p] # Idle =>
        LET c == command[p] IN
        /\ c.step \notin {"settle_wait", "save"} => NotSettledYet(c.attempt)
        /\ c.step = "settle" => ClaimOf(c.attempt, c.loaded.airdrop_id, c.job.row)

\* What was sent for a nullifier was sent by one included settlement.
SettledBooks ==
    \A id \in AirdropIds, n \in Nullifiers : settled[id][n] # 0 =>
        \E tx \in Settlements \cap included :
            tx.id = id /\ Nullifier(tx) = n /\ settled[id][n] = ClaimAmount(id, tx.row)

SettleInv ==
    /\ RowsCommitted
    /\ ClaimsSpend
    /\ OneClaimEach
    /\ SettlementsClaimed
    /\ OneSettlementEach
    /\ ReadyToSettle
    /\ SettledBooks

-----------------------------------------------------------------------------
(* The steps of processes. *)

\* Process p turns its command into d, or ends it, and sends no settlement.
LEMMA NoSettlementSent ==
    ASSUME LocalInv, SettleInv, NEW p \in Processes, command[p] # Idle,
           UNCHANGED <<vars, included, settled>>, pending \subseteq pending',
           \A tx \in pending' \ pending :
               /\ tx.kind # "settle"
               /\ tx.kind = "claim" =>
                    tx.id \in AirdropIds /\ tx.row \in LocalArgs[tx.id].merkle_root,
           NEW d, command' = [command EXCEPT ![p] = d],
           d = Idle \/ /\ d.job = command[p].job
                       /\ d.loaded = command[p].loaded
                       /\ d.attempt = command[p].attempt
                       /\ d.step \notin {"settle_wait", "save"} =>
                            command[p].step \notin {"settle_wait", "save"}
                       /\ d.step = "settle" =>
                            ClaimOf(d.attempt, d.loaded.airdrop_id, d.job.row)
    PROVE  SettleInv'
  <1>1. Claims' = Claims /\ Settlements' = Settlements
    BY DEF Claims, Settlements
  <1>2. command'[p] = d /\ \A q \in Processes \ {p} : command'[q] = command[q]
    BY DEF LocalInv, CommandsOK
  <1>3. RowsCommitted'
    BY DEF SettleInv, RowsCommitted
  <1>4. ClaimsSpend' /\ OneClaimEach'
    BY <1>1 DEF SettleInv, ClaimsSpend, OneClaimEach, Nullifier, vars
  <1>5. SettlementsClaimed' /\ OneSettlementEach'
    BY <1>1 DEF SettleInv, SettlementsClaimed, OneSettlementEach, ClaimOf
  <1>6. ReadyToSettle'
    <2>1. ASSUME NEW q \in Processes, command'[q] # Idle
          PROVE  /\ command'[q].step \notin {"settle_wait", "save"} =>
                      NotSettledYet(command'[q].attempt)
                 /\ command'[q].step = "settle" =>
                      ClaimOf(command'[q].attempt, command'[q].loaded.airdrop_id,
                              command'[q].job.row)
      <3>1. CASE q = p
        BY <1>2, <2>1, <3>1 DEF SettleInv, ReadyToSettle
      <3>2. CASE q # p
        BY <1>2, <2>1, <3>2 DEF SettleInv, ReadyToSettle
      <3> QED BY <3>1, <3>2
    <2> QED BY <1>1, <2>1 DEF ReadyToSettle, NotSettledYet, ClaimOf
  <1>7. SettledBooks'
    BY <1>1 DEF SettleInv, SettledBooks, Nullifier
  <1> QED BY <1>3, <1>4, <1>5, <1>6, <1>7 DEF SettleInv

LEMMA GotoSendsNoSettlement ==
    ASSUME LocalInv, SettleInv, NEW p \in Processes, command[p] # Idle,
           UNCHANGED <<vars, included, settled>>, pending \subseteq pending',
           \A tx \in pending' \ pending :
               /\ tx.kind # "settle"
               /\ tx.kind = "claim" =>
                    tx.id \in AirdropIds /\ tx.row \in LocalArgs[tx.id].merkle_root,
           NEW s, Goto(p, s),
           s \notin {"settle_wait", "save"} => command[p].step \notin {"settle_wait", "save"},
           s = "settle" => ClaimOf(command[p].attempt, command[p].loaded.airdrop_id,
                                   command[p].job.row)
    PROVE  SettleInv'
  <1>1. command[p] \in Commands
    BY DEF LocalInv, CommandsOK
  <1>2. PICK d : d = [command[p] EXCEPT !.step = s]
    OBVIOUS
  <1>3. /\ d.job = command[p].job
        /\ d.loaded = command[p].loaded
        /\ d.attempt = command[p].attempt
        /\ d.step = s
    BY <1>1, <1>2 DEF Commands
  <1>4. command' = [command EXCEPT ![p] = d]
    BY <1>2 DEF Goto
  <1> QED BY <1>3, <1>4, NoSettlementSent

LEMMA EndKeepsSettleInv ==
    ASSUME LocalInv, SettleInv, NEW p \in Processes, command[p] # Idle,
           UNCHANGED <<vars, included, settled, pending>>,
           command' = [command EXCEPT ![p] = Idle]
    PROVE  SettleInv'
  BY NoSettlementSent

\* The one step that sends a settlement: nobody has sent one for this command.
LEMMA SettlementSent ==
    ASSUME LocalInv, BehindInv, SettleInv, NEW p \in Processes, settle_claim_tokens(p)
    PROVE  SettleInv'
  <1>1. PICK c \in Commands : /\ c = command[p] /\ command[p] # Idle
                              /\ c.step = "settle" /\ JobOK(c)
    BY DEF LocalInv, CommandsOK, settle_claim_tokens, At
  <1>2. PICK new : new = SettleTx(c)
    OBVIOUS
  <1>3. /\ new.kind = "settle" /\ new.id = c.loaded.airdrop_id
        /\ new.attempt = c.attempt /\ new.row = c.job.row
    BY <1>2 DEF SettleTx
  <1>4. /\ pending' = pending \cup {new}
        /\ command' = [command EXCEPT ![p].step = "settle_wait"]
        /\ UNCHANGED <<vars, included, settled>>
    BY <1>1, <1>2 DEF settle_claim_tokens, Send, Goto
  <1>5. Claims' = Claims /\ Settlements' = Settlements \cup {new}
    BY <1>3, <1>4 DEF Claims, Settlements
  <1>6. NotSettledYet(c.attempt) /\ ClaimOf(c.attempt, c.loaded.airdrop_id, c.job.row)
    BY <1>1 DEF SettleInv, ReadyToSettle
  <1>7. RowsCommitted'
    <2>1. c.loaded.airdrop_id \in AirdropIds /\ c.job.kind = "claim"
      BY <1>1 DEF Commands, LocalAirdropState, JobOK
    <2>2. new.row \in LocalArgs[new.id].merkle_root /\ new.id \in AirdropIds
      BY <1>1, <1>3, <2>1 DEF JobOK
    <2> QED BY <1>4, <2>2 DEF SettleInv, RowsCommitted
  <1>8. ClaimsSpend' /\ OneClaimEach'
    BY <1>4, <1>5 DEF SettleInv, ClaimsSpend, OneClaimEach, Nullifier, vars
  <1>9. SettlementsClaimed'
    BY <1>3, <1>5, <1>6 DEF SettleInv, SettlementsClaimed, ClaimOf
  <1>10. OneSettlementEach'
    <2>1. \A tx \in Settlements : tx.attempt # new.attempt
      BY <1>3, <1>6 DEF NotSettledYet
    <2>2. new \notin Settlements
      BY <2>1
    <2>3. new \notin included
      BY <1>3, <2>2 DEF Settlements
    <2>4. \A tx, other \in Settlements' : tx.attempt = other.attempt => tx = other
      BY <1>5, <2>1 DEF SettleInv, OneSettlementEach
    <2> QED BY <1>4, <2>3, <2>4 DEF SettleInv, OneSettlementEach
  <1>11. ReadyToSettle'
    <2>1. ASSUME NEW q \in Processes, command'[q] # Idle,
                 command'[q].step # "settle_wait"
          PROVE  command'[q] = command[q] /\ q # p
      BY <1>1, <1>4, <2>1 DEF LocalInv, CommandsOK, Commands
    <2>2. ASSUME NEW q \in Processes, command'[q] # Idle
          PROVE  /\ command'[q].step \notin {"settle_wait", "save"} =>
                      (NotSettledYet(command[q].attempt))'
                 /\ command'[q].step = "settle" =>
                      (ClaimOf(command[q].attempt, command[q].loaded.airdrop_id,
                              command[q].job.row))'
      <3>1. CASE command'[q].step = "settle_wait"
        BY <3>1
      <3>2. CASE command'[q].step # "settle_wait"
        <4>1. command'[q] = command[q] /\ command[q] # Idle /\ q # p
          BY <2>1, <2>2, <3>2
        <4>2. command[q].attempt # new.attempt
          BY <1>1, <1>3, <4>1 DEF BehindInv, AttemptsDistinct
        <4>3. command'[q].step \notin {"settle_wait", "save"} => NotSettledYet(command[q].attempt)
          BY <4>1 DEF SettleInv, ReadyToSettle
        <4>4. command'[q].step = "settle" =>
                ClaimOf(command[q].attempt, command[q].loaded.airdrop_id, command[q].job.row)
          BY <4>1 DEF SettleInv, ReadyToSettle
        <4> QED BY <1>5, <4>1, <4>2, <4>3, <4>4 DEF NotSettledYet, ClaimOf
      <3> QED BY <3>1, <3>2
    <2> QED BY <2>2 DEF ReadyToSettle
  <1>12. SettledBooks'
    BY <1>4, <1>5 DEF SettleInv, SettledBooks, Nullifier
  <1> QED BY <1>7, <1>8, <1>9, <1>10, <1>11, <1>12 DEF SettleInv

LEMMA AdvanceKeepsSettleInv ==
    ASSUME LocalInv, BehindInv, SettleInv, NEW p \in Processes, Advance(p) \/ abandon(p)
    PROVE  SettleInv'
  <1> DEFINE c == command[p]
  <1>1. ASSUME c # Idle
        PROVE  /\ c \in Commands /\ c.job \in Jobs /\ JobOK(c)
               /\ c.loaded.airdrop_id \in AirdropIds
    BY <1>1 DEF LocalInv, CommandsOK, Commands, LocalAirdropState
  <1>2. ASSUME NEW tx, NEW s, Send(p, tx, s), c # Idle,
               c.step \notin {"settle_wait", "save"}, s \in {"wait", "transfer_wait"},
               tx.kind # "settle",
               tx.kind = "claim" =>
                 tx.id \in AirdropIds /\ tx.row \in LocalArgs[tx.id].merkle_root
        PROVE  SettleInv'
    BY <1>2, GotoSendsNoSettlement DEF Send
  <1>3. ASSUME NEW s, Proceed(p, s), c # Idle,
               s \notin {"settle_wait", "save"} => c.step \notin {"settle_wait", "save"},
               s = "settle" => ClaimOf(c.attempt, c.loaded.airdrop_id, c.job.row)
        PROVE  SettleInv'
    BY <1>3, GotoSendsNoSettlement DEF Proceed
  <1>4. CASE prefund_read(p)
    <2>1. c # Idle /\ c.step = "prefund"
      BY <1>4 DEF prefund_read, At
    <2>2. CASE Goto(p, "submit")
      BY <1>4, <2>1, <2>2, GotoSendsNoSettlement DEF prefund_read
    <2>3. CASE \E deposit : command' = [command EXCEPT ![p] =
                              [c EXCEPT !.step = "transfer", !.deposit = deposit]]
      <3>1. PICK deposit, d : /\ d = [c EXCEPT !.step = "transfer", !.deposit = deposit]
                              /\ command' = [command EXCEPT ![p] = d]
        BY <2>3
      <3>2. d.job = c.job /\ d.loaded = c.loaded /\ d.attempt = c.attempt /\ d.step = "transfer"
        BY <1>1, <2>1, <3>1 DEF Commands
      <3>3. UNCHANGED <<vars, included, settled>> /\ pending' = pending
        BY <1>4 DEF prefund_read
      <3> QED BY <2>1, <3>1, <3>2, <3>3, NoSettlementSent
    <2> QED BY <1>4, <2>2, <2>3 DEF prefund_read
  <1>5. CASE prefund_transfer(p)
    BY <1>2, <1>5 DEF prefund_transfer, At, SignedTx
  <1>6. CASE prefund_wait(p)
    BY <1>3, <1>6 DEF prefund_wait, At
  <1>7. CASE submit(p)
    <2>1. c # Idle /\ c.job \in Jobs /\ c.step = "submit"
      BY <1>1, <1>7 DEF submit, At
    <2>2. PICK now \in CallerTimes :
            Send(p, CASE c.job.kind = "claim" -> ClaimTx(c, now)
                      [] c.job.kind = "fund" -> SignedTx("fund", c, c.job.amount, now)
                      [] OTHER -> SignedTx(c.job.kind, c, 0, now), "wait")
      BY <1>7 DEF submit
    <2>3. CASE c.job.kind = "claim"
      <3>1. Send(p, ClaimTx(c, now), "wait")
        BY <2>2, <2>3
      <3>2. c.job.row \in LocalArgs[c.loaded.airdrop_id].merkle_root
        BY <1>1, <2>1, <2>3 DEF JobOK
      <3> QED BY <1>1, <1>2, <2>1, <3>1, <3>2 DEF ClaimTx
    <2>4. CASE c.job.kind = "fund"
      <3>1. Send(p, SignedTx("fund", c, c.job.amount, now), "wait")
        BY <2>2, <2>4
      <3> QED BY <1>2, <2>1, <3>1 DEF SignedTx
    <2>5. CASE c.job.kind \in {"init", "close"}
      <3>1. Send(p, SignedTx(c.job.kind, c, 0, now), "wait")
        BY <2>2, <2>5
      <3> QED BY <1>2, <2>1, <2>5, <3>1 DEF SignedTx
    <2> QED BY <2>1, <2>3, <2>4, <2>5 DEF Jobs
  <1>8. CASE confirm(p)
    <2>1. c # Idle /\ c.step = "wait"
      BY <1>8 DEF confirm, At
    <2>2. PICK tx \in included : tx.kind = c.job.kind /\ tx.attempt = c.attempt
      BY <1>8 DEF confirm, Included
    <2>3. Matches(tx, c)
      BY <2>1, <2>2 DEF BehindInv, SentByCommands
    <2>4. c.job.kind = "claim" => ClaimOf(c.attempt, c.loaded.airdrop_id, c.job.row)
      BY <2>2, <2>3 DEF Matches, ClaimOf, Claims
    <2> QED BY <1>3, <1>8, <2>1, <2>4 DEF confirm, SettlementDue
  <1>9. CASE settle_claim_tokens(p)
    BY <1>9, SettlementSent
  <1>10. CASE settle_confirm(p)
    BY <1>3, <1>10 DEF settle_confirm, At
  <1>11. CASE save_state(p)
    BY <1>11, EndKeepsSettleInv DEF save_state, At
  <1>12. CASE abandon(p)
    BY <1>12, EndKeepsSettleInv DEF abandon, End
  <1> QED BY <1>4, <1>5, <1>6, <1>7, <1>8, <1>9, <1>10, <1>11, <1>12, TimeOutEnds DEF Advance

\* A command that starts has a number no transaction carries.
LEMMA StartCommandKeepsSettleInv ==
    ASSUME LocalInv, BehindInv, SettleInv, NEW p \in Processes, StartCommand(p)
    PROVE  SettleInv'
  <1>1. PICK job, loaded, s : Start(p, job, loaded, s) /\ s # "settle"
    <2>1. CASE \E id \in AirdropIds : init(p, id)
      BY <2>1 DEF init
    <2>2. CASE \E amount \in FundAmounts : fund_command(p, amount)
      BY <2>2 DEF fund_command
    <2>3. CASE \E row \in LocalArgs[state_json.airdrop_id].merkle_root, dest \in Wallets :
                 claim_command(p, row, dest)
      BY <2>3 DEF claim_command
    <2>4. CASE close_command(p)
      BY <2>4 DEF close_command
    <2> QED BY <2>1, <2>2, <2>3, <2>4 DEF StartCommand
  <1>2. UNCHANGED <<vars, pending, included, settled>>
    BY <1>1 DEF Start
  <1>3. Claims' = Claims /\ Settlements' = Settlements
    BY <1>2 DEF Claims, Settlements
  <1>4. RowsCommitted' /\ ClaimsSpend' /\ OneClaimEach'
    BY <1>2, <1>3 DEF SettleInv, RowsCommitted, ClaimsSpend, OneClaimEach, Nullifier, vars
  <1>5. SettlementsClaimed' /\ OneSettlementEach' /\ SettledBooks'
    BY <1>2, <1>3 DEF SettleInv, SettlementsClaimed, OneSettlementEach, ClaimOf, SettledBooks,
                      Nullifier
  <1>6. PICK c : /\ command' = [command EXCEPT ![p] = c]
                 /\ c.attempt = attempts /\ c.step = s
    <2>1. PICK c : c = [step |-> s, job |-> job, loaded |-> loaded,
                        attempt |-> attempts, deposit |-> 0]
      OBVIOUS
    <2>2. command' = [command EXCEPT ![p] = c]
      BY <1>1, <2>1 DEF Start
    <2>3. c.attempt = attempts /\ c.step = s
      BY <2>1
    <2> QED BY <2>2, <2>3
  <1>7. NotSettledYet(attempts)
    <2>1. \A tx \in pending \cup included : tx.attempt \in 0 .. attempts - 1
      BY DEF BehindInv, SentByCommands
    <2>2. attempts \in Nat
      BY LocalAssumption DEF LocalInv, LocalTypeOK
    <2> QED BY <2>1, <2>2 DEF NotSettledYet, Settlements
  <1>8. ReadyToSettle'
    <2>1. ASSUME NEW q \in Processes, command'[q] # Idle
          PROVE  /\ command'[q].step \notin {"settle_wait", "save"} =>
                      NotSettledYet(command'[q].attempt)
                 /\ command'[q].step = "settle" =>
                      ClaimOf(command'[q].attempt, command'[q].loaded.airdrop_id,
                              command'[q].job.row)
      <3>1. CASE q = p
        <4>1. command'[q] = c
          BY <1>6, <3>1 DEF LocalInv, CommandsOK
        <4> QED BY <1>1, <1>6, <1>7, <4>1
      <3>2. CASE q # p
        <4>1. command'[q] = command[q]
          BY <1>6, <3>2 DEF LocalInv, CommandsOK
        <4> QED BY <2>1, <4>1 DEF SettleInv, ReadyToSettle
      <3> QED BY <3>1, <3>2
    <2> QED BY <1>3, <2>1 DEF ReadyToSettle, NotSettledYet, ClaimOf
  <1> QED BY <1>4, <1>5, <1>8 DEF SettleInv

-----------------------------------------------------------------------------
(* The ledger. *)

LEMMA SpentStays ==
    ASSUME TypeOK, [Next]_vars, NEW id \in AirdropIds, NEW n \in Nullifiers,
           nullifier_record[id][n].claimed
    PROVE  nullifier_record'[id][n].claimed
  <1>1. CASE \E i, m, amount, credit : ClaimStep(i, m, amount, credit)
    BY <1>1 DEF ClaimStep, SpendNullifier, TypeOK
  <1>2. CASE nullifier_record' = nullifier_record
    BY <1>2
  <1>3. CASE Touch
    BY <1>3, TouchIsHarmless
  <1> QED BY <1>1, <1>2, <1>3, NextIsClaimOrNot

\* Rows with one nullifier are one row.
LEMMA NullifierNamesRow ==
    ASSUME NEW id \in AirdropIds, NEW row \in LocalArgs[id].merkle_root,
           NEW other \in LocalArgs[id].merkle_root, h_null(row.salt) = h_null(other.salt)
    PROVE  row = other
  <1>1. row.salt = other.salt
    BY DEF h_null
  <1> QED BY <1>1, LocalAssumption

\* What changes when a transaction is included, whatever it does.
LEMMA InclusionKeepsSettlements ==
    ASSUME TypeOK, TypeOK', LocalInv, SettleInv, [Next]_vars,
           NEW tx \in pending, Include(tx)
    PROVE  /\ RowsCommitted'
           /\ Settlements' = Settlements
           /\ SettlementsClaimed'
           /\ OneSettlementEach'
           /\ ReadyToSettle'
           /\ \A claim_tx \in Claims :
                nullifier_record'[claim_tx.id][Nullifier(claim_tx)].claimed
  <1>1. pending' = pending \ {tx} /\ included' = included \cup {tx} /\ command' = command
    BY DEF Include
  <1>2. Settlements' = Settlements /\ Claims \subseteq Claims'
    BY <1>1 DEF Settlements, Claims
  <1>3. RowsCommitted'
    BY <1>1 DEF SettleInv, RowsCommitted
  <1>4. \A a, id, row : ClaimOf(a, id, row) => ClaimOf(a, id, row)'
    BY <1>2 DEF ClaimOf
  <1>5. SettlementsClaimed'
    BY <1>2, <1>4 DEF SettleInv, SettlementsClaimed
  <1>6. OneSettlementEach'
    BY <1>1, <1>2 DEF SettleInv, OneSettlementEach
  <1>7. ReadyToSettle'
    BY <1>1, <1>2, <1>4 DEF SettleInv, ReadyToSettle, NotSettledYet
  <1>8. ASSUME NEW claim_tx \in Claims
        PROVE  nullifier_record'[claim_tx.id][Nullifier(claim_tx)].claimed
    <2>1. claim_tx.id \in AirdropIds /\ claim_tx.row \in LocalArgs[claim_tx.id].merkle_root
      BY DEF SettleInv, RowsCommitted, Claims
    <2>2. Nullifier(claim_tx) \in Nullifiers
      BY <2>1, LocalRowsTyped DEF Nullifier
    <2>3. nullifier_record[claim_tx.id][Nullifier(claim_tx)].claimed
      BY DEF SettleInv, ClaimsSpend
    <2> QED BY <2>1, <2>2, <2>3, SpentStays
  <1> QED BY <1>2, <1>3, <1>5, <1>6, <1>7, <1>8

LEMMA LedgerKeepsSettleInv ==
    ASSUME TypeOK, TypeOK', LocalInv, SettleInv, Ledger
    PROVE  SettleInv'
  <1>1. [Next]_vars
    BY LocalStepIsProgramStep DEF LocalNext
  <1>2. CASE Tick /\ UNCHANGED localVars
    <2>1. Claims' = Claims /\ Settlements' = Settlements /\ nullifier_record' = nullifier_record
      BY <1>2 DEF Claims, Settlements, Tick, localVars
    <2>2. RowsCommitted' /\ ClaimsSpend' /\ OneClaimEach'
      BY <1>2, <2>1 DEF SettleInv, RowsCommitted, ClaimsSpend, OneClaimEach, Nullifier, localVars
    <2>3. SettlementsClaimed' /\ OneSettlementEach'
      BY <1>2, <2>1 DEF SettleInv, SettlementsClaimed, OneSettlementEach, ClaimOf, localVars
    <2>4. ReadyToSettle'
      BY <1>2, <2>1 DEF SettleInv, ReadyToSettle, NotSettledYet, ClaimOf, localVars
    <2>5. SettledBooks'
      BY <1>2, <2>1 DEF SettleInv, SettledBooks, Nullifier, localVars
    <2> QED BY <2>2, <2>3, <2>4, <2>5 DEF SettleInv
  <1>3. ASSUME NEW tx \in pending, Include(tx), tx.kind # "claim"
        PROVE  ClaimsSpend' /\ OneClaimEach'
    <2>1. Claims' = Claims
      BY <1>3 DEF Include, Claims
    <2>2. \A claim_tx \in Claims :
            nullifier_record'[claim_tx.id][Nullifier(claim_tx)].claimed
      BY <1>1, <1>3, InclusionKeepsSettlements
    <2> QED BY <2>1, <2>2 DEF SettleInv, ClaimsSpend, OneClaimEach, Nullifier
  <1>4. ASSUME NEW tx \in pending, Include(tx), tx.kind # "settle", UNCHANGED settled
        PROVE  SettledBooks'
    <2>1. Settlements' \cap included' = Settlements \cap included
      BY <1>4 DEF Include, Settlements
    <2> QED BY <1>4, <2>1 DEF SettleInv, SettledBooks, Nullifier
  <1>5. CASE \E tx \in pending : IncludeSigned(tx)
    BY <1>1, <1>3, <1>4, <1>5, InclusionKeepsSettlements DEF IncludeSigned, SettleInv
  <1>6. CASE \E tx \in pending : IncludeClaim(tx)
    <2>1. PICK tx \in pending : IncludeClaim(tx)
      BY <1>6
    <2>2. /\ tx.kind = "claim" /\ Include(tx)
          /\ NullifierUnused(tx.id, Nullifier(tx))
          /\ SpendNullifier(tx.id, Nullifier(tx), 0)
          /\ UNCHANGED settled
      BY <2>1 DEF IncludeClaim, claim_ppe, Nullifier, claim_ppe_checks, witness_checks
    <2>3. Claims' = Claims \cup {tx}
      BY <2>2 DEF Include, Claims
    <2>4. tx.id \in AirdropIds /\ Nullifier(tx) \in Nullifiers
      BY <2>2, LocalRowsTyped DEF SettleInv, RowsCommitted, Nullifier
    <2>5. nullifier_record'[tx.id][Nullifier(tx)].claimed
      BY <2>2, <2>4 DEF SpendNullifier, TypeOK
    <2>6. \A claim_tx \in Claims :
            /\ nullifier_record[claim_tx.id][Nullifier(claim_tx)].claimed
            /\ nullifier_record'[claim_tx.id][Nullifier(claim_tx)].claimed
      BY <1>1, <2>2, InclusionKeepsSettlements DEF SettleInv, ClaimsSpend
    <2>7. ~ nullifier_record[tx.id][Nullifier(tx)].claimed
      BY <2>2 DEF NullifierUnused, UntouchedRecord
    <2>8. ClaimsSpend'
      BY <2>3, <2>5, <2>6 DEF ClaimsSpend, Nullifier
    <2>9. \A claim_tx \in Claims :
            ~ (claim_tx.id = tx.id /\ Nullifier(claim_tx) = Nullifier(tx))
      BY <2>6, <2>7
    <2>10. OneClaimEach'
      BY <2>3, <2>9 DEF SettleInv, OneClaimEach, Nullifier
    <2> QED BY <1>1, <1>4, <2>2, <2>8, <2>10, InclusionKeepsSettlements DEF SettleInv
  <1>7. CASE \E tx \in pending : IncludeSettlement(tx)
    <2>1. PICK tx \in pending : IncludeSettlement(tx)
      BY <1>7
    <2>2. tx.kind = "settle" /\ Include(tx) /\ tx \in Settlements
      BY <2>1 DEF IncludeSettlement, Settlements
    <2>3. tx.id \in AirdropIds /\ tx.row \in LocalArgs[tx.id].merkle_root
      BY <2>2 DEF SettleInv, RowsCommitted
    <2>4. PICK n \in Nullifiers, amount \in Nat :
            n = Nullifier(tx) /\ amount = ClaimAmount(tx.id, tx.row)
      BY <2>3, LocalRowsTyped DEF Nullifier
    <2>5. ASSUME settled[tx.id][n] # 0 PROVE FALSE
      <3>1. PICK other \in Settlements \cap included : other.id = tx.id /\ Nullifier(other) = n
        BY <2>3, <2>5 DEF SettleInv, SettledBooks
      <3>2. PICK a_claim \in Claims :
              a_claim.attempt = tx.attempt /\ a_claim.id = tx.id /\ a_claim.row = tx.row
        BY <2>2 DEF SettleInv, SettlementsClaimed, ClaimOf
      <3>3. PICK b_claim \in Claims :
              b_claim.attempt = other.attempt /\ b_claim.id = other.id /\ b_claim.row = other.row
        BY <3>1 DEF SettleInv, SettlementsClaimed, ClaimOf
      <3>4. a_claim = b_claim
        BY <2>4, <3>1, <3>2, <3>3 DEF SettleInv, OneClaimEach, Nullifier
      <3>5. tx = other
        BY <2>2, <3>1, <3>2, <3>3, <3>4 DEF SettleInv, OneSettlementEach
      <3> QED BY <2>2, <3>1, <3>5 DEF SettleInv, OneSettlementEach
    <2>6. settled \in [AirdropIds -> [Nullifiers -> Nat]]
      BY DEF LocalInv, LocalTypeOK
    <2>7. settled' = [settled EXCEPT ![tx.id] =
                        [settled[tx.id] EXCEPT ![n] = settled[tx.id][n] + amount]]
      BY <2>1, <2>4 DEF IncludeSettlement, Nullifier
    <2>8. /\ settled'[tx.id][n] = amount
          /\ \A id \in AirdropIds, m \in Nullifiers :
               id # tx.id \/ m # n => settled'[id][m] = settled[id][m]
      BY <2>3, <2>4, <2>5, <2>6, <2>7
    <2>9. Settlements' \cap included' = (Settlements \cap included) \cup {tx}
      BY <2>2 DEF Include, Settlements
    <2>10. SettledBooks'
      <3>1. ASSUME NEW id \in AirdropIds, NEW m \in Nullifiers, settled'[id][m] # 0
            PROVE  \E other \in Settlements' \cap included' :
                     /\ other.id = id /\ Nullifier(other) = m
                     /\ settled'[id][m] = ClaimAmount(id, other.row)
        <4>1. CASE id = tx.id /\ m = n
          BY <2>4, <2>8, <2>9, <4>1
        <4>2. CASE id # tx.id \/ m # n
          BY <2>8, <2>9, <3>1, <4>2 DEF SettleInv, SettledBooks
        <4> QED BY <4>1, <4>2
      <3> QED BY <3>1 DEF SettledBooks, Nullifier
    <2> QED BY <1>1, <1>3, <2>2, <2>10, InclusionKeepsSettlements DEF SettleInv
  <1> QED BY <1>2, <1>5, <1>6, <1>7 DEF Ledger

-----------------------------------------------------------------------------
LEMMA LocalInitSettlesNothing == LocalInit => SettleInv
  BY DEF LocalInit, SettleInv, RowsCommitted, ClaimsSpend, OneClaimEach, SettlementsClaimed,
         OneSettlementEach, ReadyToSettle, SettledBooks, Claims, Settlements

LEMMA SettleInvIsInductive ==
    (TypeOK /\ Solvent /\ LocalInv /\ BehindInv /\ SettleInv) /\ [LocalNext]_allVars
        => (TypeOK /\ Solvent /\ LocalInv /\ BehindInv /\ SettleInv)'
  <1> SUFFICES ASSUME TypeOK, Solvent, LocalInv, BehindInv, SettleInv, [LocalNext]_allVars
               PROVE  (TypeOK /\ Solvent /\ LocalInv /\ BehindInv /\ SettleInv)'
    OBVIOUS
  <1>1. TypeOK' /\ Solvent' /\ LocalInv' /\ BehindInv'
    BY BehindInvIsInductive
  <1>2. CASE \E p \in Processes : StartCommand(p)
    BY <1>1, <1>2, StartCommandKeepsSettleInv
  <1>3. CASE \E p \in Processes : Advance(p) \/ abandon(p)
    BY <1>1, <1>3, AdvanceKeepsSettleInv
  <1>4. CASE Ledger
    BY <1>1, <1>4, LedgerKeepsSettleInv
  <1>5. CASE UNCHANGED allVars
    <2>1. Claims' = Claims /\ Settlements' = Settlements
      BY <1>5 DEF Claims, Settlements, allVars, localVars
    <2>2. SettleInv'
      BY <1>5, <2>1 DEF SettleInv, RowsCommitted, ClaimsSpend, OneClaimEach, SettlementsClaimed,
         OneSettlementEach, ReadyToSettle, NotSettledYet, ClaimOf, SettledBooks, Nullifier,
         allVars, localVars, vars
    <2> QED BY <1>1, <2>2
  <1> QED BY <1>2, <1>3, <1>4, <1>5 DEF LocalNext

LEMMA BooksSettleOnce == TypeOK /\ SettleInv => SettledAtMostOnce
  <1> SUFFICES ASSUME TypeOK, SettleInv, NEW id \in AirdropIds,
                      NEW row \in LocalArgs[id].merkle_root,
                      settled[id][h_null(row.salt)] # 0
               PROVE  /\ settled[id][h_null(row.salt)] = ClaimAmount(id, row)
                      /\ nullifier_record[id][h_null(row.salt)].claimed
    BY DEF SettledAtMostOnce
  <1>1. PICK n \in Nullifiers : n = h_null(row.salt)
    BY LocalRowsTyped
  <1>2. PICK tx \in Settlements \cap included :
          tx.id = id /\ Nullifier(tx) = n /\ settled[id][n] = ClaimAmount(id, tx.row)
    BY <1>1 DEF SettleInv, SettledBooks
  <1>3. tx.row \in LocalArgs[id].merkle_root
    BY <1>2 DEF SettleInv, RowsCommitted, Settlements
  <1>4. tx.row = row
    BY <1>1, <1>2, <1>3, NullifierNamesRow DEF Nullifier
  <1>5. PICK claim_tx \in Claims : claim_tx.id = id /\ claim_tx.row = row
    BY <1>2, <1>4 DEF SettleInv, SettlementsClaimed, ClaimOf
  <1>6. nullifier_record[id][n].claimed
    BY <1>1, <1>5 DEF SettleInv, ClaimsSpend, Nullifier
  <1> QED BY <1>1, <1>2, <1>4, <1>6

\* No row is settled twice and no settlement goes out without its native claim,
\* for any number of commands: the nullifier on the ledger is what a retried or
\* raced settlement is held to.
THEOREM TokensSettledOnce == LocalSpec => []SettledAtMostOnce
  <1>1. LocalInit => TypeOK /\ Solvent /\ LocalInv /\ BehindInv /\ SettleInv
    BY InitEstablishesInv, LocalInitEstablishesInv, LocalInitIsBehind, LocalInitSettlesNothing
       DEF LocalInit
  <1> QED BY <1>1, SettleInvIsInductive, BooksSettleOnce, PTL DEF LocalSpec

-----------------------------------------------------------------------------
(* Commands one after the other.  Then what a command read is still what    *)
(* state.json says when it saves, and what the ledger is ahead by is exactly *)
(* the transactions of commands that did not save.                          *)

OneAtATime == \A p, q \in Processes : p = q

\* What a running command read is what the file says, unless it makes the file.
SnapshotInv ==
    /\ state_json # Missing => state_json.airdrop_id \in drawn
    /\ \A p \in Processes : command[p] # Idle =>
         LET c == command[p] IN
         IF c.job.kind = "init"
         THEN /\ c.loaded.airdrop_id \in drawn
              /\ state_json # Missing => state_json.airdrop_id # c.loaded.airdrop_id
         ELSE /\ state_json # Missing
              /\ c.loaded = state_json

\* The transaction a command is for, as opposed to a deposit or a settlement.
Main == {tx \in pending \cup included : tx.kind \in {"init", "fund", "claim", "close"}}

OwnOK(c) ==
    /\ c.attempt \notin failed
    /\ \A tx \in Main : tx.attempt = c.attempt => tx.kind = c.job.kind
    /\ c.step \notin Sent => \A tx \in Main : tx.attempt # c.attempt
    /\ c.step \in {"settle", "settle_wait", "save"} =>
         \/ \E tx \in Main \cap included : tx.attempt = c.attempt
         \/ c.job.kind = "close" /\ \A tx \in Main : tx.attempt # c.attempt
    /\ c.step = "transfer" => c.job.kind = "fund"

\* A command sends one, and answers for it as long as it is not in a block.
MainInv ==
    /\ \A tx, other \in Main : tx.attempt = other.attempt => tx = other
    /\ \A tx \in Main : ~ (tx \in pending /\ tx \in included)
    /\ \A tx \in Main : tx.kind = "fund" => tx.amount \in FundAmounts
    /\ \A tx \in Main \cap pending :
         \/ tx.attempt \in failed
         \/ \E p \in Processes : command[p] # Idle /\ command[p].attempt = tx.attempt
    /\ \A p \in Processes : command[p] # Idle => OwnOK(command[p])
    /\ IsFiniteSet(included)

\* Nothing but its creation was ever asked of an airdrop.
NothingDone(id) ==
    /\ airdrop[id] # Default => airdrop[id].total_funded = 0 /\ airdrop[id].total_claimed = 0
    /\ \A n \in Nullifiers : ~ nullifier_record[id][n].claimed
    /\ \A tx \in pending \cup included : tx.id = id => tx.kind = "init"

NewBooks ==
    /\ \A id \in AirdropIds \ drawn : NothingDone(id)
    /\ \A p \in Processes :
         command[p] # Idle /\ command[p].job.kind = "init" =>
             NothingDone(command[p].loaded.airdrop_id)

SequentialInv == SnapshotInv /\ MainInv /\ NewBooks /\ LagIsReported

-----------------------------------------------------------------------------
(* The sums of a lag. *)

AmountSum(S) == SumFunction([tx \in S |-> tx.amount])
ClaimSum(id, S) == SumFunction([tx \in S |-> ClaimAmount(id, tx.row)])

LagBooks ==
    LET id == state_json.airdrop_id IN
    state_json # Missing =>
      /\ airdrop[id].total_funded = state_json.total_funded + AmountSum(Unrecorded(id, "fund"))
      /\ airdrop[id].total_claimed = state_json.total_claimed + ClaimSum(id, Unrecorded(id, "claim"))
      /\ {n \in Nullifiers : nullifier_record[id][n].claimed} =
            state_json.nullifiers \cup {h_null(tx.row.salt) : tx \in Unrecorded(id, "claim")}

LEMMA LagMeans == LagIsReported <=> LagBooks
  BY DEF LagIsReported, LagBooks, AmountSum, ClaimSum

LEMMA AmountSums ==
    /\ AmountSum({}) = 0
    /\ \A S, tx : /\ IsFiniteSet(S) /\ tx \notin S
                  /\ \A t \in S \cup {tx} : t.amount \in Int
         => AmountSum(S \cup {tx}) = AmountSum(S) + tx.amount /\ AmountSum(S) \in Int
  <1>1. AmountSum({}) = 0
    BY SumEmpty DEF AmountSum, SumFunction
  <1>2. ASSUME NEW S, NEW tx, IsFiniteSet(S), tx \notin S,
               \A t \in S \cup {tx} : t.amount \in Int
        PROVE  AmountSum(S \cup {tx}) = AmountSum(S) + tx.amount /\ AmountSum(S) \in Int
    <2>1. PICK f, g : /\ f = [t \in S |-> t.amount]
                      /\ g = [t \in S \cup {tx} |-> t.amount]
      OBVIOUS
    <2>2. /\ DOMAIN f = S /\ DOMAIN g = S \cup {tx}
          /\ \A x \in S : f[x] = g[x]
          /\ \A x \in S \cup {tx} : g[x] \in Int
          /\ g[tx] = tx.amount
      BY <1>2, <2>1
    <2>3. SumFunction(g) = SumFunction(f) + g[tx] /\ SumFunction(f) \in Int
      <3>1. SumFunctionOnSet(g, S \cup {tx}) = g[tx] + SumFunctionOnSet(g, S)
        BY <1>2, <2>2, SumAdd
      <3>2. SumFunctionOnSet(f, S) = SumFunctionOnSet(g, S)
        <4>1. IsFiniteSet(S) /\ \A x \in S : f[x] = g[x]
          BY <1>2, <2>2
        <4> HIDE <1>2, <2>1, <2>2
        <4> QED BY <4>1, SumSame
      <3>3. SumFunctionOnSet(g, S) \in Int /\ g[tx] \in Int
        BY <1>2, <2>2, SumInt
      <3> QED BY <2>2, <3>1, <3>2, <3>3 DEF SumFunction
    <2> QED BY <2>1, <2>2, <2>3 DEF AmountSum
  <1> QED BY <1>1, <1>2

LEMMA ClaimSums ==
    ASSUME NEW id
    PROVE  /\ ClaimSum(id, {}) = 0
           /\ \A S, tx : /\ IsFiniteSet(S) /\ tx \notin S
                         /\ \A t \in S \cup {tx} : ClaimAmount(id, t.row) \in Int
                => /\ ClaimSum(id, S \cup {tx}) = ClaimSum(id, S) + ClaimAmount(id, tx.row)
                   /\ ClaimSum(id, S) \in Int
  <1>1. ClaimSum(id, {}) = 0
    BY SumEmpty DEF ClaimSum, SumFunction
  <1>2. ASSUME NEW S, NEW tx, IsFiniteSet(S), tx \notin S,
               \A t \in S \cup {tx} : ClaimAmount(id, t.row) \in Int
        PROVE  /\ ClaimSum(id, S \cup {tx}) = ClaimSum(id, S) + ClaimAmount(id, tx.row)
               /\ ClaimSum(id, S) \in Int
    <2>1. PICK f, g : /\ f = [t \in S |-> ClaimAmount(id, t.row)]
                      /\ g = [t \in S \cup {tx} |-> ClaimAmount(id, t.row)]
      OBVIOUS
    <2>2. /\ DOMAIN f = S /\ DOMAIN g = S \cup {tx}
          /\ \A x \in S : f[x] = g[x]
          /\ \A x \in S \cup {tx} : g[x] \in Int
          /\ g[tx] = ClaimAmount(id, tx.row)
      BY <1>2, <2>1
    <2>3. SumFunction(g) = SumFunction(f) + g[tx] /\ SumFunction(f) \in Int
      <3>1. SumFunctionOnSet(g, S \cup {tx}) = g[tx] + SumFunctionOnSet(g, S)
        BY <1>2, <2>2, SumAdd
      <3>2. SumFunctionOnSet(f, S) = SumFunctionOnSet(g, S)
        <4>1. IsFiniteSet(S) /\ \A x \in S : f[x] = g[x]
          BY <1>2, <2>2
        <4> HIDE <1>2, <2>1, <2>2
        <4> QED BY <4>1, SumSame
      <3>3. SumFunctionOnSet(g, S) \in Int /\ g[tx] \in Int
        BY <1>2, <2>2, SumInt
      <3> QED BY <2>2, <3>1, <3>2, <3>3 DEF SumFunction
    <2> QED BY <2>1, <2>2, <2>3 DEF ClaimSum
  <1> QED BY <1>1, <1>2

\* What a lag is made of: finitely many transactions with amounts.
LEMMA UnrecordedTyped ==
    ASSUME MainInv, SettleInv, NEW id \in AirdropIds
    PROVE  /\ \A kind : IsFiniteSet(Unrecorded(id, kind))
           /\ \A tx \in Unrecorded(id, "fund") : tx.amount \in Nat
           /\ \A tx \in Unrecorded(id, "claim") :
                /\ ClaimAmount(id, tx.row) \in Nat
                /\ h_null(tx.row.salt) \in Nullifiers
  <1>1. \A kind : Unrecorded(id, kind) \subseteq included
    BY DEF Unrecorded
  <1>2. \A kind : IsFiniteSet(Unrecorded(id, kind))
    BY <1>1, FS_Subset DEF MainInv
  <1>3. \A tx \in Unrecorded(id, "fund") : tx.amount \in FundAmounts
    BY DEF MainInv, Main, Unrecorded
  <1>4. \A tx \in Unrecorded(id, "claim") : tx.row \in LocalArgs[id].merkle_root
    BY DEF SettleInv, RowsCommitted, Unrecorded
  <1>5. \A tx \in Unrecorded(id, "claim") :
          ClaimAmount(id, tx.row) \in 0 .. U64Max /\ h_null(tx.row.salt) \in Nullifiers
    BY <1>4, LocalRowsTyped
  <1>6. \A tx \in Unrecorded(id, "fund") : tx.amount \in Nat
    BY <1>3, LocalAssumption
  <1>7. 0 .. U64Max \subseteq Nat
    BY ConstantsAssumption
  <1> QED BY <1>2, <1>5, <1>6, <1>7

-----------------------------------------------------------------------------
(* A running command goes on.  All it changes is its own step and, at most,  *)
(* one transaction it sends.                                                *)

LaterSteps == {"settle", "settle_wait", "save"}

GoesOn(p, d) ==
    LET c == command[p] IN
    /\ c # Idle /\ d # Idle
    /\ command' = [command EXCEPT ![p] = d]
    /\ d.job = c.job /\ d.loaded = c.loaded /\ d.attempt = c.attempt
    /\ UNCHANGED <<vars, state_json, included, drawn, failed>>
    /\ d.step \notin Sent => c.step \notin Sent
    /\ d.step \in LaterSteps => c.step \in LaterSteps \/ Included(p, c.job.kind)
    /\ d.step = "transfer" => c.job.kind = "fund"

\* It may send a transaction for what it was asked, once.
Sends1(p, d, tx) ==
    LET c == command[p] IN
    /\ tx.id = c.loaded.airdrop_id
    /\ tx.attempt = c.attempt
    /\ tx.kind = "init" <=> c.job.kind = "init"
    /\ \/ tx.kind \in {"deposit", "settle"}
       \/ /\ tx.kind = c.job.kind
          /\ c.step \notin Sent
          /\ d.step \in Sent
    /\ tx.kind = "fund" => tx.amount \in FundAmounts

LEMMA MainSent ==
    ASSUME OneAtATime, LocalInv, BehindInv, SequentialInv, NEW p \in Processes, NEW d, GoesOn(p, d),
           \/ pending' = pending
           \/ \E tx : pending' = pending \cup {tx} /\ Sends1(p, d, tx)
    PROVE  MainInv'
  <1> DEFINE c == command[p]
  <1>1. command' = [command EXCEPT ![p] = d] /\ included' = included /\ failed' = failed
    BY DEF GoesOn
  <1>2. \A q \in Processes : q = p /\ command'[q] = d
    BY <1>1 DEF OneAtATime, LocalInv, CommandsOK
  <1>3. /\ c # Idle /\ d # Idle
        /\ d.job = c.job /\ d.attempt = c.attempt
        /\ d.step \notin Sent => c.step \notin Sent
        /\ d.step \in LaterSteps => c.step \in LaterSteps \/ Included(p, c.job.kind)
        /\ d.step = "transfer" => c.job.kind = "fund"
    BY DEF GoesOn
  <1>4. OwnOK(c) /\ MainInv
    BY <1>3 DEF SequentialInv, MainInv
  <1>5. \A tx \in Main : tx.attempt = c.attempt => tx.kind = c.job.kind
    BY <1>4 DEF OwnOK
  <1>6. c \in Commands /\ c.job.kind \in {"init", "fund", "claim", "close"}
    BY <1>3 DEF LocalInv, CommandsOK, Commands, Jobs
  <1>7. CASE Main' = Main /\ \A tx \in pending' \ pending : tx \notin Main
    <2>1. OwnOK(d)'
      <3>1. d.step \notin Sent => \A tx \in Main : tx.attempt # d.attempt
        BY <1>3, <1>4 DEF OwnOK
      <3>2. d.step \in LaterSteps =>
              \/ \E tx \in Main \cap included : tx.attempt = d.attempt
              \/ d.job.kind = "close" /\ \A tx \in Main : tx.attempt # d.attempt
        <4>1. CASE c.step \in LaterSteps
          BY <1>3, <1>4, <4>1 DEF OwnOK, LaterSteps
        <4>2. CASE Included(p, c.job.kind)
          BY <1>3, <1>6, <4>2 DEF Included, Main
        <4> QED BY <1>3, <4>1, <4>2
      <3> QED BY <1>1, <1>3, <1>4, <1>7, <3>1, <3>2 DEF OwnOK, LaterSteps
    <2>2. \A tx \in Main' \cap pending' :
            \/ tx.attempt \in failed'
            \/ \E q \in Processes : command'[q] # Idle /\ command'[q].attempt = tx.attempt
      <3>1. \A tx \in Main' \cap pending' : tx \in Main \cap pending
        BY <1>7
      <3> QED BY <1>1, <1>2, <1>3, <1>4, <3>1 DEF MainInv
    <2>3. \A tx \in Main' : ~ (tx \in pending' /\ tx \in included')
      BY <1>1, <1>4, <1>7 DEF MainInv
    <2> QED BY <1>1, <1>2, <1>4, <1>7, <2>1, <2>2, <2>3 DEF MainInv
  <1>8. CASE \E tx : /\ pending' = pending \cup {tx} /\ Sends1(p, d, tx)
                     /\ tx.kind = c.job.kind /\ c.step \notin Sent /\ d.step \in Sent
    <2>1. PICK tx : /\ pending' = pending \cup {tx}
                    /\ tx.kind = c.job.kind /\ c.step \notin Sent /\ d.step \in Sent
                    /\ tx.attempt = c.attempt
                    /\ tx.kind = "fund" => tx.amount \in FundAmounts
      BY <1>8 DEF Sends1
    <2>2. Main' = Main \cup {tx}
      BY <1>1, <1>6, <2>1 DEF Main
    <2>3. \A t \in Main : t.attempt # tx.attempt
      BY <1>4, <2>1 DEF OwnOK
    <2>4. tx \notin included
      BY <1>6, <2>1, <2>3 DEF Main
    <2>5. \A t \in Main' : ~ (t \in pending' /\ t \in included')
      BY <1>1, <1>4, <2>1, <2>2, <2>3, <2>4 DEF MainInv
    <2>6. \A t, other \in Main' : t.attempt = other.attempt => t = other
      BY <1>4, <2>2, <2>3 DEF MainInv
    <2>7. \A t \in Main' : t.kind = "fund" => t.amount \in FundAmounts
      BY <1>4, <2>1, <2>2 DEF MainInv
    <2>8. \A t \in Main' \cap pending' :
            \/ t.attempt \in failed'
            \/ \E q \in Processes : command'[q] # Idle /\ command'[q].attempt = t.attempt
      <3>1. \A t \in Main' \cap pending' : t = tx \/ t \in Main \cap pending
        BY <2>1, <2>2
      <3> QED BY <1>1, <1>2, <1>3, <1>4, <2>1, <3>1 DEF MainInv
    <2>9. d.step \notin LaterSteps \/ Included(p, c.job.kind)
      BY <1>3, <2>1 DEF LaterSteps, Sent
    <2>10. ~ Included(p, c.job.kind)
      BY <1>6, <2>1, <2>3 DEF Included, Main
    <2>11. OwnOK(d)'
      BY <1>1, <1>3, <1>4, <1>5, <2>1, <2>2, <2>9, <2>10 DEF OwnOK, LaterSteps
    <2> QED BY <1>1, <1>2, <1>4, <2>5, <2>6, <2>7, <2>8, <2>11 DEF MainInv
  <1>9. CASE pending' = pending
    BY <1>1, <1>7, <1>9 DEF Main
  <1>10. CASE \E tx : /\ pending' = pending \cup {tx} /\ Sends1(p, d, tx)
                      /\ tx.kind \in {"deposit", "settle"}
    BY <1>1, <1>7, <1>10 DEF Main
  <1> QED BY <1>8, <1>9, <1>10 DEF Sends1

LEMMA GoingOn ==
    ASSUME OneAtATime, LocalInv, BehindInv, SettleInv, SequentialInv,
           NEW p \in Processes, NEW d, GoesOn(p, d),
           \/ pending' = pending
           \/ \E tx : pending' = pending \cup {tx} /\ Sends1(p, d, tx)
    PROVE  SequentialInv'
  <1> DEFINE c == command[p]
  <1>1. command' = [command EXCEPT ![p] = d] /\ UNCHANGED <<vars, state_json, included, drawn, failed>>
    BY DEF GoesOn
  <1>2. \A q \in Processes : q = p /\ command'[q] = d
    BY <1>1 DEF OneAtATime, LocalInv, CommandsOK
  <1>3. c # Idle /\ d # Idle /\ d.job = c.job /\ d.attempt = c.attempt /\ d.loaded = c.loaded
    BY DEF GoesOn
  <1>4. MainInv'
    BY MainSent
  <1>5. SnapshotInv'
    <2>1. SnapshotInv
      BY DEF SequentialInv
    <2> QED BY <1>1, <1>2, <1>3, <2>1 DEF SnapshotInv
  <1>6. NewBooks'
    <2>1. ASSUME NEW tx \in pending' \ pending, tx.kind # "init"
          PROVE  tx.id \in drawn /\ c.job.kind # "init"
      <3>1. tx.id = c.loaded.airdrop_id /\ c.job.kind # "init"
        BY <2>1 DEF Sends1
      <3>2. state_json # Missing /\ c.loaded = state_json /\ state_json.airdrop_id \in drawn
        BY <1>3, <3>1 DEF SequentialInv, SnapshotInv
      <3> QED BY <3>1, <3>2
    <2>2. ASSUME NEW id \in AirdropIds \ drawn PROVE NothingDone(id)'
      <3>1. NothingDone(id)
        BY DEF SequentialInv, NewBooks
      <3>2. \A tx \in pending' \cup included' : tx.id = id => tx.kind = "init"
        BY <1>1, <2>1, <3>1 DEF NothingDone
      <3> QED BY <1>1, <3>1, <3>2 DEF NothingDone, vars
    <2>3. ASSUME d.job.kind = "init" PROVE NothingDone(d.loaded.airdrop_id)'
      <3>1. NothingDone(c.loaded.airdrop_id)
        BY <1>3, <2>3 DEF SequentialInv, NewBooks
      <3>2. \A tx \in pending' \cup included' : tx.id = c.loaded.airdrop_id => tx.kind = "init"
        BY <1>1, <1>3, <2>1, <2>3, <3>1 DEF NothingDone
      <3> QED BY <1>1, <1>3, <3>1, <3>2 DEF NothingDone, vars
    <2> QED BY <1>1, <1>2, <2>2, <2>3 DEF NewBooks
  <1>7. LagBooks'
    <2>1. \A id, kind : Unrecorded(id, kind)' = Unrecorded(id, kind)
      BY <1>1, <1>2, <1>3 DEF Unrecorded
    <2>2. LagBooks
      BY LagMeans DEF SequentialInv
    <2> QED BY <1>1, <2>1, <2>2 DEF LagBooks, vars
  <1>8. LagIsReported' <=> LagBooks'
    BY DEF LagIsReported, LagBooks, AmountSum, ClaimSum
  <1> QED BY <1>4, <1>5, <1>6, <1>7, <1>8 DEF SequentialInv

LEMMA AdvanceGoesOn ==
    ASSUME LocalInv, BehindInv, SettleInv, SequentialInv, NEW p \in Processes, Advance(p),
           ~ save_state(p), ~ abandon(p)
    PROVE  \E d : /\ GoesOn(p, d)
                  /\ \/ pending' = pending
                     \/ \E tx : pending' = pending \cup {tx} /\ Sends1(p, d, tx)
  <1> DEFINE c == command[p]
  <1>1. ASSUME c # Idle
        PROVE  c \in Commands /\ c.job \in Jobs /\ JobOK(c) /\ OwnOK(c)
    BY <1>1 DEF LocalInv, CommandsOK, Commands, SequentialInv, MainInv
  <1>2. ASSUME NEW s, Goto(p, s), c # Idle, s \in Steps,
               UNCHANGED <<vars, state_json, included, drawn, failed>>,
               s \notin Sent => c.step \notin Sent,
               s \in LaterSteps => c.step \in LaterSteps \/ Included(p, c.job.kind),
               s = "transfer" => c.job.kind = "fund"
        PROVE  \E d : GoesOn(p, d) /\ d.step = s
    <2>1. PICK d : d = [c EXCEPT !.step = s]
      OBVIOUS
    <2>2. d \in Commands /\ d.job = c.job /\ d.loaded = c.loaded /\ d.attempt = c.attempt /\ d.step = s
      BY <1>1, <1>2, <2>1 DEF Commands
    <2>3. command' = [command EXCEPT ![p] = d] /\ d # Idle
      BY <1>2, <2>1, <2>2, IdleIsNoCommand DEF Goto
    <2> QED BY <1>2, <2>2, <2>3 DEF GoesOn
  <1>3. ASSUME NEW tx, NEW s, Send(p, tx, s), c # Idle, s \in Steps,
               s \notin Sent => c.step \notin Sent,
               s \in LaterSteps => c.step \in LaterSteps,
               s # "transfer",
               \A d : d.step = s => Sends1(p, d, tx)
        PROVE  \E d : GoesOn(p, d) /\ pending' = pending \cup {tx} /\ Sends1(p, d, tx)
    <2>1. PICK d : GoesOn(p, d) /\ d.step = s
      BY <1>2, <1>3 DEF Send
    <2> QED BY <1>3, <2>1 DEF Send
  <1>4. CASE prefund_read(p)
    <2>1. /\ c # Idle /\ c.step = "prefund" /\ pending' = pending /\ c.job.kind = "fund"
          /\ UNCHANGED <<vars, state_json, included, drawn, failed>>
      BY <1>1, <1>4 DEF prefund_read, At, JobOK
    <2>2. CASE Goto(p, "submit")
      <3>1. \E d : GoesOn(p, d)
        BY <1>2, <2>1, <2>2 DEF Steps, Sent, LaterSteps
      <3> QED BY <2>1, <3>1
    <2>3. CASE \E deposit : command' = [command EXCEPT ![p] =
                              [c EXCEPT !.step = "transfer", !.deposit = deposit]]
      <3>1. PICK deposit, d : /\ d = [c EXCEPT !.step = "transfer", !.deposit = deposit]
                              /\ command' = [command EXCEPT ![p] = d]
        BY <2>3
      <3>2. d.job = c.job /\ d.loaded = c.loaded /\ d.attempt = c.attempt /\ d.step = "transfer"
        BY <1>1, <2>1, <3>1 DEF Commands
      <3>3. d # Idle
        BY <2>1, <3>1, <3>2 DEF Idle
      <3>4. GoesOn(p, d)
        BY <2>1, <3>1, <3>2, <3>3 DEF GoesOn, Sent, LaterSteps
      <3> QED BY <2>1, <3>4
    <2> QED BY <1>4, <2>2, <2>3 DEF prefund_read
  <1>5. CASE prefund_transfer(p)
    <2>1. c # Idle /\ c.step = "transfer" /\ c.job.kind = "fund"
      BY <1>1, <1>5 DEF prefund_transfer, At, OwnOK
    <2>2. PICK tx : tx = SignedTx("deposit", c, c.deposit, 0)
      OBVIOUS
    <2>3. Send(p, tx, "transfer_wait")
      BY <1>5, <2>2 DEF prefund_transfer
    <2>4. \A d : d.step = "transfer_wait" => Sends1(p, d, tx)
      BY <2>1, <2>2 DEF SignedTx, Sends1
    <2>5. \E d : GoesOn(p, d) /\ pending' = pending \cup {tx} /\ Sends1(p, d, tx)
      BY <1>3, <2>1, <2>3, <2>4 DEF Steps, Sent, LaterSteps
    <2> QED BY <2>5
  <1>6. CASE prefund_wait(p)
    <2>1. c # Idle /\ c.step = "transfer_wait" /\ pending' = pending
      BY <1>6 DEF prefund_wait, At, Proceed
    <2>2. \E d : GoesOn(p, d)
      BY <1>2, <1>6, <2>1 DEF prefund_wait, Proceed, Steps, Sent, LaterSteps
    <2> QED BY <2>1, <2>2
  <1>7. CASE submit(p)
    <2>1. c # Idle /\ c.job \in Jobs /\ c.step = "submit"
      BY <1>1, <1>7 DEF submit, At
    <2>2. PICK now \in CallerTimes :
            Send(p, CASE c.job.kind = "claim" -> ClaimTx(c, now)
                      [] c.job.kind = "fund" -> SignedTx("fund", c, c.job.amount, now)
                      [] OTHER -> SignedTx(c.job.kind, c, 0, now), "wait")
      BY <1>7 DEF submit
    <2>3. PICK tx : /\ Send(p, tx, "wait")
                    /\ tx.id = c.loaded.airdrop_id
                    /\ tx.attempt = c.attempt
                    /\ tx.kind = c.job.kind
                    /\ tx.kind = "fund" => tx.amount = c.job.amount
      <3>1. CASE c.job.kind = "claim"
        <4>1. PICK tx : tx = ClaimTx(c, now)
          OBVIOUS
        <4>2. tx.kind = "claim" /\ tx.id = c.loaded.airdrop_id /\ tx.attempt = c.attempt
          BY <4>1 DEF ClaimTx
        <4> QED BY <2>2, <3>1, <4>1, <4>2
      <3>2. CASE c.job.kind = "fund"
        <4>1. PICK tx : tx = SignedTx("fund", c, c.job.amount, now)
          OBVIOUS
        <4>2. /\ tx.kind = "fund" /\ tx.id = c.loaded.airdrop_id /\ tx.attempt = c.attempt
              /\ tx.amount = c.job.amount
          BY <4>1 DEF SignedTx
        <4> QED BY <2>2, <3>2, <4>1, <4>2
      <3>3. CASE c.job.kind \in {"init", "close"}
        <4>1. PICK tx : tx = SignedTx(c.job.kind, c, 0, now)
          OBVIOUS
        <4>2. tx.kind = c.job.kind /\ tx.id = c.loaded.airdrop_id /\ tx.attempt = c.attempt
          BY <4>1 DEF SignedTx
        <4> QED BY <2>2, <3>3, <4>1, <4>2
      <3> QED BY <2>1, <3>1, <3>2, <3>3 DEF Jobs
    <2>4. tx.kind = "fund" => tx.amount \in FundAmounts
      BY <2>1, <2>3 DEF Jobs
    <2>5. \A d : d.step = "wait" => Sends1(p, d, tx)
      BY <2>1, <2>3, <2>4 DEF Sends1, Sent
    <2>6. \E d : GoesOn(p, d) /\ pending' = pending \cup {tx} /\ Sends1(p, d, tx)
      BY <1>3, <2>1, <2>3, <2>5 DEF Steps, Sent, LaterSteps
    <2> QED BY <2>6
  <1>8. CASE confirm(p)
    <2>1. /\ c # Idle /\ c.step = "wait" /\ pending' = pending
          /\ Included(p, c.job.kind)
          /\ UNCHANGED <<vars, state_json, included, drawn, failed>>
      BY <1>8 DEF confirm, At, Proceed
    <2>2. PICK s \in {"settle", "save"} : Goto(p, s)
      BY <1>8 DEF confirm, Proceed
    <2>3. \E d : GoesOn(p, d)
      BY <1>2, <2>1, <2>2 DEF Steps, Sent
    <2> QED BY <2>1, <2>3
  <1>9. CASE settle_claim_tokens(p)
    <2>1. c # Idle /\ c.step = "settle" /\ c.job.kind = "claim"
      BY <1>1, <1>9 DEF settle_claim_tokens, At, JobOK
    <2>2. PICK tx : tx = SettleTx(c)
      OBVIOUS
    <2>3. Send(p, tx, "settle_wait")
      BY <1>9, <2>2 DEF settle_claim_tokens
    <2>4. \A d : d.step = "settle_wait" => Sends1(p, d, tx)
      BY <2>1, <2>2 DEF SettleTx, Sends1
    <2>5. \E d : GoesOn(p, d) /\ pending' = pending \cup {tx} /\ Sends1(p, d, tx)
      BY <1>3, <2>1, <2>3, <2>4 DEF Steps, Sent, LaterSteps
    <2> QED BY <2>5
  <1>10. CASE settle_confirm(p)
    <2>1. c # Idle /\ c.step = "settle_wait" /\ pending' = pending
      BY <1>10 DEF settle_confirm, At, Proceed
    <2>2. \E d : GoesOn(p, d)
      BY <1>2, <1>10, <2>1 DEF settle_confirm, Proceed, Steps, Sent, LaterSteps
    <2> QED BY <2>1, <2>2
  <1> QED BY <1>4, <1>5, <1>6, <1>7, <1>8, <1>9, <1>10, TimeOutEnds DEF Advance

-----------------------------------------------------------------------------
(* A command ends. *)

\* It gives up: what it sent for its request is from now on a failed command's.
LEMMA AbandonKeepsBooks ==
    ASSUME OneAtATime, LocalInv, SequentialInv, NEW p \in Processes, abandon(p)
    PROVE  SequentialInv'
  <1> DEFINE c == command[p]
  <1>1. /\ c # Idle
        /\ UNCHANGED <<vars, state_json, pending, included, drawn>>
        /\ failed' = IF c.step \in Sent THEN failed \cup {c.attempt} ELSE failed
    BY DEF abandon, End
  <1>2. \A q \in Processes : q = p /\ command'[q] = Idle
    BY DEF abandon, End, OneAtATime, LocalInv, CommandsOK
  <1>3. MainInv /\ OwnOK(c)
    BY <1>1 DEF SequentialInv, MainInv
  <1>4. \A tx \in Main :
          (tx.attempt \in failed \/ c.attempt = tx.attempt) <=> tx.attempt \in failed'
    BY <1>1, <1>3 DEF OwnOK
  <1>5. SnapshotInv'
    BY <1>1, <1>2 DEF SequentialInv, SnapshotInv
  <1>6. MainInv'
    <2>1. Main' = Main
      BY <1>1 DEF Main
    <2>2. \A tx \in Main \cap pending : tx.attempt \in failed'
      BY <1>2, <1>3, <1>4 DEF MainInv
    <2> QED BY <1>1, <1>2, <1>3, <2>1, <2>2 DEF MainInv
  <1>7. NewBooks'
    BY <1>1, <1>2 DEF SequentialInv, NewBooks, NothingDone, vars
  <1>8. LagBooks'
    <2>1. \A id, kind : kind \in {"fund", "claim"} => Unrecorded(id, kind)' = Unrecorded(id, kind)
      <3>1. ASSUME NEW id, NEW kind \in {"fund", "claim"}
            PROVE  Unrecorded(id, kind)' = Unrecorded(id, kind)
        <4>1. \A tx \in included : tx.kind = kind => tx \in Main
          BY DEF Main
        <4> QED BY <1>1, <1>2, <1>4, <4>1 DEF Unrecorded
      <3> QED BY <3>1
    <2>2. LagBooks
      BY LagMeans DEF SequentialInv
    <2> QED BY <1>1, <2>1, <2>2 DEF LagBooks, vars
  <1>9. LagIsReported' <=> LagBooks'
    BY DEF LagIsReported, LagBooks, AmountSum, ClaimSum
  <1> QED BY <1>5, <1>6, <1>7, <1>8, <1>9 DEF SequentialInv

\* The command that saves leaves the lag to the failed ones: its own transaction
\* is the one it takes out.
LEMMA SavedIsTakenOut ==
    ASSUME OneAtATime, LocalInv, BehindInv, SequentialInv, NEW p \in Processes, save_state(p),
           NEW id, id = command[p].loaded.airdrop_id, NEW kind \in {"fund", "claim"}
    PROVE  IF command[p].job.kind = kind
           THEN \E tx : /\ tx \notin Unrecorded(id, kind)'
                        /\ Unrecorded(id, kind) = Unrecorded(id, kind)' \cup {tx}
                        /\ Matches(tx, command[p]) /\ tx.kind = kind
           ELSE Unrecorded(id, kind)' = Unrecorded(id, kind)
  <1> DEFINE c == command[p]
  <1>1. c # Idle /\ c.step = "save" /\ UNCHANGED <<included, failed>>
    BY DEF save_state, At
  <1>2. \A q \in Processes : q = p /\ command'[q] = Idle
    BY DEF save_state, OneAtATime, LocalInv, CommandsOK
  <1>3. MainInv /\ OwnOK(c)
    BY <1>1 DEF SequentialInv, MainInv
  <1>4. Unrecorded(id, kind)' =
          {tx \in included : tx.id = id /\ tx.kind = kind /\ tx.attempt \in failed}
    BY <1>1, <1>2 DEF Unrecorded
  <1>5. Unrecorded(id, kind) = Unrecorded(id, kind)' \cup
          {tx \in included : tx.id = id /\ tx.kind = kind /\ tx.attempt = c.attempt}
    BY <1>1, <1>2, <1>4 DEF Unrecorded
  <1>6. c.attempt \notin failed
    BY <1>3 DEF OwnOK
  <1>7. CASE c.job.kind = kind
    <2>1. PICK tx \in included : tx \in Main /\ tx.attempt = c.attempt /\ tx.kind = kind
      BY <1>1, <1>3, <1>7 DEF OwnOK
    <2>2. Matches(tx, c)
      BY <1>1, <1>7, <2>1 DEF BehindInv, SentByCommands
    <2>3. tx.id = id
      BY <2>2 DEF Matches
    <2>4. {t \in included : t.id = id /\ t.kind = kind /\ t.attempt = c.attempt} = {tx}
      <3>1. \A t \in included : t.kind = kind => t \in Main
        BY DEF Main
      <3> QED BY <1>3, <2>1, <2>3, <3>1 DEF MainInv
    <2>5. tx \notin Unrecorded(id, kind)'
      BY <1>4, <1>6, <2>1
    <2> QED BY <1>5, <1>7, <2>1, <2>2, <2>4, <2>5
  <1>8. CASE c.job.kind # kind
    <2>1. \A t \in included : t.kind = kind => t \in Main
      BY DEF Main
    <2>2. {t \in included : t.id = id /\ t.kind = kind /\ t.attempt = c.attempt} = {}
      BY <1>3, <1>8, <2>1 DEF OwnOK
    <2> QED BY <1>5, <1>8, <2>2
  <1> QED BY <1>7, <1>8

LEMMA AmountSumInt ==
    \A S : IsFiniteSet(S) /\ (\A t \in S : t.amount \in Int) => AmountSum(S) \in Int
  <1> SUFFICES ASSUME NEW S, IsFiniteSet(S), \A t \in S : t.amount \in Int
               PROVE  AmountSum(S) \in Int
    OBVIOUS
  <1>1. PICK f : f = [t \in S |-> t.amount]
    OBVIOUS
  <1>2. DOMAIN f = S /\ \A x \in S : f[x] \in Int
    BY <1>1
  <1>3. SumFunctionOnSet(f, S) \in Int
    BY <1>2, SumInt
  <1> QED BY <1>1, <1>2, <1>3 DEF AmountSum, SumFunction

LEMMA ClaimSumInt ==
    \A id, S : IsFiniteSet(S) /\ (\A t \in S : ClaimAmount(id, t.row) \in Int)
              => ClaimSum(id, S) \in Int
  <1> SUFFICES ASSUME NEW id, NEW S, IsFiniteSet(S), \A t \in S : ClaimAmount(id, t.row) \in Int
               PROVE  ClaimSum(id, S) \in Int
    OBVIOUS
  <1>1. PICK f : f = [t \in S |-> ClaimAmount(id, t.row)]
    OBVIOUS
  <1>2. DOMAIN f = S /\ \A x \in S : f[x] \in Int
    BY <1>1
  <1>3. SumFunctionOnSet(f, S) \in Int
    BY <1>2, SumInt
  <1> QED BY <1>1, <1>2, <1>3 DEF ClaimSum, SumFunction

\* The file is written: with the sum of what the command read and what it did.
LEMMA SaveKeepsBooks ==
    ASSUME OneAtATime, TypeOK, LocalInv, BehindInv, SettleInv, SequentialInv,
           NEW p \in Processes, save_state(p)
    PROVE  SequentialInv'
  <1> DEFINE c == command[p]
  <1>1. /\ c # Idle /\ c.step = "save" /\ state_json' = Updated(c)
        /\ UNCHANGED <<vars, pending, included, drawn, failed>>
    BY DEF save_state, At
  <1>2. \A q \in Processes : q = p /\ command'[q] = Idle
    BY DEF save_state, OneAtATime, LocalInv, CommandsOK
  <1>3. MainInv /\ OwnOK(c) /\ SnapshotInv
    BY <1>1 DEF SequentialInv, MainInv
  <1>4. c \in Commands /\ c.job \in Jobs /\ JobOK(c) /\ CommandBehind(c)
    BY <1>1 DEF LocalInv, CommandsOK, Commands, BehindInv
  <1>5. PICK id \in AirdropIds : id = c.loaded.airdrop_id
    BY <1>4 DEF Commands, LocalAirdropState
  <1>6. Updated(c).airdrop_id = id /\ Updated(c) # Missing
    <2>1. Updated(c) \in LocalAirdropState
      BY <1>4, UpdatedTyped DEF save_state
    <2> QED BY <1>4, <1>5, <2>1, UpdatedMeans, LocalAssumption
  <1>7. SnapshotInv'
    <2>1. id \in drawn
      BY <1>1, <1>3, <1>5 DEF SnapshotInv
    <2> QED BY <1>1, <1>2, <1>6, <2>1 DEF SnapshotInv
  <1>8. MainInv'
    <2>1. Main' = Main
      BY <1>1 DEF Main
    <2>2. \A tx \in Main \cap pending : tx.attempt \in failed
      <3>1. \A tx \in Main : tx.attempt = c.attempt => tx \notin pending
        BY <1>1, <1>3 DEF OwnOK, MainInv
      <3> QED BY <1>2, <1>3, <3>1 DEF MainInv
    <2> QED BY <1>1, <1>2, <1>3, <2>1, <2>2 DEF MainInv
  <1>9. NewBooks'
    BY <1>1, <1>2 DEF SequentialInv, NewBooks, NothingDone, vars
  <1>10. LagBooks'
    <2> DEFINE funded == Unrecorded(id, "fund")
               claimed == Unrecorded(id, "claim")
    <2>1. IF c.job.kind = "fund"
          THEN \E tx : /\ tx \notin funded'
                       /\ funded = funded' \cup {tx}
                       /\ tx.amount = c.job.amount
          ELSE funded' = funded
      BY <1>5, SavedIsTakenOut DEF Matches
    <2>2. IF c.job.kind = "claim"
          THEN \E tx : /\ tx \notin claimed'
                       /\ claimed = claimed' \cup {tx}
                       /\ tx.row = c.job.row
          ELSE claimed' = claimed
      BY <1>5, SavedIsTakenOut DEF Matches
    <2>3. /\ IsFiniteSet(funded) /\ \A tx \in funded : tx.amount \in Nat
          /\ IsFiniteSet(claimed) /\ \A tx \in claimed : ClaimAmount(id, tx.row) \in Nat
      BY <1>3, UnrecordedTyped
    <2>4. IsFiniteSet(funded') /\ IsFiniteSet(claimed')
      BY <2>1, <2>2, <2>3, FS_Subset
    <2> HIDE DEF funded, claimed
    <2>5. AmountSum(funded) = AmountSum(funded') + (IF c.job.kind = "fund" THEN c.job.amount ELSE 0)
      <3>1. CASE c.job.kind = "fund"
        <4>1. PICK tx : /\ tx \notin funded' /\ funded = funded' \cup {tx}
                        /\ tx.amount = c.job.amount
          BY <2>1, <3>1
        <4>2. PICK S : S = funded'
          OBVIOUS
        <4>3. \A t \in S \cup {tx} : t.amount \in Int
          BY <2>3, <4>1, <4>2
        <4>4. AmountSum(S \cup {tx}) = AmountSum(S) + tx.amount
          BY <2>4, <4>1, <4>2, <4>3, AmountSums
        <4> QED BY <3>1, <4>1, <4>2, <4>4
      <3>2. CASE c.job.kind # "fund"
        <4>1. PICK S : S = funded
          OBVIOUS
        <4>2. AmountSum(S) \in Int
          BY <2>3, <4>1, AmountSumInt
        <4> QED BY <2>1, <3>2, <4>1, <4>2
      <3> QED BY <3>1, <3>2
    <2>6. ClaimSum(id, claimed) = ClaimSum(id, claimed') +
            (IF c.job.kind = "claim" THEN ClaimAmount(id, c.job.row) ELSE 0)
      <3>1. CASE c.job.kind = "claim"
        <4>1. PICK tx : /\ tx \notin claimed' /\ claimed = claimed' \cup {tx}
                        /\ tx.row = c.job.row
          BY <2>2, <3>1
        <4>2. PICK S : S = claimed'
          OBVIOUS
        <4>3. \A t \in S \cup {tx} : ClaimAmount(id, t.row) \in Int
          BY <2>3, <4>1, <4>2
        <4>4. ClaimSum(id, S \cup {tx}) = ClaimSum(id, S) + ClaimAmount(id, tx.row)
          BY <2>4, <4>1, <4>2, <4>3, ClaimSums
        <4> QED BY <3>1, <4>1, <4>2, <4>4
      <3>2. CASE c.job.kind # "claim"
        <4>1. PICK S : S = claimed
          OBVIOUS
        <4>2. ClaimSum(id, S) \in Int
          BY <2>3, <4>1, ClaimSumInt
        <4> QED BY <2>2, <3>2, <4>1, <4>2
      <3> QED BY <3>1, <3>2
    <2>7. AmountSum(funded') \in Int /\ ClaimSum(id, claimed') \in Int
      <3>1. PICK S, T : S = funded' /\ T = claimed'
        OBVIOUS
      <3>2. /\ \A t \in S : t.amount \in Int
            /\ \A t \in T : ClaimAmount(id, t.row) \in Int
        BY <2>1, <2>2, <2>3, <3>1
      <3> QED BY <2>4, <3>1, <3>2, AmountSumInt, ClaimSumInt
    <2>8. {h_null(tx.row.salt) : tx \in claimed} = {h_null(tx.row.salt) : tx \in claimed'} \cup
            (IF c.job.kind = "claim" THEN {h_null(c.job.row.salt)} ELSE {})
      BY <2>2
    <2>9. CASE c.job.kind = "init"
      <3>1. NothingDone(id)
        BY <1>1, <1>5, <2>9 DEF SequentialInv, NewBooks
      <3>2. funded = {} /\ claimed = {}
        BY <3>1 DEF NothingDone, funded, claimed, Unrecorded
      <3>3. Updated(c) = FreshState(id)
        BY <1>4, <1>5, <2>9, UpdatedMeans DEF CommandBehind
      <3>4. airdrop[id] # Default
        BY <1>1, <1>4, <1>6 DEF CommandBehind, Behind
      <3>5. airdrop[id].total_funded = 0 /\ airdrop[id].total_claimed = 0
        BY <3>1, <3>4 DEF NothingDone
      <3>6. {n \in Nullifiers : nullifier_record[id][n].claimed} = {}
        BY <3>1 DEF NothingDone
      <3>7. AmountSum(funded') = 0 /\ ClaimSum(id, claimed') = 0
        BY <2>1, <2>2, <2>9, <3>2, AmountSums, ClaimSums
      <3>8. {h_null(tx.row.salt) : tx \in claimed'} = {}
        BY <2>2, <2>9, <3>2
      <3>9. /\ state_json'.airdrop_id = id /\ state_json'.total_funded = 0
            /\ state_json'.total_claimed = 0 /\ state_json'.nullifiers = {}
        BY <1>1, <3>3 DEF FreshState
      <3> QED BY <1>1, <3>5, <3>6, <3>7, <3>8, <3>9 DEF LagBooks, funded, claimed, vars
    <2>10. CASE c.job.kind # "init"
      <3>1. state_json = c.loaded /\ state_json # Missing /\ LagBooks
        BY <1>1, <1>3, <2>10, LagMeans DEF SnapshotInv, SequentialInv
      <3>2. /\ airdrop[id].total_funded = c.loaded.total_funded + AmountSum(funded)
            /\ airdrop[id].total_claimed = c.loaded.total_claimed + ClaimSum(id, claimed)
            /\ {n \in Nullifiers : nullifier_record[id][n].claimed} =
                 c.loaded.nullifiers \cup {h_null(tx.row.salt) : tx \in claimed}
        BY <1>5, <3>1 DEF LagBooks, funded, claimed
      <3>3. c.loaded.total_funded \in Int /\ c.loaded.total_claimed \in Int
        BY <1>4, ConstantsAssumption DEF Commands, LocalAirdropState
      <3>4. c.job.kind = "fund" => c.job.amount \in Int
        <4>1. c.job.kind = "fund" => c.job.amount \in FundAmounts
          BY <1>4 DEF Jobs
        <4>2. FundAmounts \subseteq Int
          BY LocalAssumption
        <4> QED BY <4>1, <4>2
      <3>5. c.job.kind = "claim" => ClaimAmount(id, c.job.row) \in Int
        <4>1. c.job.kind = "claim" => c.job.row \in LocalArgs[id].merkle_root
          BY <1>4, <1>5 DEF JobOK
        <4> QED BY <4>1, LocalRowsTyped
      <3>6. airdrop[id].total_funded = Updated(c).total_funded + AmountSum(funded')
        <4>1. Updated(c).total_funded =
                IF c.job.kind = "fund" THEN c.loaded.total_funded + c.job.amount
                ELSE c.loaded.total_funded
          BY <1>4, UpdatedMeans
        <4>2. PICK s, t : s = AmountSum(funded) /\ t = AmountSum(funded')
          OBVIOUS
        <4> QED BY <2>5, <2>7, <3>2, <3>3, <3>4, <4>1, <4>2
      <3>7. airdrop[id].total_claimed = Updated(c).total_claimed + ClaimSum(id, claimed')
        <4>1. Updated(c).total_claimed =
                IF c.job.kind = "claim" THEN c.loaded.total_claimed + ClaimAmount(id, c.job.row)
                ELSE c.loaded.total_claimed
          BY <1>4, <1>5, UpdatedMeans
        <4>2. PICK s, t : s = ClaimSum(id, claimed) /\ t = ClaimSum(id, claimed')
          OBVIOUS
        <4> QED BY <2>6, <2>7, <3>2, <3>3, <3>5, <4>1, <4>2
      <3>8. {n \in Nullifiers : nullifier_record[id][n].claimed} =
               Updated(c).nullifiers \cup {h_null(tx.row.salt) : tx \in claimed'}
        BY <1>4, <2>8, <3>2, UpdatedMeans
      <3> QED BY <1>1, <1>6, <3>6, <3>7, <3>8 DEF LagBooks, funded, claimed, vars
    <2> QED BY <2>9, <2>10
  <1>11. LagIsReported' <=> LagBooks'
    BY DEF LagIsReported, LagBooks, AmountSum, ClaimSum
  <1> QED BY <1>7, <1>8, <1>9, <1>10, <1>11 DEF SequentialInv

-----------------------------------------------------------------------------
(* A command starts, with a number no transaction carries yet. *)

LEMMA StartKeepsBooks ==
    ASSUME OneAtATime, LocalInv, BehindInv, SequentialInv, NEW p \in Processes,
           NEW job, NEW loaded, NEW s, Start(p, job, loaded, s),
           drawn \subseteq drawn',
           IF job.kind = "init"
           THEN /\ loaded.airdrop_id \in AirdropIds \ drawn
                /\ loaded.airdrop_id \in drawn'
           ELSE state_json # Missing /\ loaded = state_json,
           s \in {"prefund", "submit", "save"},
           s = "save" => job.kind = "close"
    PROVE  SequentialInv'
  <1>1. PICK d : d = [step |-> s, job |-> job, loaded |-> loaded,
                      attempt |-> attempts, deposit |-> 0]
    OBVIOUS
  <1>2. /\ command[p] = Idle /\ command' = [command EXCEPT ![p] = d]
        /\ UNCHANGED <<vars, state_json, pending, included, failed>>
    BY <1>1 DEF Start
  <1>3. /\ \A q \in Processes : q = p /\ command'[q] = d
        /\ \A q \in Processes : command[q] = Idle
    BY <1>2 DEF OneAtATime, LocalInv, CommandsOK
  <1>4. /\ attempts \notin failed
        /\ \A tx \in pending \cup included : tx.attempt # attempts
    <2>1. attempts \in Nat /\ failed \subseteq 0 .. attempts - 1
      BY LocalAssumption DEF LocalInv, LocalTypeOK
    <2>2. \A tx \in pending \cup included : tx.attempt \in 0 .. attempts - 1
      BY DEF BehindInv, SentByCommands
    <2> QED BY <2>1, <2>2
  <1>5. d.attempt = attempts /\ d.job = job /\ d.loaded = loaded /\ d.step = s /\ d # Idle
    <2>1. d.attempt = attempts /\ d.job = job /\ d.loaded = loaded /\ d.step = s
      BY <1>1
    <2>2. d.step # Idle.step
      BY <2>1 DEF Idle
    <2> QED BY <2>1, <2>2
  <1>6. SnapshotInv'
    <2>1. state_json # Missing => state_json.airdrop_id \in drawn
      BY DEF SequentialInv, SnapshotInv
    <2> QED BY <1>2, <1>3, <1>5, <2>1 DEF SnapshotInv
  <1>7. MainInv'
    <2>1. Main' = Main /\ \A tx \in Main : tx.attempt # attempts
      BY <1>2, <1>4 DEF Main
    <2>2. \A tx \in Main \cap pending : tx.attempt \in failed
      BY <1>3 DEF SequentialInv, MainInv
    <2>3. OwnOK(d)'
      BY <1>2, <1>4, <1>5, <2>1 DEF OwnOK, Sent
    <2> QED BY <1>2, <1>3, <2>1, <2>2, <2>3 DEF SequentialInv, MainInv
  <1>8. NewBooks'
    <2>1. \A id \in AirdropIds \ drawn : NothingDone(id)
      BY DEF SequentialInv, NewBooks
    <2>2. \A id : NothingDone(id)' <=> NothingDone(id)
      BY <1>2 DEF NothingDone, vars
    <2>3. ASSUME job.kind = "init" PROVE NothingDone(loaded.airdrop_id)'
      BY <2>1, <2>2, <2>3
    <2> QED BY <1>3, <1>5, <2>1, <2>2, <2>3 DEF NewBooks
  <1>9. LagBooks'
    <2>1. \A id, kind : Unrecorded(id, kind)' = Unrecorded(id, kind)
      BY <1>2, <1>3, <1>4, <1>5 DEF Unrecorded
    <2>2. LagBooks
      BY LagMeans DEF SequentialInv
    <2> QED BY <1>2, <2>1, <2>2 DEF LagBooks, vars
  <1>10. LagIsReported' <=> LagBooks'
    BY DEF LagIsReported, LagBooks, AmountSum, ClaimSum
  <1> QED BY <1>6, <1>7, <1>8, <1>9, <1>10 DEF SequentialInv

LEMMA StartCommandKeepsBooks ==
    ASSUME OneAtATime, LocalInv, BehindInv, SequentialInv, NEW p \in Processes, StartCommand(p)
    PROVE  SequentialInv'
  <1>1. CASE \E id \in AirdropIds : init(p, id)
    <2>1. PICK id \in AirdropIds : init(p, id)
      BY <1>1
    <2>2. FreshState(id).airdrop_id = id
      BY DEF FreshState
    <2>3. /\ id \in AirdropIds \ drawn /\ id \in drawn' /\ drawn \subseteq drawn'
          /\ Start(p, [kind |-> "init"], FreshState(id), "submit")
      BY <2>1 DEF init
    <2> QED BY <2>2, <2>3, StartKeepsBooks
  <1>2. CASE \E amount \in FundAmounts : fund_command(p, amount)
    BY <1>2, StartKeepsBooks DEF fund_command
  <1>3. CASE /\ state_json # Missing
             /\ \E row \in LocalArgs[state_json.airdrop_id].merkle_root, dest \in Wallets :
                  claim_command(p, row, dest)
    BY <1>3, StartKeepsBooks DEF claim_command
  <1>4. CASE close_command(p)
    BY <1>4, StartKeepsBooks DEF close_command
  <1> QED BY <1>1, <1>2, <1>3, <1>4 DEF StartCommand

-----------------------------------------------------------------------------
(* The ledger includes a transaction: what that does to the books of its     *)
(* airdrop, and that it does nothing to those of another.                   *)

\* Its totals and spent nullifiers stay as they are, and it is not created.
SameBooks(id) ==
    /\ airdrop'[id] # Default => airdrop[id] # Default
    /\ airdrop[id] # Default =>
         /\ airdrop'[id].total_funded = airdrop[id].total_funded
         /\ airdrop'[id].total_claimed = airdrop[id].total_claimed
    /\ \A n \in Nullifiers : nullifier_record'[id][n].claimed <=> nullifier_record[id][n].claimed

LEMMA InclusionTouchesOneAirdrop ==
    ASSUME TypeOK, LocalInv, SettleInv, NEW tx \in pending,
           IncludeSigned(tx) \/ IncludeClaim(tx) \/ IncludeSettlement(tx)
    PROVE  \A id \in AirdropIds :
             id # tx.id \/ tx.kind \notin {"init", "fund", "claim"} => SameBooks(id)
  <1> SUFFICES ASSUME NEW id \in AirdropIds,
                      id # tx.id \/ tx.kind \notin {"init", "fund", "claim"}
               PROVE  SameBooks(id)
    OBVIOUS
  <1>1. tx.id \in AirdropIds
    BY DEF LocalInv, TxOK
  <1>2. ASSUME airdrop'[id] = airdrop[id], nullifier_record'[id] = nullifier_record[id]
        PROVE  SameBooks(id)
    BY <1>2 DEF SameBooks
  <1>3. CASE id # tx.id
    <2>1. CASE IncludeSigned(tx)
      <3>1. Execute(tx)
        BY <2>1 DEF IncludeSigned
      <3>2. airdrop'[id] = airdrop[id] /\ nullifier_record'[id] = nullifier_record[id]
        BY <1>1, <1>3, <3>1 DEF Execute, init_airdrop, transfer, fund, close, Sweep, TypeOK,
           close_checks
      <3> QED BY <1>2, <3>2
    <2>2. CASE IncludeClaim(tx)
      <3>1. airdrop'[id] = airdrop[id] /\ nullifier_record'[id] = nullifier_record[id]
        BY <1>1, <1>3, <2>2 DEF IncludeClaim, claim_ppe, Debit, SpendNullifier, TypeOK,
           claim_ppe_checks, witness_checks
      <3> QED BY <1>2, <3>1
    <2>3. CASE IncludeSettlement(tx)
      BY <1>2, <2>3 DEF IncludeSettlement, vars
    <2> QED BY <2>1, <2>2, <2>3
  <1>4. CASE id = tx.id /\ tx.kind \notin {"init", "fund", "claim"}
    <2>1. CASE IncludeSettlement(tx)
      BY <1>2, <2>1 DEF IncludeSettlement, vars
    <2>2. CASE tx.kind = "deposit" /\ Execute(tx)
      <3>1. airdrop' = airdrop /\ nullifier_record' = nullifier_record
        BY <2>2 DEF Execute, transfer
      <3> QED BY <1>2, <3>1
    <2>3. CASE tx.kind = "close" /\ Execute(tx)
      <3>1. close(tx.id, LocalDistributor)
        BY <2>3 DEF Execute
      <3>2. airdrop[id] # Default /\ nullifier_record' = nullifier_record
        BY <1>4, <3>1 DEF close, ensure_distributor, Sweep, close_checks
      <3>3. airdrop'[id] = [airdrop[id] EXCEPT !.status = "closed"]
        BY <1>4, <3>1 DEF close, Sweep, TypeOK, close_checks
      <3>4. airdrop[id] \in AirdropState
        BY <3>2 DEF TypeOK
      <3> QED BY <3>2, <3>3, <3>4 DEF SameBooks, AirdropState
    <2> QED BY <1>4, <2>1, <2>2, <2>3 DEF IncludeSigned, IncludeClaim
  <1> QED BY <1>3, <1>4

LEMMA IncludedInitBooks ==
    ASSUME TypeOK, LocalInv, NEW tx \in pending, IncludeSigned(tx), tx.kind = "init"
    PROVE  /\ airdrop[tx.id] = Default
           /\ airdrop'[tx.id].total_funded = 0
           /\ airdrop'[tx.id].total_claimed = 0
           /\ nullifier_record' = nullifier_record
  <1>1. tx.id \in AirdropIds /\ init_airdrop(tx.id, LocalDistributor, LocalArgs[tx.id])
    BY DEF LocalInv, TxOK, IncludeSigned, Execute
  <1>2. PICK id, args : id \in AirdropIds /\ id = tx.id /\ args = LocalArgs[id]
    BY <1>1
  <1>3. PICK new : new = [distributor |-> LocalDistributor, merkle_root |-> args.merkle_root,
          bucket_table |-> args.bucket_table, expiry_unix |-> args.expiry_unix,
          recovery_address |-> args.recovery_address, total_funded |-> 0,
          total_claimed |-> 0, status |-> "active"]
    OBVIOUS
  <1>4. airdrop' = [airdrop EXCEPT ![id] = new] /\ airdrop[id] = Default
        /\ nullifier_record' = nullifier_record
    BY <1>1, <1>2, <1>3 DEF init_airdrop
  <1>5. airdrop'[id] = new /\ new.total_funded = 0 /\ new.total_claimed = 0
    BY <1>2, <1>3, <1>4 DEF TypeOK
  <1> QED BY <1>2, <1>4, <1>5

LEMMA IncludedFundBooks ==
    ASSUME TypeOK, LocalInv, NEW tx \in pending, IncludeSigned(tx), tx.kind = "fund"
    PROVE  /\ airdrop'[tx.id].total_funded = airdrop[tx.id].total_funded + tx.amount
           /\ airdrop'[tx.id].total_claimed = airdrop[tx.id].total_claimed
           /\ nullifier_record' = nullifier_record
  <1>1. PICK id \in AirdropIds : id = tx.id /\ fund(id, LocalDistributor, tx.amount, tx.now)
    BY DEF LocalInv, TxOK, IncludeSigned, Execute
  <1>2. PICK t : t = airdrop[id].total_funded + tx.amount
    OBVIOUS
  <1>3. airdrop' = [airdrop EXCEPT ![id] = [airdrop[id] EXCEPT !.total_funded = t]]
    BY <1>1, <1>2 DEF fund
  <1>4. airdrop[id] \in AirdropState /\ nullifier_record' = nullifier_record
    BY <1>1 DEF fund, ensure_active, TypeOK
  <1>5. airdrop'[id] = [airdrop[id] EXCEPT !.total_funded = t]
    BY <1>3 DEF TypeOK
  <1> QED BY <1>1, <1>2, <1>4, <1>5 DEF AirdropState

LEMMA IncludedClaimBooks ==
    ASSUME TypeOK, LocalInv, SettleInv, TablesKnown, NEW tx \in pending, IncludeClaim(tx)
    PROVE  /\ airdrop'[tx.id].total_claimed =
                airdrop[tx.id].total_claimed + ClaimAmount(tx.id, tx.row)
           /\ airdrop'[tx.id].total_funded = airdrop[tx.id].total_funded
           /\ h_null(tx.row.salt) \in Nullifiers
           /\ \A n \in Nullifiers :
                nullifier_record'[tx.id][n].claimed <=>
                    nullifier_record[tx.id][n].claimed \/ n = h_null(tx.row.salt)
  <1>1. tx.id \in AirdropIds /\ tx.row \in LocalArgs[tx.id].merkle_root
    BY DEF IncludeClaim, SettleInv, RowsCommitted
  <1>2. PICK id \in AirdropIds, n \in Nullifiers, amount \in 0 .. U64Max :
          id = tx.id /\ n = h_null(tx.row.salt) /\ amount = ClaimAmount(id, tx.row)
    BY <1>1, LocalRowsTyped
  <1>3. airdrop[id] \in AirdropState /\ airdrop[id] # Default
    BY <1>2, ConstantsAssumption DEF IncludeClaim, claim_ppe, ensure_active, TypeOK,
       claim_ppe_checks, witness_checks
  <1>4. amount = BucketAmount(id, tx.row.bucket_id)
    BY <1>2, <1>3 DEF TablesKnown, ClaimAmount, BucketAmount
  <1>5. PICK t : t = airdrop[id].total_claimed + amount
    OBVIOUS
  <1>6. /\ airdrop' = [airdrop EXCEPT ![id] = [airdrop[id] EXCEPT !.total_claimed = t]]
        /\ SpendNullifier(id, n, 0)
    BY <1>2, <1>4, <1>5 DEF IncludeClaim, claim_ppe, Debit, claim_ppe_checks, witness_checks
  <1>7. airdrop'[id] = [airdrop[id] EXCEPT !.total_claimed = t]
    BY <1>6 DEF TypeOK
  <1>8. /\ nullifier_record'[id][n].claimed
        /\ \A m \in Nullifiers \ {n} : nullifier_record'[id][m] = nullifier_record[id][m]
    BY <1>6 DEF SpendNullifier, TypeOK
  <1> QED BY <1>2, <1>3, <1>5, <1>7, <1>8 DEF AirdropState

\* What becomes unrecorded: the transaction included, when it is of that kind.  It
\* still has somebody to answer for it.
LEMMA InclusionAddsToLag ==
    ASSUME MainInv, NEW tx \in pending, Include(tx), NEW id, NEW kind \in {"fund", "claim"}
    PROVE  IF tx.id = id /\ tx.kind = kind
           THEN tx \notin Unrecorded(id, kind) /\ Unrecorded(id, kind)' = Unrecorded(id, kind) \cup {tx}
           ELSE Unrecorded(id, kind)' = Unrecorded(id, kind)
  <1>1. included' = included \cup {tx} /\ command' = command /\ failed' = failed
    BY DEF Include
  <1>2. CASE tx.id = id /\ tx.kind = kind
    <2>1. tx \in Main \cap pending
      BY <1>2 DEF Main
    <2>2. tx \notin included
      BY <2>1 DEF MainInv
    <2>3. \/ tx.attempt \in failed
          \/ \E p \in Processes : command[p] # Idle /\ command[p].attempt = tx.attempt
      BY <2>1 DEF MainInv
    <2> QED BY <1>1, <1>2, <2>2, <2>3 DEF Unrecorded
  <1>3. CASE ~ (tx.id = id /\ tx.kind = kind)
    BY <1>1, <1>3 DEF Unrecorded
  <1> QED BY <1>2, <1>3

LEMMA InclusionKeepsLag ==
    ASSUME TypeOK, TypeOK', LocalInv, BehindInv, SettleInv, MainInv, LagIsReported,
           NEW tx \in pending, Include(tx),
           IncludeSigned(tx) \/ IncludeClaim(tx) \/ IncludeSettlement(tx),
           state_json # Missing
    PROVE  LagBooks'
  <1>1. state_json' = state_json
    BY DEF Include
  <1>2. PICK id \in AirdropIds, s \in LocalAirdropState : id = s.airdrop_id /\ s = state_json
    BY DEF LocalInv, LocalTypeOK, LocalAirdropState
  <1>3. airdrop[id] \in AirdropState /\ airdrop[id] # Default
    BY <1>2 DEF BehindInv, Behind, TypeOK
  <1> DEFINE funded == Unrecorded(id, "fund")
             claimed == Unrecorded(id, "claim")
             spent == {n \in Nullifiers : nullifier_record[id][n].claimed}
  <1>4. /\ airdrop[id].total_funded = s.total_funded + AmountSum(funded)
        /\ airdrop[id].total_claimed = s.total_claimed + ClaimSum(id, claimed)
        /\ spent = s.nullifiers \cup {h_null(t.row.salt) : t \in claimed}
    BY <1>2, LagMeans DEF LagBooks
  <1>5. /\ IsFiniteSet(funded) /\ \A t \in funded : t.amount \in Nat
        /\ IsFiniteSet(claimed) /\ \A t \in claimed : ClaimAmount(id, t.row) \in Nat
    BY UnrecordedTyped
  <1>6. SUFFICES /\ airdrop'[id].total_funded = s.total_funded + AmountSum(funded')
                 /\ airdrop'[id].total_claimed = s.total_claimed + ClaimSum(id, claimed')
                 /\ spent' = s.nullifiers \cup {h_null(t.row.salt) : t \in claimed'}
    BY <1>1, <1>2 DEF LagBooks
  <1>7. IF tx.id = id /\ tx.kind = "fund"
        THEN tx \notin funded /\ funded' = funded \cup {tx}
        ELSE funded' = funded
    BY InclusionAddsToLag
  <1>8. IF tx.id = id /\ tx.kind = "claim"
        THEN tx \notin claimed /\ claimed' = claimed \cup {tx}
        ELSE claimed' = claimed
    BY InclusionAddsToLag
  <1>9. s.total_funded \in Int /\ s.total_claimed \in Int
    BY ConstantsAssumption DEF LocalAirdropState
  <1>10. tx.kind = "init" => tx.id # id
    BY <1>3, IncludedInitBooks DEF IncludeClaim, IncludeSettlement
  <1>11. CASE tx.id # id \/ tx.kind \notin {"fund", "claim"}
    <2>1. SameBooks(id)
      BY <1>10, <1>11, InclusionTouchesOneAirdrop
    <2>2. funded' = funded /\ claimed' = claimed
      BY <1>7, <1>8, <1>11
    <2>3. /\ airdrop'[id].total_funded = airdrop[id].total_funded
          /\ airdrop'[id].total_claimed = airdrop[id].total_claimed
          /\ spent' = spent
      BY <1>3, <2>1 DEF SameBooks
    <2> HIDE DEF funded, claimed, spent
    <2> QED BY <1>4, <2>2, <2>3
  <1>12. CASE tx.id = id /\ tx.kind = "fund"
    <2>1. /\ airdrop'[id].total_funded = airdrop[id].total_funded + tx.amount
          /\ airdrop'[id].total_claimed = airdrop[id].total_claimed
          /\ nullifier_record' = nullifier_record
      BY <1>12, IncludedFundBooks DEF IncludeClaim, IncludeSettlement
    <2>2. spent' = spent
      BY <2>1
    <2>3. tx \notin funded /\ funded' = funded \cup {tx} /\ claimed' = claimed
      BY <1>7, <1>8, <1>12
    <2>4. tx.amount \in FundAmounts
      BY <1>12 DEF LocalInv, TxOK
    <2>5. tx.amount \in Int
      <3>1. FundAmounts \subseteq Int
        BY LocalAssumption
      <3> QED BY <2>4, <3>1
    <2> HIDE DEF funded, claimed, spent
    <2>6. AmountSum(funded \cup {tx}) = AmountSum(funded) + tx.amount /\ AmountSum(funded) \in Int
      <3>1. PICK S : S = funded
        OBVIOUS
      <3>2. \A t \in S \cup {tx} : t.amount \in Int
        BY <1>5, <2>5, <3>1
      <3> QED BY <1>5, <2>3, <3>1, <3>2, AmountSums
    <2>7. airdrop'[id].total_funded = s.total_funded + AmountSum(funded')
      <3>1. PICK sum : sum = AmountSum(funded)
        OBVIOUS
      <3> QED BY <1>4, <1>9, <2>1, <2>3, <2>5, <2>6, <3>1
    <2> QED BY <1>4, <2>1, <2>2, <2>3, <2>7
  <1>13. CASE tx.id = id /\ tx.kind = "claim"
    <2>1. /\ airdrop'[id].total_claimed = airdrop[id].total_claimed + ClaimAmount(id, tx.row)
          /\ airdrop'[id].total_funded = airdrop[id].total_funded
          /\ h_null(tx.row.salt) \in Nullifiers
          /\ \A n \in Nullifiers :
               nullifier_record'[id][n].claimed <=>
                   nullifier_record[id][n].claimed \/ n = h_null(tx.row.salt)
      BY <1>13, IncludedClaimBooks DEF IncludeSigned, IncludeSettlement, BehindInv
    <2>2. spent' = spent \cup {h_null(tx.row.salt)}
      BY <2>1
    <2>3. tx \notin claimed /\ claimed' = claimed \cup {tx} /\ funded' = funded
      BY <1>7, <1>8, <1>13
    <2>4. tx.row \in LocalArgs[id].merkle_root
      BY <1>13 DEF SettleInv, RowsCommitted
    <2>5. ClaimAmount(id, tx.row) \in Int
      BY <2>4, LocalRowsTyped
    <2> HIDE DEF funded, claimed, spent
    <2>6. /\ ClaimSum(id, claimed \cup {tx}) = ClaimSum(id, claimed) + ClaimAmount(id, tx.row)
          /\ ClaimSum(id, claimed) \in Int
      <3>1. PICK S : S = claimed
        OBVIOUS
      <3>2. \A t \in S \cup {tx} : ClaimAmount(id, t.row) \in Int
        BY <1>5, <2>5, <3>1
      <3> QED BY <1>5, <2>3, <3>1, <3>2, ClaimSums
    <2>7. airdrop'[id].total_claimed = s.total_claimed + ClaimSum(id, claimed')
      <3>1. PICK sum : sum = ClaimSum(id, claimed)
        OBVIOUS
      <3> QED BY <1>4, <1>9, <2>1, <2>3, <2>5, <2>6, <3>1
    <2>8. spent' = s.nullifiers \cup {h_null(t.row.salt) : t \in claimed'}
      <3>1. {h_null(t.row.salt) : t \in claimed'} =
              {h_null(t.row.salt) : t \in claimed} \cup {h_null(tx.row.salt)}
        BY <2>3
      <3> QED BY <1>4, <2>2, <3>1
    <2> QED BY <1>4, <2>1, <2>3, <2>7, <2>8
  <1> QED BY <1>11, <1>12, <1>13

LEMMA LedgerKeepsBooks ==
    ASSUME TypeOK, TypeOK', LocalInv, BehindInv, SettleInv, SequentialInv, Ledger
    PROVE  SequentialInv'
  <1>1. SnapshotInv /\ MainInv /\ NewBooks /\ LagIsReported
    BY DEF SequentialInv
  <1>2. CASE Tick /\ UNCHANGED localVars
    <2>1. UNCHANGED <<airdrop, nullifier_record, localVars>>
      BY <1>2 DEF Tick
    <2>2. Main' = Main /\ \A id, kind : Unrecorded(id, kind)' = Unrecorded(id, kind)
      BY <2>1 DEF Main, Unrecorded, localVars
    <2>3. SnapshotInv'
      BY <1>1, <2>1 DEF SnapshotInv, localVars
    <2>4. MainInv'
      BY <1>1, <2>1, <2>2 DEF MainInv, OwnOK, localVars
    <2>5. NewBooks'
      BY <1>1, <2>1 DEF NewBooks, NothingDone, localVars
    <2>6. LagBooks'
      BY <1>1, <2>1, <2>2, LagMeans DEF LagBooks, localVars
    <2>7. LagIsReported' <=> LagBooks'
      BY DEF LagIsReported, LagBooks, AmountSum, ClaimSum
    <2> QED BY <2>3, <2>4, <2>5, <2>6, <2>7 DEF SequentialInv
  <1>3. CASE \E tx \in pending : IncludeSigned(tx) \/ IncludeClaim(tx) \/ IncludeSettlement(tx)
    <2>1. PICK tx \in pending : IncludeSigned(tx) \/ IncludeClaim(tx) \/ IncludeSettlement(tx)
      BY <1>3
    <2>2. /\ Include(tx)
          /\ pending' = pending \ {tx} /\ included' = included \cup {tx}
          /\ UNCHANGED <<state_json, command, drawn, failed>>
      BY <2>1 DEF IncludeSigned, IncludeClaim, IncludeSettlement, Include
    <2>3. SnapshotInv'
      BY <1>1, <2>2 DEF SnapshotInv
    <2>4. MainInv'
      <3>1. Main' = Main
        BY <2>2 DEF Main
      <3>2. IsFiniteSet(included')
        BY <1>1, <2>2, FS_AddElement DEF MainInv
      <3>3. ASSUME NEW p \in Processes, command[p] # Idle PROVE OwnOK(command[p])'
        <4>1. OwnOK(command[p])
          BY <1>1, <3>3 DEF MainInv
        <4> QED BY <2>2, <3>1, <4>1 DEF OwnOK
      <3>4. \A t \in Main' : ~ (t \in pending' /\ t \in included')
        BY <1>1, <2>2, <3>1 DEF MainInv
      <3> QED BY <1>1, <2>2, <3>1, <3>2, <3>3, <3>4 DEF MainInv
    <2>5. NewBooks'
      <3>1. ASSUME NEW id \in AirdropIds, NothingDone(id) PROVE NothingDone(id)'
        <4>1. \A t \in pending' \cup included' : t.id = id => t.kind = "init"
          BY <2>2, <3>1 DEF NothingDone
        <4>2. CASE tx.id = id /\ tx.kind = "init"
          <5>1. /\ airdrop'[id].total_funded = 0 /\ airdrop'[id].total_claimed = 0
                /\ nullifier_record' = nullifier_record
            BY <2>1, <4>2, IncludedInitBooks DEF IncludeClaim, IncludeSettlement
          <5> QED BY <3>1, <4>1, <5>1 DEF NothingDone
        <4>3. CASE tx.id # id
          <5>1. SameBooks(id)
            BY <2>1, <4>3, InclusionTouchesOneAirdrop
          <5> QED BY <3>1, <4>1, <5>1 DEF NothingDone, SameBooks
        <4> QED BY <3>1, <4>2, <4>3 DEF NothingDone
      <3>2. \A p \in Processes : command[p] # Idle => command[p].loaded.airdrop_id \in AirdropIds
        BY DEF LocalInv, CommandsOK, Commands, LocalAirdropState
      <3> QED BY <1>1, <2>2, <3>1, <3>2 DEF NewBooks
    <2>6. CASE state_json # Missing
      <3>1. LagBooks'
        BY <1>1, <2>1, <2>2, <2>6, InclusionKeepsLag
      <3>2. LagIsReported' <=> LagBooks'
        BY DEF LagIsReported, LagBooks, AmountSum, ClaimSum
      <3> QED BY <2>3, <2>4, <2>5, <3>1, <3>2 DEF SequentialInv
    <2>7. CASE state_json = Missing
      BY <2>2, <2>3, <2>4, <2>5, <2>7 DEF SequentialInv, LagIsReported
    <2> QED BY <2>6, <2>7
  <1> QED BY <1>2, <1>3 DEF Ledger

-----------------------------------------------------------------------------
BooksInv == TypeOK /\ Solvent /\ LocalInv /\ BehindInv /\ SettleInv /\ SequentialInv

LEMMA AdvanceKeepsBooks ==
    ASSUME OneAtATime, BooksInv, NEW p \in Processes, Advance(p) \/ abandon(p)
    PROVE  SequentialInv'
  <1>1. CASE save_state(p)
    BY <1>1, SaveKeepsBooks DEF BooksInv
  <1>2. CASE abandon(p)
    BY <1>2, AbandonKeepsBooks DEF BooksInv
  <1>3. CASE ~ save_state(p) /\ ~ abandon(p)
    BY <1>3, AdvanceGoesOn, GoingOn DEF BooksInv
  <1> QED BY <1>1, <1>2, <1>3

LEMMA BooksInvIsInductive ==
    OneAtATime => (BooksInv /\ [LocalNext]_allVars => BooksInv')
  <1> SUFFICES ASSUME OneAtATime, BooksInv, [LocalNext]_allVars PROVE BooksInv'
    OBVIOUS
  <1>1. TypeOK' /\ Solvent' /\ LocalInv' /\ BehindInv' /\ SettleInv'
    BY SettleInvIsInductive DEF BooksInv
  <1>2. CASE \E p \in Processes : StartCommand(p)
    BY <1>1, <1>2, StartCommandKeepsBooks DEF BooksInv
  <1>3. CASE \E p \in Processes : Advance(p) \/ abandon(p)
    BY <1>1, <1>3, AdvanceKeepsBooks DEF BooksInv
  <1>4. CASE Ledger
    BY <1>1, <1>4, LedgerKeepsBooks DEF BooksInv
  <1>5. CASE UNCHANGED allVars
    <2>1. /\ UNCHANGED <<airdrop, nullifier_record, state_json, command, pending, included,
                        drawn, failed>>
      BY <1>5 DEF allVars, vars, localVars
    <2>2. Main' = Main /\ \A id, kind : Unrecorded(id, kind)' = Unrecorded(id, kind)
      BY <2>1 DEF Main, Unrecorded
    <2>3. SnapshotInv'
      BY <2>1 DEF BooksInv, SequentialInv, SnapshotInv
    <2>4. MainInv'
      BY <2>1, <2>2 DEF BooksInv, SequentialInv, MainInv, OwnOK
    <2>5. NewBooks'
      BY <2>1 DEF BooksInv, SequentialInv, NewBooks, NothingDone
    <2>6. LagBooks'
      BY <2>1, <2>2, LagMeans DEF BooksInv, SequentialInv, LagBooks
    <2>7. LagIsReported' <=> LagBooks'
      BY DEF LagIsReported, LagBooks, AmountSum, ClaimSum
    <2> QED BY <1>1, <2>3, <2>4, <2>5, <2>6, <2>7 DEF BooksInv, SequentialInv
  <1> QED BY <1>1, <1>2, <1>3, <1>4, <1>5 DEF LocalNext

LEMMA BooksStartEmpty == LocalInit => BooksInv
  <1> SUFFICES ASSUME LocalInit PROVE BooksInv
    OBVIOUS
  <1>1. TypeOK /\ Solvent /\ LocalInv /\ BehindInv /\ SettleInv
    BY InitEstablishesInv, LocalInitEstablishesInv, LocalInitIsBehind, LocalInitSettlesNothing
       DEF LocalInit
  <1>2. SnapshotInv /\ LagIsReported
    BY DEF LocalInit, SnapshotInv, LagIsReported
  <1>3. MainInv
    <2>1. Main = {} /\ IsFiniteSet(included)
      BY FS_EmptySet DEF LocalInit, Main
    <2> QED BY <2>1 DEF LocalInit, MainInv
  <1>4. NewBooks
    BY DEF LocalInit, Init, NewBooks, NothingDone, UntouchedRecord
  <1> QED BY <1>1, <1>2, <1>3, <1>4 DEF BooksInv, SequentialInv

\* A step of one command at a time loses no record: it writes what it read,
\* with more in it.
LEMMA NoRecordLost ==
    ASSUME OneAtATime, BooksInv, [LocalNext]_allVars
    PROVE  state_json' # state_json /\ state_json # Missing =>
             IF state_json'.airdrop_id # state_json.airdrop_id
             THEN state_json' = FreshState(state_json'.airdrop_id)
             ELSE /\ state_json.nullifiers \subseteq state_json'.nullifiers
                  /\ state_json.total_funded <= state_json'.total_funded
                  /\ state_json.total_claimed <= state_json'.total_claimed
                  /\ state_json.status = "closed" => state_json'.status = "closed"
  <1> SUFFICES ASSUME state_json' # state_json, state_json # Missing
               PROVE  IF state_json'.airdrop_id # state_json.airdrop_id
                      THEN state_json' = FreshState(state_json'.airdrop_id)
                      ELSE /\ state_json.nullifiers \subseteq state_json'.nullifiers
                           /\ state_json.total_funded <= state_json'.total_funded
                           /\ state_json.total_claimed <= state_json'.total_claimed
                           /\ state_json.status = "closed" => state_json'.status = "closed"
    OBVIOUS
  <1>1. PICK p \in Processes : save_state(p)
    BY DEF LocalNext, StartCommand, init, fund_command, claim_command, close_command, Start,
           Advance, prefund_read, prefund_transfer, prefund_wait, submit, confirm,
           settle_claim_tokens, settle_confirm, time_out, abandon, End, Send, Proceed, Ledger, IncludeSigned,
           IncludeClaim, IncludeSettlement, Include, allVars, localVars
  <1> DEFINE c == command[p]
  <1>2. c # Idle /\ state_json' = Updated(c)
    BY <1>1 DEF save_state, At
  <1>3. c \in Commands /\ c.job \in Jobs /\ JobOK(c) /\ CommandBehind(c)
    BY <1>2 DEF BooksInv, LocalInv, CommandsOK, Commands, BehindInv
  <1>4. CASE c.job.kind = "init"
    <2>1. state_json' = c.loaded /\ c.loaded = FreshState(c.loaded.airdrop_id)
      BY <1>2, <1>3, <1>4, UpdatedMeans DEF CommandBehind
    <2>2. state_json.airdrop_id # c.loaded.airdrop_id
      BY <1>2, <1>4 DEF BooksInv, SequentialInv, SnapshotInv
    <2> QED BY <2>1, <2>2
  <1>5. CASE c.job.kind # "init"
    <2>1. PICK s \in LocalAirdropState : s = c.loaded /\ s = state_json
      BY <1>2, <1>3, <1>5 DEF BooksInv, SequentialInv, SnapshotInv, Commands
    <2>2. state_json'.airdrop_id = s.airdrop_id
      BY <1>2, <1>3, <2>1, UpdatedMeans
    <2>3. s.total_funded \in Int /\ s.total_claimed \in Int
      BY ConstantsAssumption DEF LocalAirdropState
    <2>4. c.job.kind = "fund" => c.job.amount \in Nat
      <3>1. FundAmounts \subseteq Nat
        BY LocalAssumption
      <3> QED BY <1>3, <3>1 DEF Jobs
    <2>5. c.job.kind = "claim" => ClaimAmount(s.airdrop_id, c.job.row) \in Nat
      <3>1. c.job.kind = "claim" =>
              s.airdrop_id \in AirdropIds /\ c.job.row \in LocalArgs[s.airdrop_id].merkle_root
        BY <1>3, <2>1 DEF JobOK, LocalAirdropState
      <3>2. c.job.kind = "claim" => ClaimAmount(s.airdrop_id, c.job.row) \in 0 .. U64Max
        BY <3>1, LocalRowsTyped
      <3> QED BY <3>2, ConstantsAssumption
    <2>6. s.total_funded <= state_json'.total_funded
      <3>1. state_json'.total_funded =
              IF c.job.kind = "fund" THEN s.total_funded + c.job.amount ELSE s.total_funded
        BY <1>2, <1>3, <2>1, UpdatedMeans
      <3> QED BY <2>3, <2>4, <3>1
    <2>7. s.total_claimed <= state_json'.total_claimed
      <3>1. state_json'.total_claimed =
              IF c.job.kind = "claim" THEN s.total_claimed + ClaimAmount(s.airdrop_id, c.job.row)
              ELSE s.total_claimed
        BY <1>2, <1>3, <2>1, UpdatedMeans
      <3> QED BY <2>3, <2>5, <3>1
    <2>8. s.nullifiers \subseteq state_json'.nullifiers
      BY <1>2, <1>3, <2>1, UpdatedMeans
    <2>9. s.status = "closed" => state_json'.status = "closed"
      BY <1>2, <1>3, <2>1, UpdatedMeans
    <2> QED BY <2>1, <2>2, <2>6, <2>7, <2>8, <2>9
  <1> QED BY <1>4, <1>5

\* Commands that do not overlap keep exact books, for any number of them, however
\* many fail, are retried or killed, and however late a transaction is included.
THEOREM LagAlwaysReported == OneAtATime => (LocalSpec => []LagIsReported)
  <1> SUFFICES ASSUME OneAtATime PROVE LocalSpec => []LagIsReported
    OBVIOUS
  <1>1. LocalInit => BooksInv
    BY BooksStartEmpty
  <1>2. BooksInv /\ [LocalNext]_allVars => BooksInv'
    BY BooksInvIsInductive
  <1>3. BooksInv => LagIsReported
    BY DEF BooksInv, SequentialInv
  <1> QED BY <1>1, <1>2, <1>3, PTL DEF LocalSpec

\* Commands that do not overlap never take a record out of state.json: its totals
\* and nullifiers grow and a closed airdrop stays closed until another is created.
THEOREM RecordsAreKept == OneAtATime => (LocalSpec => RecordsSurvive)
  <1> SUFFICES ASSUME OneAtATime PROVE LocalSpec => RecordsSurvive
    OBVIOUS
  <1> DEFINE Kept == state_json' # state_json /\ state_json # Missing =>
                       IF state_json'.airdrop_id # state_json.airdrop_id
                       THEN state_json' = FreshState(state_json'.airdrop_id)
                       ELSE /\ state_json.nullifiers \subseteq state_json'.nullifiers
                            /\ state_json.total_funded <= state_json'.total_funded
                            /\ state_json.total_claimed <= state_json'.total_claimed
                            /\ state_json.status = "closed" => state_json'.status = "closed"
  <1>1. LocalInit => BooksInv
    BY BooksStartEmpty
  <1>2. BooksInv /\ [LocalNext]_allVars => BooksInv'
    BY BooksInvIsInductive
  <1>3. BooksInv /\ [LocalNext]_allVars => [Kept]_allVars
    BY NoRecordLost
  <1> HIDE DEF Kept
  <1>4. LocalSpec => [][Kept]_allVars
    BY <1>1, <1>2, <1>3, PTL DEF LocalSpec
  <1> QED BY <1>4 DEF RecordsSurvive, Kept

=============================================================================
