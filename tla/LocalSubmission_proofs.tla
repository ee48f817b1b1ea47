----------------------- MODULE LocalSubmission_proofs -----------------------
(***************************************************************************)
(* The distributor's machine is well typed and drives the ledger through    *)
(* the program's own instructions only, for any number of processes,        *)
(* commands, airdrops and amounts.  So every property proved of Spec in     *)
(* DistributionXProgram_proofs holds of LocalSpec.  And what state.json    *)
(* says was done was done.                                                 *)
(***************************************************************************)
EXTENDS LocalSubmission, DistributionXProgram_proofs

\* What is known of a command beyond its type: where its row, its deposit and
\* its attempt number come from.
JobOK(c) ==
    /\ c.job.kind = "claim" => c.job.row \in LocalArgs[c.loaded.airdrop_id].merkle_root
    /\ c.step = "prefund" => c.job.kind = "fund"
    /\ c.step = "transfer" => c.deposit \in Amounts
    /\ c.step = "settle" => c.job.kind = "claim"
    /\ c.attempt < attempts

CommandsOK ==
    /\ command \in [Processes -> Commands \cup {Idle}]
    /\ \A p \in Processes : command[p] # Idle => JobOK(command[p])

\* A transaction names an airdrop and carries what its command was asked for.
TxOK(tx) ==
    /\ tx.id \in AirdropIds
    /\ tx.kind = "deposit" => tx.amount \in Amounts
    /\ tx.kind = "fund" => tx.amount \in FundAmounts
    /\ tx.kind \in {"fund", "claim"} => tx.now \in CallerTimes
    /\ tx.kind = "settle" => tx.row \in LocalArgs[tx.id].merkle_root

LocalInv ==
    /\ LocalTypeOK
    /\ CommandsOK
    /\ \A tx \in pending : TxOK(tx)

-----------------------------------------------------------------------------
(* Types. *)

LEMMA LocalRowsTyped ==
    ASSUME NEW id \in AirdropIds, NEW row \in LocalArgs[id].merkle_root
    PROVE  /\ row \in Rows
           /\ h_null(row.salt) \in Nullifiers
           /\ ClaimAmount(id, row) \in 0 .. U64Max
  <1>1. LocalArgs[id] \in InitArgs /\ LocalArgs[id] \in InitArg
    BY LocalAssumption, ConstantsAssumption
  <1>2. row \in Rows /\ h_null(row.salt) \in Nullifiers
    BY <1>1, RowsTyped
  <1>3. row.bucket_id \in Nat /\ row.bucket_id < Len(LocalArgs[id].bucket_table)
    BY <1>2, LocalAssumption DEF Rows
  <1>4. LocalArgs[id].bucket_table \in Seq(0 .. U64Max)
    BY <1>1 DEF InitArg
  <1>5. row.bucket_id + 1 \in 1 .. Len(LocalArgs[id].bucket_table)
    BY <1>3, <1>4
  <1>6. LocalArgs[id].bucket_table[row.bucket_id + 1] \in 0 .. U64Max
    <2> DEFINE table == LocalArgs[id].bucket_table
               i == row.bucket_id + 1
    <2>1. table \in Seq(0 .. U64Max) /\ i \in 1 .. Len(table)
      BY <1>4, <1>5
    <2> HIDE DEF table, i
    <2>2. table[i] \in 0 .. U64Max
      BY <2>1, ElementOfSeq
    <2> QED BY <2>2 DEF table, i
  <1> QED BY <1>2, <1>6 DEF ClaimAmount

LEMMA FreshStateTyped ==
    ASSUME NEW id \in AirdropIds PROVE FreshState(id) \in LocalAirdropState
  BY ConstantsAssumption DEF FreshState, LocalAirdropState

LEMMA IdleIsNoCommand == Idle \notin Commands
  BY DEF Idle, Commands, Steps

LEMMA LocalInitEstablishesInv == LocalInit => LocalInv
  <1> SUFFICES ASSUME LocalInit PROVE LocalInv
    OBVIOUS
  <1>1. LocalTypeOK
    BY LocalAssumption DEF LocalInit, LocalTypeOK
  <1>2. CommandsOK
    BY DEF LocalInit, CommandsOK
  <1> QED BY <1>1, <1>2 DEF LocalInit, LocalInv

-----------------------------------------------------------------------------
(* A process moves from one step to the next: what remains to be shown is    *)
(* what the new step demands.                                               *)

LEMMA GotoKeepsCommands ==
    ASSUME CommandsOK, NEW p \in Processes, command[p] # Idle, NEW s \in Steps,
           Goto(p, s), attempts' = attempts,
           JobOK([command[p] EXCEPT !.step = s])
    PROVE  CommandsOK'
  <1>1. command[p] \in Commands
    BY DEF CommandsOK
  <1>2. [command[p] EXCEPT !.step = s] \in Commands
    BY <1>1 DEF Commands
  <1>3. command' = [command EXCEPT ![p] = [command[p] EXCEPT !.step = s]]
    BY DEF Goto
  <1> QED BY <1>2, <1>3 DEF CommandsOK, JobOK

LEMMA IdleKeepsCommands ==
    ASSUME CommandsOK, NEW p \in Processes, attempts' = attempts,
           command' = [command EXCEPT ![p] = Idle]
    PROVE  CommandsOK'
  BY DEF CommandsOK, JobOK

-----------------------------------------------------------------------------
(* Commands start. *)

LEMMA StartPreservesInv ==
    ASSUME LocalInv, NEW p \in Processes,
           NEW job \in Jobs, NEW loaded \in LocalAirdropState, NEW s \in Steps,
           Start(p, job, loaded, s), drawn' \subseteq AirdropIds,
           job.kind = "claim" => job.row \in LocalArgs[loaded.airdrop_id].merkle_root,
           s = "prefund" => job.kind = "fund",
           s \notin {"transfer", "settle"}
    PROVE  LocalInv'
  <1>1. PICK c : c = [step |-> s, job |-> job, loaded |-> loaded,
                      attempt |-> attempts, deposit |-> 0]
    OBVIOUS
  <1>2. attempts \in Nat /\ attempts' = attempts + 1 /\ attempts' \in 0 .. MaxCommands
    BY LocalAssumption DEF Start, LocalInv, LocalTypeOK
  <1>3. c \in Commands
    BY <1>1, <1>2 DEF Commands
  <1>4. JobOK(c)'
    BY <1>1, <1>2 DEF JobOK
  <1>5. command' = [command EXCEPT ![p] = c]
    BY <1>1 DEF Start
  <1>6. CommandsOK'
    <2>1. command' \in [Processes -> Commands \cup {Idle}]
      BY <1>3, <1>5 DEF LocalInv, CommandsOK
    <2>2. ASSUME NEW q \in Processes, command'[q] # Idle PROVE JobOK(command[q])'
      <3>1. CASE q = p
        BY <1>4, <1>5, <3>1 DEF LocalInv, CommandsOK
      <3>2. CASE q # p
        <4>1. command'[q] = command[q] /\ JobOK(command[q])
          BY <1>5, <2>2, <3>2 DEF LocalInv, CommandsOK
        <4>2. command[q].attempt \in Nat
          BY <2>2, <4>1 DEF LocalInv, CommandsOK, Commands
        <4> QED BY <1>2, <4>1, <4>2 DEF JobOK
      <3> QED BY <3>1, <3>2
    <2> QED BY <2>1, <2>2 DEF CommandsOK
  <1>7. LocalTypeOK'
    BY <1>2, <1>6 DEF Start, LocalInv, LocalTypeOK, CommandsOK
  <1>8. (\A tx \in pending : TxOK(tx))'
    BY DEF Start, LocalInv, TxOK
  <1> QED BY <1>6, <1>7, <1>8 DEF LocalInv

LEMMA StartCommandPreservesInv ==
    ASSUME LocalInv, NEW p \in Processes, StartCommand(p)
    PROVE  LocalInv'
  <1>1. /\ state_json \in LocalAirdropState \cup {Missing}
        /\ drawn \subseteq AirdropIds
    BY DEF LocalInv, LocalTypeOK
  <1>2. CASE \E id \in AirdropIds : init(p, id)
    <2>1. PICK id \in AirdropIds : init(p, id)
      BY <1>2
    <2>2. [kind |-> "init"] \in Jobs
      BY DEF Jobs
    <2> QED BY <1>1, <2>1, <2>2, FreshStateTyped, StartPreservesInv DEF init, Steps
  <1>3. CASE \E amount \in FundAmounts : fund_command(p, amount)
    <2>1. PICK amount \in FundAmounts : fund_command(p, amount)
      BY <1>3
    <2>2. [kind |-> "fund", amount |-> amount] \in Jobs
      BY DEF Jobs
    <2> QED BY <1>1, <2>1, <2>2, StartPreservesInv DEF fund_command, Steps
  <1>4. CASE /\ state_json # Missing
             /\ \E row \in LocalArgs[state_json.airdrop_id].merkle_root, dest \in Wallets :
                  claim_command(p, row, dest)
    <2>1. PICK row \in LocalArgs[state_json.airdrop_id].merkle_root, dest \in Wallets :
            claim_command(p, row, dest)
      BY <1>4
    <2>2. state_json \in LocalAirdropState /\ state_json.airdrop_id \in AirdropIds
      BY <1>1, <1>4 DEF LocalAirdropState
    <2>3. row \in Rows
      BY <2>2, LocalRowsTyped
    <2>4. [kind |-> "claim", row |-> row, dest |-> dest] \in Jobs
      BY <2>3 DEF Jobs
    <2> QED BY <1>1, <2>1, <2>2, <2>4, StartPreservesInv DEF claim_command, Steps
  <1>5. CASE close_command(p)
    <2>1. [kind |-> "close"] \in Jobs
      BY DEF Jobs
    <2>2. state_json \in LocalAirdropState
      BY <1>1, <1>5 DEF close_command
    <2> QED BY <1>1, <1>5, <2>1, <2>2, StartPreservesInv DEF close_command, Steps
  <1> QED BY <1>2, <1>3, <1>4, <1>5 DEF StartCommand

-----------------------------------------------------------------------------
(* Commands go on, save, or give up. *)

\* Sending adds one transaction and leaves the files and the ledger alone.
LEMMA SendPreservesInv ==
    ASSUME LocalInv, NEW p \in Processes, command[p] # Idle,
           NEW tx, TxOK(tx), NEW s \in Steps \ {"prefund", "transfer", "settle"}, Send(p, tx, s)
    PROVE  LocalInv'
  <1>1. JobOK([command[p] EXCEPT !.step = s])
    <2>1. command[p] \in Commands /\ JobOK(command[p])
      BY DEF LocalInv, CommandsOK
    <2> QED BY <2>1 DEF JobOK, Commands
  <1>2. CommandsOK'
    BY <1>1, GotoKeepsCommands DEF LocalInv, Send
  <1>3. LocalTypeOK'
    BY <1>2 DEF LocalInv, LocalTypeOK, CommandsOK, Send
  <1>4. (\A t \in pending : TxOK(t))'
    BY DEF LocalInv, Send, TxOK
  <1> QED BY <1>2, <1>3, <1>4 DEF LocalInv

LEMMA ProceedPreservesInv ==
    ASSUME LocalInv, NEW p \in Processes, command[p] # Idle,
           NEW s \in Steps \ {"prefund", "transfer"},
           s = "settle" => command[p].job.kind = "claim",
           Goto(p, s),
           UNCHANGED <<state_json, pending, nonce, drawn, token_balance, settled,
                       attempts, failed>>
    PROVE  LocalInv'
  <1>1. JobOK([command[p] EXCEPT !.step = s])
    <2>1. command[p] \in Commands /\ JobOK(command[p])
      BY DEF LocalInv, CommandsOK
    <2> QED BY <2>1 DEF JobOK, Commands
  <1>2. CommandsOK'
    BY <1>1, GotoKeepsCommands DEF LocalInv
  <1>3. LocalTypeOK'
    BY <1>2 DEF LocalInv, LocalTypeOK, CommandsOK
  <1>4. (\A t \in pending : TxOK(t))'
    BY DEF LocalInv, TxOK
  <1> QED BY <1>2, <1>3, <1>4 DEF LocalInv

\* The deposit is what the vault lacks, so it lies between one and the amount.
LEMMA PrefundReadPreservesInv ==
    ASSUME TypeOK, LocalInv, NEW p \in Processes, prefund_read(p)
    PROVE  LocalInv'
  <1> DEFINE c == command[p]
             held == vault[c.loaded.airdrop_id].balance
  <1>1. c # Idle /\ c \in Commands /\ JobOK(c) /\ c.step = "prefund"
    BY DEF LocalInv, CommandsOK, prefund_read, At
  <1>2. c.job \in Jobs /\ c.job.kind = "fund" /\ c.loaded.airdrop_id \in AirdropIds
    BY <1>1 DEF JobOK, Commands, LocalAirdropState
  <1>3. c.job.amount \in FundAmounts /\ c.job.amount \in Nat
    BY <1>2, LocalAssumption DEF Jobs
  <1>4. held \in Nat
    BY <1>2 DEF TypeOK, NativeAccount
  <1>5. CASE held >= c.job.amount
    <2>1. Goto(p, "submit")
      BY <1>5 DEF prefund_read
    <2> QED BY <1>1, <2>1, ProceedPreservesInv DEF prefund_read, Steps
  <1>6. CASE ~ (held >= c.job.amount)
    <2>1. PICK d : d = [c EXCEPT !.step = "transfer", !.deposit = c.job.amount - held]
      OBVIOUS
    <2>2. c.job.amount - held \in 1 .. c.job.amount
      BY <1>3, <1>4, <1>6
    <2>3. c.job.amount - held \in Amounts /\ c.job.amount - held \in Nat
      BY <1>3, <2>2, LocalAssumption
    <2>4. command' = [command EXCEPT ![p] = d] /\ attempts' = attempts
      BY <1>6, <2>1 DEF prefund_read
    <2>5. d \in Commands /\ d # Idle
      BY <1>1, <2>1, <2>3, IdleIsNoCommand DEF Commands, Steps
    <2>6. JobOK(d)
      BY <1>1, <1>2, <2>1, <2>3 DEF JobOK, Commands
    <2>7. CommandsOK'
      BY <2>4, <2>5, <2>6 DEF LocalInv, CommandsOK, JobOK
    <2>8. LocalTypeOK'
      BY <2>7 DEF LocalInv, LocalTypeOK, CommandsOK, prefund_read
    <2> QED BY <2>7, <2>8 DEF LocalInv, TxOK, prefund_read
  <1> QED BY <1>5, <1>6

LEMMA SubmitPreservesInv ==
    ASSUME LocalInv, NEW p \in Processes, submit(p)
    PROVE  LocalInv'
  <1> DEFINE c == command[p]
  <1>1. c # Idle /\ c \in Commands /\ c.job \in Jobs /\ c.loaded.airdrop_id \in AirdropIds
    BY DEF LocalInv, CommandsOK, submit, At, Commands, LocalAirdropState
  <1>2. PICK now \in CallerTimes :
          Send(p, CASE c.job.kind = "claim" -> ClaimTx(c, now)
                    [] c.job.kind = "fund" -> SignedTx("fund", c, c.job.amount, now)
                    [] OTHER -> SignedTx(c.job.kind, c, 0, now), "wait")
    BY DEF submit
  <1>3. CASE c.job.kind = "claim"
    <2>1. TxOK(ClaimTx(c, now))
      BY <1>1 DEF TxOK, ClaimTx
    <2>2. Send(p, ClaimTx(c, now), "wait")
      BY <1>2, <1>3
    <2> QED BY <1>1, <2>1, <2>2, SendPreservesInv DEF Steps
  <1>4. CASE c.job.kind = "fund"
    <2>1. c.job.amount \in FundAmounts
      BY <1>1, <1>4 DEF Jobs
    <2>2. TxOK(SignedTx("fund", c, c.job.amount, now))
      BY <1>1, <2>1 DEF TxOK, SignedTx
    <2>3. Send(p, SignedTx("fund", c, c.job.amount, now), "wait")
      BY <1>2, <1>4
    <2> QED BY <1>1, <2>2, <2>3, SendPreservesInv DEF Steps
  <1>5. CASE c.job.kind \in {"init", "close"}
    <2>1. TxOK(SignedTx(c.job.kind, c, 0, now))
      BY <1>1, <1>5 DEF TxOK, SignedTx
    <2>2. Send(p, SignedTx(c.job.kind, c, 0, now), "wait")
      BY <1>2, <1>5
    <2> QED BY <1>1, <2>1, <2>2, SendPreservesInv DEF Steps
  <1> QED BY <1>1, <1>3, <1>4, <1>5 DEF Jobs

LEMMA UpdatedTyped ==
    ASSUME NEW c \in Commands, JobOK(c),
           Updated(c).total_funded <= U64Max, Updated(c).total_claimed <= U64Max
    PROVE  Updated(c) \in LocalAirdropState
  <1>1. c.job \in Jobs /\ c.loaded \in LocalAirdropState /\ U64Max \in Nat
    BY ConstantsAssumption DEF Commands
  <1>2. CASE c.job.kind = "init"
    BY <1>1, <1>2 DEF Updated
  <1>3. CASE c.job.kind = "fund"
    <2>1. Updated(c) = [c.loaded EXCEPT !.total_funded = c.loaded.total_funded + c.job.amount]
      BY <1>3 DEF Updated
    <2>2. c.job.amount \in Nat
      BY <1>1, <1>3, LocalAssumption DEF Jobs
    <2> QED BY <1>1, <2>1, <2>2 DEF LocalAirdropState
  <1>4. CASE c.job.kind = "claim"
    <2>1. c.job.row \in LocalArgs[c.loaded.airdrop_id].merkle_root /\ c.loaded.airdrop_id \in AirdropIds
      BY <1>1, <1>4 DEF JobOK, LocalAirdropState
    <2>2. /\ ClaimAmount(c.loaded.airdrop_id, c.job.row) \in 0 .. U64Max
          /\ h_null(c.job.row.salt) \in Nullifiers
      BY <2>1, LocalRowsTyped
    <2>3. PICK t, ns : /\ t = c.loaded.total_claimed + ClaimAmount(c.loaded.airdrop_id, c.job.row)
                       /\ ns = c.loaded.nullifiers \cup {h_null(c.job.row.salt)}
      OBVIOUS
    <2>4. Updated(c) = [c.loaded EXCEPT !.total_claimed = t, !.nullifiers = ns]
      BY <1>4, <2>3 DEF Updated
    <2>5. t \in Nat /\ ns \subseteq Nullifiers
      BY <1>1, <2>2, <2>3 DEF LocalAirdropState
    <2>6. Updated(c).total_claimed = t
      BY <1>1, <2>4 DEF LocalAirdropState
    <2>7. t \in 0 .. U64Max
      BY <1>1, <2>5, <2>6
    <2> QED BY <1>1, <2>4, <2>5, <2>7 DEF LocalAirdropState
  <1>5. CASE c.job.kind = "close"
    <2>1. Updated(c) = [c.loaded EXCEPT !.status = "closed"]
      BY <1>5 DEF Updated
    <2> QED BY <1>1, <2>1 DEF LocalAirdropState
  <1> QED BY <1>1, <1>2, <1>3, <1>4, <1>5 DEF Jobs

\* A wait that runs out ends its command as an error does.
LEMMA TimeOutEnds ==
    ASSUME NEW p, time_out(p) PROVE abandon(p)
  BY DEF time_out, abandon, At

LEMMA AdvancePreservesInv ==
    ASSUME TypeOK, LocalInv, NEW p \in Processes, Advance(p) \/ abandon(p)
    PROVE  LocalInv'
  <1> DEFINE c == command[p]
  <1>1. CASE prefund_read(p)
    BY <1>1, PrefundReadPreservesInv
  <1>2. CASE prefund_transfer(p)
    <2>1. c # Idle /\ c \in Commands /\ JobOK(c) /\ c.step = "transfer"
      BY <1>2 DEF LocalInv, CommandsOK, prefund_transfer, At
    <2>2. TxOK(SignedTx("deposit", c, c.deposit, 0))
      BY <2>1 DEF TxOK, SignedTx, JobOK, Commands, LocalAirdropState
    <2> QED BY <1>2, <2>1, <2>2, SendPreservesInv DEF prefund_transfer, Steps
  <1>3. CASE prefund_wait(p)
    BY <1>3, ProceedPreservesInv DEF prefund_wait, At, Proceed, Steps
  <1>4. CASE submit(p)
    BY <1>4, SubmitPreservesInv
  <1>5. CASE confirm(p)
    BY <1>5, ProceedPreservesInv DEF confirm, At, Proceed, SettlementDue, Steps
  <1>6. CASE settle_claim_tokens(p)
    <2>1. c # Idle /\ c \in Commands /\ JobOK(c) /\ c.step = "settle"
      BY <1>6 DEF LocalInv, CommandsOK, settle_claim_tokens, At
    <2>2. TxOK(SettleTx(c))
      BY <2>1 DEF TxOK, SettleTx, JobOK, Commands, LocalAirdropState
    <2> QED BY <1>6, <2>1, <2>2, SendPreservesInv DEF settle_claim_tokens, Steps
  <1>7. CASE settle_confirm(p)
    BY <1>7, ProceedPreservesInv DEF settle_confirm, At, Proceed, Steps
  <1>8. CASE save_state(p)
    <2>1. c \in Commands /\ JobOK(c)
      BY <1>8 DEF LocalInv, CommandsOK, save_state, At
    <2>2. Updated(c) \in LocalAirdropState
      BY <1>8, <2>1, UpdatedTyped DEF save_state
    <2>3. CommandsOK'
      BY <1>8, IdleKeepsCommands DEF LocalInv, save_state
    <2>4. LocalTypeOK'
      BY <1>8, <2>2, <2>3 DEF LocalInv, LocalTypeOK, CommandsOK, save_state
    <2> QED BY <1>8, <2>3, <2>4 DEF LocalInv, TxOK, save_state
  <1>9. CASE abandon(p)
    <2>1. c \in Commands /\ JobOK(c)
      BY <1>9 DEF LocalInv, CommandsOK, abandon, End
    <2>2. c.attempt \in 0 .. attempts - 1
      BY <2>1 DEF JobOK, Commands, LocalInv, LocalTypeOK
    <2>3. CommandsOK'
      BY <1>9, IdleKeepsCommands DEF LocalInv, abandon, End
    <2>4. LocalTypeOK'
      BY <1>9, <2>2, <2>3 DEF LocalInv, LocalTypeOK, CommandsOK, abandon, End
    <2> QED BY <1>9, <2>3, <2>4 DEF LocalInv, TxOK, abandon, End
  <1> QED BY <1>1, <1>2, <1>3, <1>4, <1>5, <1>6, <1>7, <1>8, <1>9, TimeOutEnds DEF Advance

-----------------------------------------------------------------------------
(* The ledger includes transactions. *)

\* An included transaction is an instruction, or a transfer, of the program.
LEMMA IncludeSignedIsNext ==
    ASSUME LocalInv, NEW tx \in pending, IncludeSigned(tx)
    PROVE  Next
  <1>1. TxOK(tx) /\ tx.id \in AirdropIds /\ LocalDistributor \in Wallets
    BY LocalAssumption DEF LocalInv, TxOK
  <1>2. CASE tx.kind = "init" /\ init_airdrop(tx.id, LocalDistributor, LocalArgs[tx.id])
    <2>1. LocalArgs[tx.id] \in InitArgs
      BY <1>1, LocalAssumption
    <2> QED BY <1>1, <1>2, <2>1 DEF Next, InitAirdrop
  <1>3. CASE tx.kind = "deposit" /\ transfer(LocalDistributor, tx.id, tx.amount)
    BY <1>1, <1>3 DEF Next, Transfer, TxOK
  <1>4. CASE tx.kind = "fund" /\ fund(tx.id, LocalDistributor, tx.amount, tx.now)
    <2>1. tx.amount \in FundAmounts /\ tx.amount # 0 /\ tx.now \in CallerTimes
      BY <1>1, <1>4 DEF TxOK, fund
    <2>2. PICK a \in FundAmounts : a = tx.amount
      BY <2>1
    <2>3. tx.amount \in Amounts
      <3>1. a \in Nat /\ 1 .. a \subseteq Amounts
        BY LocalAssumption
      <3>2. a \in 1 .. a
        BY <2>1, <2>2, <3>1
      <3> QED BY <2>2, <3>1, <3>2
    <2> QED BY <1>1, <1>4, <2>1, <2>3 DEF Next, Fund
  <1>5. CASE tx.kind = "close" /\ close(tx.id, LocalDistributor)
    BY <1>1, <1>5 DEF Next, Close
  <1> QED BY <1>2, <1>3, <1>4, <1>5 DEF IncludeSigned, Execute

LEMMA IncludeClaimIsNext ==
    ASSUME LocalInv, NEW tx \in pending, IncludeClaim(tx)
    PROVE  Next
  <1>1. tx.id \in AirdropIds /\ tx.now \in CallerTimes
    BY DEF LocalInv, TxOK, IncludeClaim
  <1>2. claim_ppe(tx.id, tx.row.bucket_id, h_null(tx.row.salt), tx.dest,
                  tx.row.address, tx.row.salt, tx.now)
    BY DEF IncludeClaim
  <1>3. PICK r : r = [address |-> tx.row.address, bucket_id |-> tx.row.bucket_id,
                      salt |-> tx.row.salt]
    OBVIOUS
  <1>4. tx.dest \in Wallets /\ r \in CommittedRows(tx.id)
    BY <1>2, <1>3 DEF claim_ppe, verify_claim_constraints, Journal, ensure_active,
       CommittedRows, claim_ppe_checks, witness_checks
  <1>5. claim_ppe(tx.id, r.bucket_id, h_null(r.salt), tx.dest, r.address, r.salt, tx.now)
    BY <1>2, <1>3
  <1> QED BY <1>1, <1>4, <1>5 DEF Next, ClaimPpe

LEMMA LedgerPreservesInv ==
    ASSUME LocalInv, Ledger
    PROVE  LocalInv'
  <1>1. CASE Tick /\ UNCHANGED localVars
    <2>1. CommandsOK'
      BY <1>1 DEF LocalInv, CommandsOK, JobOK, localVars
    <2>2. LocalTypeOK'
      BY <1>1 DEF LocalInv, LocalTypeOK, localVars
    <2> QED BY <1>1, <2>1, <2>2 DEF LocalInv, TxOK, localVars
  <1>2. ASSUME NEW tx \in pending, Include(tx),
               nonce' \in Nat, token_balance' \in 0 .. TokenFunds,
               settled' \in [AirdropIds -> [Nullifiers -> Nat]]
        PROVE  LocalInv'
    <2>1. CommandsOK'
      BY <1>2 DEF LocalInv, CommandsOK, JobOK, Include
    <2>2. LocalTypeOK'
      BY <1>2 DEF LocalInv, LocalTypeOK, Include
    <2> QED BY <1>2, <2>1, <2>2 DEF LocalInv, TxOK, Include
  <1>3. /\ nonce \in Nat /\ token_balance \in 0 .. TokenFunds /\ TokenFunds \in Nat
        /\ settled \in [AirdropIds -> [Nullifiers -> Nat]]
    BY LocalAssumption DEF LocalInv, LocalTypeOK
  <1>4. CASE \E tx \in pending : IncludeSigned(tx)
    BY <1>2, <1>3, <1>4 DEF IncludeSigned
  <1>5. CASE \E tx \in pending : IncludeClaim(tx)
    BY <1>2, <1>3, <1>5 DEF IncludeClaim
  <1>6. CASE \E tx \in pending : IncludeSettlement(tx)
    <2>1. PICK tx \in pending : IncludeSettlement(tx)
      BY <1>6
    <2>2. tx.id \in AirdropIds /\ tx.row \in LocalArgs[tx.id].merkle_root
      BY <2>1 DEF LocalInv, TxOK, IncludeSettlement
    <2>3. PICK amount \in Nat, n \in Nullifiers :
            amount = ClaimAmount(tx.id, tx.row) /\ n = h_null(tx.row.salt)
      BY <2>2, LocalRowsTyped
    <2>4. token_balance' \in 0 .. TokenFunds /\ nonce' \in Nat
      BY <1>3, <2>1, <2>3 DEF IncludeSettlement
    <2>5. settled' = [settled EXCEPT ![tx.id] =
                        [settled[tx.id] EXCEPT ![n] = settled[tx.id][n] + amount]]
      BY <2>1, <2>3 DEF IncludeSettlement
    <2>6. [settled[tx.id] EXCEPT ![n] = settled[tx.id][n] + amount] \in [Nullifiers -> Nat]
      BY <1>3, <2>2, <2>3
    <2>7. settled' \in [AirdropIds -> [Nullifiers -> Nat]]
      BY <1>3, <2>2, <2>5, <2>6
    <2> QED BY <1>2, <2>1, <2>4, <2>7 DEF IncludeSettlement
  <1> QED BY <1>1, <1>4, <1>5, <1>6 DEF Ledger

-----------------------------------------------------------------------------
\* Every step of the machine, the commands and the ledger is a step of the
\* program or leaves the ledger alone.
LEMMA LocalStepIsProgramStep ==
    ASSUME LocalInv, [LocalNext]_allVars
    PROVE  [Next]_vars
  <1>1. CASE UNCHANGED allVars
    BY <1>1 DEF allVars
  <1>2. CASE \E p \in Processes : StartCommand(p)
    BY <1>2 DEF StartCommand, init, fund_command, claim_command, close_command, Start
  <1>3. CASE \E p \in Processes : Advance(p) \/ abandon(p)
    BY <1>3 DEF Advance, prefund_read, prefund_transfer, prefund_wait, submit, confirm,
                settle_claim_tokens, settle_confirm, save_state, time_out, abandon, End,
                Send, Proceed
  <1>4. CASE Ledger
    <2>1. CASE \E tx \in pending : IncludeSigned(tx)
      BY <2>1, IncludeSignedIsNext
    <2>2. CASE \E tx \in pending : IncludeClaim(tx)
      BY <2>2, IncludeClaimIsNext
    <2>3. CASE \E tx \in pending : IncludeSettlement(tx)
      BY <2>3 DEF IncludeSettlement
    <2>4. CASE Tick /\ UNCHANGED localVars
      BY <2>4 DEF Next
    <2> QED BY <1>4, <2>1, <2>2, <2>3, <2>4 DEF Ledger
  <1> QED BY <1>1, <1>2, <1>3, <1>4 DEF LocalNext

LEMMA LocalNextPreservesInv ==
    TypeOK /\ Solvent /\ LocalInv /\ [LocalNext]_allVars
        => TypeOK' /\ Solvent' /\ LocalInv'
  <1> SUFFICES ASSUME TypeOK, Solvent, LocalInv, [LocalNext]_allVars
               PROVE  TypeOK' /\ Solvent' /\ LocalInv'
    OBVIOUS
  <1>1. TypeOK' /\ Solvent'
    BY LocalStepIsProgramStep, NextPreservesInv
  <1>2. LocalInv'
    <2>1. CASE \E p \in Processes : StartCommand(p)
      BY <2>1, StartCommandPreservesInv
    <2>2. CASE \E p \in Processes : Advance(p) \/ abandon(p)
      BY <2>2, AdvancePreservesInv
    <2>3. CASE Ledger
      BY <2>3, LedgerPreservesInv
    <2>4. CASE UNCHANGED allVars
      <3>1. CommandsOK'
        BY <2>4 DEF LocalInv, CommandsOK, JobOK, allVars, localVars
      <3>2. LocalTypeOK'
        BY <2>4 DEF LocalInv, LocalTypeOK, allVars, localVars
      <3> QED BY <2>4, <3>1, <3>2 DEF LocalInv, TxOK, allVars, localVars
    <2> QED BY <2>1, <2>2, <2>3, <2>4 DEF LocalNext
  <1> QED BY <1>1, <1>2

\* The machine's files and processes are well typed, and so is what it sends:
\* no deposit is negative or larger than the funding it is for, and no total in
\* state.json leaves u64.
THEOREM LocalTypeCorrect == LocalSpec => []LocalTypeOK
  <1>1. LocalInit => TypeOK /\ Solvent /\ LocalInv
    BY InitEstablishesInv, LocalInitEstablishesInv DEF LocalInit
  <1>2. LocalInv => LocalTypeOK
    BY DEF LocalInv
  <1> QED BY <1>1, <1>2, LocalNextPreservesInv, PTL DEF LocalSpec

\* Whatever commands run, overlap, fail and repeat, the ledger goes through a
\* behaviour of the program: AlwaysSolvent, SpentStaysSpent and the others hold
\* of LocalSpec as well.
THEOREM LocalDrivesProgram == LocalSpec => DrivesProgram
  <1>1. LocalInit => TypeOK /\ Solvent /\ LocalInv
    BY InitEstablishesInv, LocalInitEstablishesInv DEF LocalInit
  <1>2. LocalInv /\ [LocalNext]_allVars => [Next]_vars
    BY LocalStepIsProgramStep
  <1>3. LocalInit => Init
    BY DEF LocalInit
  <1> QED BY <1>1, <1>2, <1>3, LocalNextPreservesInv, PTL DEF LocalSpec, DrivesProgram, Spec

-----------------------------------------------------------------------------
(* state.json never runs ahead of the ledger, for any number of commands    *)
(* that overlap, fail and repeat.                                          *)

\* The ledger has done everything that s records.
Behind(s) ==
    /\ airdrop[s.airdrop_id] # Default
    /\ s.total_funded <= airdrop[s.airdrop_id].total_funded
    /\ s.total_claimed <= airdrop[s.airdrop_id].total_claimed
    /\ \A n \in s.nullifiers : nullifier_record[s.airdrop_id][n].claimed
    /\ (ClosesOnChain /\ s.status = "closed") => ~ Active(s.airdrop_id)

\* The transaction is what the command was asked for.
Matches(tx, c) ==
    /\ tx.id = c.loaded.airdrop_id
    /\ tx.kind = "fund" => tx.amount = c.job.amount
    /\ tx.kind = "claim" => tx.row = c.job.row

\* Nothing a command may save is ahead of the ledger: not what it read, and not
\* what it makes of it once its own transaction is included.
CommandBehind(c) ==
    /\ IF c.job.kind = "init" THEN c.loaded = FreshState(c.loaded.airdrop_id) ELSE Behind(c.loaded)
    /\ c.step \in {"settle", "settle_wait", "save"} => Behind(Updated(c))
    /\ \A tx \in included :
         tx.attempt = c.attempt /\ tx.kind = c.job.kind => Behind(Updated(c))

AttemptsDistinct ==
    \A p, q \in Processes :
        command[p] # Idle /\ command[q] # Idle /\ p # q => command[p].attempt # command[q].attempt

SentByCommands ==
    \A tx \in pending \cup included :
        /\ tx.attempt \in 0 .. attempts - 1
        /\ \A p \in Processes :
             /\ command[p] # Idle
             /\ tx.attempt = command[p].attempt /\ tx.kind = command[p].job.kind
             => Matches(tx, command[p])

\* Only this machine's init creates the airdrops.
TablesKnown ==
    \A id \in AirdropIds : airdrop[id] # Default =>
        airdrop[id].bucket_table = LocalArgs[id].bucket_table

BehindInv ==
    /\ TablesKnown
    /\ state_json # Missing => Behind(state_json)
    /\ \A p \in Processes : command[p] # Idle => CommandBehind(command[p])
    /\ AttemptsDistinct
    /\ SentByCommands

-----------------------------------------------------------------------------
(* The ledger only grows. *)

\* The totals, the nullifiers and the end of an airdrop are for good.
LEMMA LedgerGrows ==
    ASSUME TypeOK, TypeOK', [Next]_vars, NEW id \in AirdropIds, airdrop[id] # Default
    PROVE  /\ airdrop'[id] # Default
           /\ airdrop[id].total_funded <= airdrop'[id].total_funded
           /\ airdrop[id].total_claimed <= airdrop'[id].total_claimed
           /\ airdrop'[id].bucket_table = airdrop[id].bucket_table
           /\ airdrop[id].status = "closed" => airdrop'[id].status = "closed"
           /\ \A n \in Nullifiers :
                nullifier_record[id][n].claimed => nullifier_record'[id][n].claimed
  <1> DEFINE Grown(a, b) ==
               /\ a.total_funded <= b.total_funded
               /\ a.total_claimed <= b.total_claimed
               /\ b.bucket_table = a.bucket_table
               /\ a.status = "closed" => b.status = "closed"
  <1>1. airdrop[id] \in AirdropState /\ U64Max \in Nat /\ Default \notin AirdropState
    BY ConstantsAssumption DEF TypeOK
  <1>2. SUFFICES /\ airdrop'[id] \in AirdropState /\ Grown(airdrop[id], airdrop'[id])
                 /\ \A n \in Nullifiers :
                      nullifier_record[id][n].claimed => nullifier_record'[id][n].claimed
    BY <1>1
  <1>3. Grown(airdrop[id], airdrop[id])
    BY <1>1 DEF AirdropState
  <1>4. CASE \E i, n, amount, credit : ClaimStep(i, n, amount, credit)
    <2>1. PICK i, n, amount, credit : ClaimStep(i, n, amount, credit)
      BY <1>4
    <2>2. i \in AirdropIds /\ amount \in Nat /\ n \in Nullifiers
      BY <2>1 DEF ClaimStep
    <2>3. PICK t : t = airdrop[i].total_claimed + amount
      OBVIOUS
    <2>4. airdrop' = [airdrop EXCEPT ![i] = [airdrop[i] EXCEPT !.total_claimed = t]]
      BY <2>1, <2>3 DEF ClaimStep, Debit
    <2>5. \A m \in Nullifiers : nullifier_record[id][m].claimed => nullifier_record'[id][m].claimed
      BY <2>1, <2>2 DEF ClaimStep, SpendNullifier, TypeOK
    <2>6. CASE i # id
      BY <1>1, <1>3, <2>4, <2>5, <2>6 DEF TypeOK
    <2>7. CASE i = id
      <3>1. airdrop'[id] = [airdrop[id] EXCEPT !.total_claimed = t]
        BY <2>4, <2>7 DEF TypeOK
      <3>2. t \in Nat /\ airdrop[id].total_claimed <= t /\ t <= U64Max
        <4>1. VaultCovers(i, amount)
          BY <2>1 DEF ClaimStep
        <4> QED BY <1>1, <2>2, <2>3, <2>7, <4>1 DEF AirdropState, VaultCovers, checked_add_u64
      <3>3. airdrop'[id] \in AirdropState
        <4>1. t \in 0 .. U64Max
          BY <1>1, <3>2
        <4> QED BY <1>1, <3>1, <4>1 DEF AirdropState
      <3>4. Grown(airdrop[id], airdrop'[id])
        <4>1. airdrop[id].total_funded <= airdrop[id].total_funded
          BY <1>1 DEF AirdropState
        <4> QED BY <1>1, <3>1, <3>2, <4>1 DEF AirdropState
      <3> QED BY <2>5, <3>3, <3>4
    <2> QED BY <2>6, <2>7
  <1>5. CASE InitAirdrop
    <2>1. PICK i \in AirdropIds, d \in Wallets, args \in InitArgs : init_airdrop(i, d, args)
      BY <1>5 DEF InitAirdrop
    <2>2. i # id
      BY <2>1 DEF init_airdrop
    <2>3. airdrop'[id] = airdrop[id] /\ nullifier_record' = nullifier_record
      BY <2>1, <2>2 DEF init_airdrop, TypeOK
    <2>4. Grown(airdrop[id], airdrop'[id]) /\ airdrop'[id] \in AirdropState
      BY <1>1, <1>3, <2>3
    <2> QED BY <2>3, <2>4
  <1>6. CASE Fund
    <2>1. PICK i \in AirdropIds, w \in Wallets, amount \in Amounts, now \in CallerTimes :
            fund(i, w, amount, now)
      BY <1>6 DEF Fund
    <2>2. PICK t : t = airdrop[i].total_funded + amount
      OBVIOUS
    <2>3. /\ airdrop' = [airdrop EXCEPT ![i] = [airdrop[i] EXCEPT !.total_funded = t]]
          /\ nullifier_record' = nullifier_record
          /\ t <= U64Max
      BY <2>1, <2>2 DEF fund, checked_add_u64
    <2>4. CASE i # id
      BY <1>1, <1>3, <2>3, <2>4 DEF TypeOK
    <2>5. CASE i = id
      <3>1. airdrop'[id] = [airdrop[id] EXCEPT !.total_funded = t]
        BY <2>3, <2>5 DEF TypeOK
      <3>2. amount \in Nat
        BY ConstantsAssumption
      <3>3. t \in Nat /\ airdrop[id].total_funded <= t
        BY <1>1, <2>2, <2>5, <3>2 DEF AirdropState
      <3>4. t \in 0 .. U64Max
        BY <1>1, <2>3, <3>3
      <3>5. airdrop'[id] \in AirdropState /\ Grown(airdrop[id], airdrop'[id])
        BY <1>1, <3>1, <3>3, <3>4, SMTT(30) DEF AirdropState
      <3> QED BY <2>3, <3>5
    <2> QED BY <2>4, <2>5
  <1>7. CASE Close
    <2>1. PICK i \in AirdropIds, w \in Wallets : close(i, w)
      BY <1>7 DEF Close
    <2>2. /\ airdrop' = [airdrop EXCEPT ![i] = [airdrop[i] EXCEPT !.status = "closed"]]
          /\ nullifier_record' = nullifier_record
      BY <2>1 DEF close, Sweep, close_checks
    <2>3. CASE i # id
      BY <1>1, <1>3, <2>2, <2>3 DEF TypeOK
    <2>4. CASE i = id
      <3>1. airdrop'[id] = [airdrop[id] EXCEPT !.status = "closed"]
        BY <2>2, <2>4 DEF TypeOK
      <3> QED BY <1>1, <2>2, <3>1, SMTT(30) DEF AirdropState
    <2> QED BY <2>3, <2>4
  <1>8. CASE Transfer
    BY <1>1, <1>3, <1>8 DEF Transfer, transfer
  <1>9. CASE Tick \/ UNCHANGED vars
    BY <1>1, <1>3, <1>9 DEF Tick, vars
  <1>10. CASE Touch
    BY <1>1, <1>3, <1>10, TouchIsHarmless
  <1> QED BY <1>4, <1>5, <1>6, <1>7, <1>8, <1>9, <1>10, NextIsClaimOrNot

\* A state whose totals can be compared with the ledger's; a command may be about
\* to save one that does not fit u64, and then fails.
Countable(s) ==
    /\ s.airdrop_id \in AirdropIds
    /\ s.total_funded \in Int /\ s.total_claimed \in Int
    /\ s.nullifiers \subseteq Nullifiers

\* So what was behind the ledger stays behind it.
LEMMA BehindStays ==
    ASSUME TypeOK, TypeOK', [Next]_vars, NEW s, Countable(s), Behind(s)
    PROVE  Behind(s)'
  <1>1. PICK id \in AirdropIds : id = s.airdrop_id
    BY DEF Countable
  <1>2. airdrop[id] # Default
    BY <1>1 DEF Behind
  <1>3. /\ airdrop'[id] # Default
        /\ airdrop[id].total_funded <= airdrop'[id].total_funded
        /\ airdrop[id].total_claimed <= airdrop'[id].total_claimed
        /\ airdrop'[id].bucket_table = airdrop[id].bucket_table
        /\ airdrop[id].status = "closed" => airdrop'[id].status = "closed"
        /\ \A n \in Nullifiers :
             nullifier_record[id][n].claimed => nullifier_record'[id][n].claimed
    BY <1>2, LedgerGrows
  <1>4. airdrop[id] \in AirdropState /\ airdrop'[id] \in AirdropState /\ U64Max \in Nat
    BY <1>2, <1>3, ConstantsAssumption DEF TypeOK
  <1>5. s.total_funded \in Int /\ s.total_claimed \in Int /\ s.nullifiers \subseteq Nullifiers
    BY DEF Countable
  <1>6. s.total_funded <= airdrop'[id].total_funded /\ s.total_claimed <= airdrop'[id].total_claimed
    <2>1. /\ s.total_funded <= airdrop[id].total_funded
          /\ s.total_claimed <= airdrop[id].total_claimed
      BY <1>1 DEF Behind
    <2>2. /\ airdrop[id].total_funded \in Int /\ airdrop'[id].total_funded \in Int
          /\ airdrop[id].total_claimed \in Int /\ airdrop'[id].total_claimed \in Int
          /\ s.total_funded \in Int /\ s.total_claimed \in Int
      BY <1>4, <1>5 DEF AirdropState
    <2> QED BY <1>3, <2>1, <2>2
  <1>7. ~ Active(id) => ~ Active(id)'
    BY <1>2, <1>3, <1>4 DEF Active, AirdropState
  <1> QED BY <1>1, <1>3, <1>5, <1>6, <1>7 DEF Behind

-----------------------------------------------------------------------------
(* The steps of processes. *)

LEMMA BehindSame ==
    ASSUME UNCHANGED vars, NEW s
    PROVE  Behind(s)' <=> Behind(s)
  BY DEF Behind, Active, vars

LEMMA CommandBehindSame ==
    ASSUME UNCHANGED <<vars, included>>, NEW c
    PROVE  CommandBehind(c)' <=> CommandBehind(c)
  BY DEF CommandBehind, Behind, Active, vars

\* Process p turns its command c into d, or ends it: d is about the same request,
\* and what is newly sent is what c was asked for.
LEMMA ProcessKeepsBehind ==
    ASSUME LocalInv, BehindInv, NEW p \in Processes, command[p] # Idle,
           UNCHANGED <<vars, included, attempts>>,
           NEW d, command' = [command EXCEPT ![p] = d],
           d = Idle \/ /\ d.job = command[p].job
                       /\ d.loaded = command[p].loaded
                       /\ d.attempt = command[p].attempt
                       /\ CommandBehind(d),
           \A tx \in pending' \ pending :
               /\ tx.attempt = command[p].attempt
               /\ tx.kind = command[p].job.kind => Matches(tx, command[p]),
           state_json' # Missing => Behind(state_json')
    PROVE  BehindInv'
  <1>1. /\ \A q \in Processes \ {p} : command'[q] = command[q]
        /\ command'[p] = d
    BY DEF LocalInv, CommandsOK
  <1>2. TablesKnown'
    BY DEF BehindInv, TablesKnown, vars
  <1>3. (state_json # Missing => Behind(state_json))'
    BY BehindSame, SMTT(30) DEF Behind, Active, vars
  <1>4. ASSUME NEW q \in Processes, command'[q] # Idle
        PROVE  CommandBehind(command[q])'
    <2>1. CommandBehind(command'[q])
      BY <1>1, <1>4 DEF BehindInv
    <2> QED BY <2>1 DEF CommandBehind, Behind, Active, vars
  <1>5. AttemptsDistinct'
    BY <1>1 DEF BehindInv, AttemptsDistinct
  <1>6. SentByCommands'
    <2>1. ASSUME NEW tx \in pending' \cup included'
          PROVE  /\ tx.attempt \in 0 .. attempts - 1
                 /\ \A q \in Processes :
                      /\ command[q] # Idle
                      /\ tx.attempt = command[q].attempt /\ tx.kind = command[q].job.kind
                      => Matches(tx, command[q])
      <3>1. CASE tx \in pending \cup included
        BY <3>1 DEF BehindInv, SentByCommands
      <3>2. CASE tx \in pending' \ pending
        <4>1. command[p].attempt \in 0 .. attempts - 1
          BY DEF LocalInv, LocalTypeOK, CommandsOK, JobOK, Commands
        <4>2. \A q \in Processes : command[q] # Idle /\ tx.attempt = command[q].attempt => q = p
          BY <3>2 DEF BehindInv, AttemptsDistinct
        <4> QED BY <3>2, <4>1, <4>2
      <3> QED BY <2>1, <3>1, <3>2
    <2>2. ASSUME NEW tx \in pending' \cup included', NEW q \in Processes,
                 command'[q] # Idle,
                 tx.attempt = command'[q].attempt, tx.kind = command'[q].job.kind
          PROVE  Matches(tx, command'[q])
      <3>1. CASE q = p
        <4>1. Matches(tx, command[p])
          BY <1>1, <2>1, <2>2, <3>1
        <4> QED BY <1>1, <2>2, <3>1, <4>1 DEF Matches
      <3>2. CASE q # p
        BY <1>1, <2>1, <2>2, <3>2
      <3> QED BY <3>1, <3>2
    <2> QED BY <2>1, <2>2 DEF SentByCommands, Matches
  <1> QED BY <1>2, <1>3, <1>4, <1>5, <1>6 DEF BehindInv

LEMMA SameRequest ==
    ASSUME NEW c, NEW d, d.job = c.job, d.loaded = c.loaded, d.attempt = c.attempt,
           CommandBehind(c),
           d.step \in {"settle", "settle_wait", "save"} => Behind(Updated(c))
    PROVE  CommandBehind(d)
  <1>1. Updated(d) = Updated(c)
    BY DEF Updated
  <1> QED BY <1>1 DEF CommandBehind

\* The step changes and nothing is sent.
LEMMA GotoKeepsBehind ==
    ASSUME LocalInv, BehindInv, NEW p \in Processes, command[p] # Idle, NEW s,
           s \in {"settle", "settle_wait", "save"} => Behind(Updated(command[p])),
           Goto(p, s),
           \A tx \in pending' \ pending :
               /\ tx.attempt = command[p].attempt
               /\ tx.kind = command[p].job.kind => Matches(tx, command[p]),
           UNCHANGED <<vars, state_json, included, attempts>>
    PROVE  BehindInv'
  <1>1. command[p] \in Commands /\ CommandBehind(command[p])
    BY DEF LocalInv, CommandsOK, BehindInv
  <1>2. PICK d : d = [command[p] EXCEPT !.step = s]
    OBVIOUS
  <1>3. /\ d.job = command[p].job
        /\ d.loaded = command[p].loaded
        /\ d.attempt = command[p].attempt
        /\ d.step = s
    BY <1>1, <1>2 DEF Commands
  <1>4. CommandBehind(d)
    BY <1>1, <1>3, SameRequest
  <1>5. command' = [command EXCEPT ![p] = d]
    BY <1>2 DEF Goto
  <1>6. state_json' # Missing => Behind(state_json')
    BY DEF BehindInv
  <1> QED BY <1>3, <1>4, <1>5, <1>6, ProcessKeepsBehind

LEMMA EndKeepsBehind ==
    ASSUME LocalInv, BehindInv, NEW p \in Processes, command[p] # Idle,
           command' = [command EXCEPT ![p] = Idle],
           UNCHANGED <<vars, included, pending, attempts>>,
           state_json' # Missing => Behind(state_json')
    PROVE  BehindInv'
  BY ProcessKeepsBehind

LEMMA AdvanceKeepsBehind ==
    ASSUME LocalInv, BehindInv, NEW p \in Processes, Advance(p) \/ abandon(p)
    PROVE  BehindInv'
  <1> DEFINE c == command[p]
  <1>1. ASSUME c # Idle
        PROVE  c \in Commands /\ c.job \in Jobs /\ CommandBehind(c)
    BY <1>1 DEF LocalInv, CommandsOK, Commands, BehindInv
  <1>2. ASSUME NEW tx, NEW s, Send(p, tx, s), c # Idle, tx.attempt = c.attempt,
               tx.kind = c.job.kind => Matches(tx, c),
               s \in {"settle", "settle_wait", "save"} => Behind(Updated(c))
        PROVE  BehindInv'
    BY <1>2, GotoKeepsBehind DEF Send
  <1>3. ASSUME NEW s, Proceed(p, s), c # Idle,
               s \in {"settle", "settle_wait", "save"} => Behind(Updated(c))
        PROVE  BehindInv'
    BY <1>3, GotoKeepsBehind DEF Proceed
  <1>4. CASE prefund_read(p)
    <2>1. c # Idle
      BY <1>4 DEF prefund_read, At
    <2>2. CASE Goto(p, "submit")
      BY <1>4, <2>1, <2>2, GotoKeepsBehind DEF prefund_read
    <2>3. CASE \E deposit : command' = [command EXCEPT ![p] =
                              [c EXCEPT !.step = "transfer", !.deposit = deposit]]
      <3>1. PICK deposit, d : /\ d = [c EXCEPT !.step = "transfer", !.deposit = deposit]
                              /\ command' = [command EXCEPT ![p] = d]
        BY <2>3
      <3>2. d.job = c.job /\ d.loaded = c.loaded /\ d.attempt = c.attempt /\ d.step = "transfer"
        BY <1>1, <2>1, <3>1 DEF Commands
      <3>3. CommandBehind(d)
        BY <1>1, <2>1, <3>2, SameRequest
      <3>4. state_json' # Missing => Behind(state_json')
        BY <1>4 DEF BehindInv, prefund_read
      <3>5. UNCHANGED <<vars, included, attempts>> /\ pending' = pending
        BY <1>4 DEF prefund_read
      <3> QED BY <2>1, <3>1, <3>2, <3>3, <3>4, <3>5, ProcessKeepsBehind
    <2> QED BY <1>4, <2>2, <2>3 DEF prefund_read
  <1>5. CASE prefund_transfer(p)
    BY <1>1, <1>2, <1>5 DEF prefund_transfer, At, SignedTx, Jobs
  <1>6. CASE prefund_wait(p)
    BY <1>3, <1>6 DEF prefund_wait, At
  <1>7. CASE submit(p)
    <2>1. c # Idle /\ c.job \in Jobs
      BY <1>1, <1>7 DEF submit, At
    <2>2. PICK now \in CallerTimes :
            Send(p, CASE c.job.kind = "claim" -> ClaimTx(c, now)
                      [] c.job.kind = "fund" -> SignedTx("fund", c, c.job.amount, now)
                      [] OTHER -> SignedTx(c.job.kind, c, 0, now), "wait")
      BY <1>7 DEF submit
    <2>3. CASE c.job.kind = "claim"
      <3>1. Send(p, ClaimTx(c, now), "wait")
        BY <2>2, <2>3
      <3> QED BY <1>2, <2>1, <3>1 DEF ClaimTx, Matches
    <2>4. CASE c.job.kind = "fund"
      <3>1. Send(p, SignedTx("fund", c, c.job.amount, now), "wait")
        BY <2>2, <2>4
      <3> QED BY <1>2, <2>1, <3>1 DEF SignedTx, Matches
    <2>5. CASE c.job.kind \in {"init", "close"}
      <3>1. Send(p, SignedTx(c.job.kind, c, 0, now), "wait")
        BY <2>2, <2>5
      <3> QED BY <1>2, <2>1, <2>5, <3>1 DEF SignedTx, Matches
    <2> QED BY <2>1, <2>3, <2>4, <2>5 DEF Jobs
  <1>8. CASE confirm(p)
    <2>1. c # Idle /\ \E tx \in included : tx.kind = c.job.kind /\ tx.attempt = c.attempt
      BY <1>8 DEF confirm, At, Included
    <2>2. Behind(Updated(c))
      BY <1>1, <2>1 DEF CommandBehind
    <2> QED BY <1>3, <1>8, <2>1, <2>2 DEF confirm
  <1>9. CASE settle_claim_tokens(p)
    <2>1. c # Idle /\ c.job \in Jobs /\ Behind(Updated(c))
      BY <1>1, <1>9 DEF settle_claim_tokens, At, CommandBehind
    <2> QED BY <1>2, <1>9, <2>1 DEF settle_claim_tokens, SettleTx, Jobs
  <1>10. CASE settle_confirm(p)
    <2>1. c # Idle /\ Behind(Updated(c))
      BY <1>1, <1>10 DEF settle_confirm, At, CommandBehind
    <2> QED BY <1>3, <1>10, <2>1 DEF settle_confirm
  <1>11. CASE save_state(p)
    <2>1. c # Idle /\ Behind(Updated(c))
      BY <1>1, <1>11 DEF save_state, At, CommandBehind
    <2> QED BY <1>11, <2>1, EndKeepsBehind DEF save_state
  <1>12. CASE abandon(p)
    <2>1. state_json' # Missing => Behind(state_json')
      BY <1>12 DEF BehindInv, abandon, End
    <2> QED BY <1>12, <2>1, EndKeepsBehind DEF abandon, End
  <1> QED BY <1>4, <1>5, <1>6, <1>7, <1>8, <1>9, <1>10, <1>11, <1>12, TimeOutEnds DEF Advance

LEMMA StartKeepsBehind ==
    ASSUME LocalInv, BehindInv, NEW p \in Processes, NEW job, NEW loaded, NEW s,
           Start(p, job, loaded, s),
           IF job.kind = "init" THEN loaded = FreshState(loaded.airdrop_id) ELSE Behind(loaded),
           s \in {"settle", "settle_wait", "save"} => job.kind = "close" /\ ~ ClosesOnChain
    PROVE  BehindInv'
  <1>1. PICK c : c = [step |-> s, job |-> job, loaded |-> loaded,
                      attempt |-> attempts, deposit |-> 0]
    OBVIOUS
  <1>2. attempts \in Nat /\ attempts' = attempts + 1
    BY LocalAssumption DEF Start, LocalInv, LocalTypeOK
  <1>3. command'[p] = c /\ \A q \in Processes \ {p} : command'[q] = command[q]
    BY <1>1 DEF Start, LocalInv, CommandsOK
  <1>4. UNCHANGED <<vars, state_json, pending, included>>
    BY DEF Start
  <1>5. \A tx \in pending \cup included : tx.attempt \in 0 .. attempts - 1
    BY DEF BehindInv, SentByCommands
  <1>6. CommandBehind(c)
    <2>1. ASSUME s \in {"settle", "settle_wait", "save"} PROVE Behind(Updated(c))
      <3>1. job.kind = "close" /\ ~ ClosesOnChain /\ Behind(loaded)
        BY <2>1
      <3>2. Updated(c) = [loaded EXCEPT !.status = "closed"]
        BY <1>1, <3>1 DEF Updated
      <3> QED BY <3>1, <3>2 DEF Behind
    <2>2. \A tx \in included : tx.attempt # c.attempt
      BY <1>1, <1>2, <1>5
    <2> QED BY <1>1, <2>1, <2>2 DEF CommandBehind
  <1>7. ASSUME NEW q \in Processes, command'[q] # Idle
        PROVE  CommandBehind(command[q])'
    <2>1. CommandBehind(command'[q])
      BY <1>3, <1>6, <1>7 DEF BehindInv
    <2> QED BY <1>4, <2>1 DEF CommandBehind, Behind, Active, vars
  <1>8. \A q \in Processes : command[q] # Idle => command[q].attempt \in 0 .. attempts - 1
    BY <1>2 DEF LocalInv, CommandsOK, JobOK, Commands
  <1>9. AttemptsDistinct'
    BY <1>1, <1>2, <1>3, <1>8 DEF BehindInv, AttemptsDistinct
  <1>10. SentByCommands'
    <2>1. ASSUME NEW tx \in pending \cup included, NEW q \in Processes, command'[q] # Idle,
                 tx.attempt = command'[q].attempt, tx.kind = command'[q].job.kind
          PROVE  Matches(tx, command'[q])
      <3>1. q # p
        BY <1>1, <1>2, <1>3, <1>5, <2>1
      <3> QED BY <1>3, <2>1, <3>1 DEF BehindInv, SentByCommands
    <2>2. \A tx \in pending \cup included : tx.attempt \in 0 .. attempts' - 1
      BY <1>2, <1>5
    <2> QED BY <1>4, <2>1, <2>2 DEF SentByCommands, Matches
  <1>11. TablesKnown'
    BY <1>4 DEF BehindInv, TablesKnown, vars
  <1>12. (state_json # Missing => Behind(state_json))'
    BY <1>4 DEF BehindInv, Behind, Active, vars
  <1> QED BY <1>7, <1>9, <1>10, <1>11, <1>12 DEF BehindInv

LEMMA StartCommandKeepsBehind ==
    ASSUME LocalInv, BehindInv, NEW p \in Processes, StartCommand(p)
    PROVE  BehindInv'
  <1>1. state_json # Missing => Behind(state_json)
    BY DEF BehindInv
  <1>2. CASE \E id \in AirdropIds : init(p, id)
    <2>1. PICK id \in AirdropIds : init(p, id)
      BY <1>2
    <2>2. FreshState(id) = FreshState(FreshState(id).airdrop_id)
      BY DEF FreshState
    <2> QED BY <2>1, <2>2, StartKeepsBehind DEF init
  <1>3. CASE \E amount \in FundAmounts : fund_command(p, amount)
    BY <1>1, <1>3, StartKeepsBehind DEF fund_command
  <1>4. CASE /\ state_json # Missing
             /\ \E row \in LocalArgs[state_json.airdrop_id].merkle_root, dest \in Wallets :
                  claim_command(p, row, dest)
    BY <1>1, <1>4, StartKeepsBehind DEF claim_command
  <1>5. CASE close_command(p)
    BY <1>1, <1>5, StartKeepsBehind DEF close_command
  <1> QED BY <1>2, <1>3, <1>4, <1>5 DEF StartCommand

-----------------------------------------------------------------------------
(* Inclusion: a command's own transaction does on the ledger what the        *)
(* command is going to record.                                             *)

LEMMA InitCreates ==
    ASSUME TypeOK, NEW id \in AirdropIds, NEW d \in Wallets, NEW args \in InitArgs,
           init_airdrop(id, d, args)
    PROVE  /\ airdrop'[id] \in AirdropState
           /\ airdrop'[id].bucket_table = args.bucket_table
           /\ \A i \in AirdropIds \ {id} : airdrop'[i] = airdrop[i]
  <1>1. PICK new : new = [distributor |-> d, merkle_root |-> args.merkle_root,
          bucket_table |-> args.bucket_table, expiry_unix |-> args.expiry_unix,
          recovery_address |-> args.recovery_address, total_funded |-> 0,
          total_claimed |-> 0, status |-> "active"]
    OBVIOUS
  <1>2. args \in InitArg /\ U64Max \in Nat
    BY ConstantsAssumption
  <1>3. new \in AirdropState
    BY <1>1, <1>2 DEF InitArg, AirdropState
  <1>4. airdrop' = [airdrop EXCEPT ![id] = new]
    BY <1>1 DEF init_airdrop
  <1> QED BY <1>1, <1>3, <1>4 DEF TypeOK

LEMMA IncludedInitIsBehind ==
    ASSUME TypeOK, NEW c \in Commands, c.job.kind = "init",
           c.loaded = FreshState(c.loaded.airdrop_id),
           init_airdrop(c.loaded.airdrop_id, LocalDistributor, LocalArgs[c.loaded.airdrop_id])
    PROVE  Behind(Updated(c))'
  <1>1. PICK id \in AirdropIds : id = c.loaded.airdrop_id
    BY DEF Commands, LocalAirdropState
  <1>2. airdrop'[id] \in AirdropState /\ Default \notin AirdropState
    BY <1>1, InitCreates, LocalAssumption, ConstantsAssumption
  <1>3. Updated(c) = FreshState(id)
    BY <1>1 DEF Updated
  <1>4. airdrop'[id].total_funded \in Nat /\ airdrop'[id].total_claimed \in Nat
    BY <1>2, ConstantsAssumption DEF AirdropState
  <1> QED BY <1>2, <1>3, <1>4 DEF FreshState, Behind

LEMMA IncludedFundIsBehind ==
    ASSUME TypeOK, TypeOK', NEW c \in Commands, c.job.kind = "fund", Behind(c.loaded),
           NEW now, fund(c.loaded.airdrop_id, LocalDistributor, c.job.amount, now)
    PROVE  Behind(Updated(c))'
  <1>1. PICK id \in AirdropIds, s \in LocalAirdropState, amount \in Nat :
          id = s.airdrop_id /\ s = c.loaded /\ amount = c.job.amount
    <2>1. c.loaded \in LocalAirdropState /\ c.job \in Jobs
      BY DEF Commands
    <2>2. c.loaded.airdrop_id \in AirdropIds
      BY <2>1 DEF LocalAirdropState
    <2>3. c.job.amount \in FundAmounts
      BY <2>1 DEF Jobs
    <2>4. c.job.amount \in Nat
      BY <2>3, LocalAssumption
    <2> QED BY <2>1, <2>2, <2>4
  <1>2. Updated(c) = [s EXCEPT !.total_funded = s.total_funded + amount]
    BY <1>1 DEF Updated
  <1>3. airdrop[id] \in AirdropState
    BY <1>1 DEF fund, ensure_active, TypeOK
  <1>4. PICK t : t = airdrop[id].total_funded + amount
    OBVIOUS
  <1>5. /\ airdrop' = [airdrop EXCEPT ![id] = [airdrop[id] EXCEPT !.total_funded = t]]
        /\ nullifier_record' = nullifier_record
        /\ t <= U64Max
    BY <1>1, <1>4 DEF fund, checked_add_u64
  <1>6. airdrop'[id] = [airdrop[id] EXCEPT !.total_funded = t]
    BY <1>5 DEF TypeOK
  <1>7. t \in 0 .. U64Max
    BY <1>3, <1>4, <1>5, ConstantsAssumption DEF AirdropState
  <1>8. airdrop'[id] \in AirdropState /\ airdrop'[id] # Default
    <2>1. airdrop'[id] \in AirdropState
      BY <1>3, <1>6, <1>7 DEF AirdropState
    <2> QED BY <2>1, ConstantsAssumption
  <1>9. /\ airdrop'[id].total_funded = t
        /\ airdrop'[id].total_claimed = airdrop[id].total_claimed
        /\ airdrop'[id].status = airdrop[id].status
    BY <1>3, <1>6 DEF AirdropState
  <1>10. s.total_funded + amount <= t
    <2>1. s.total_funded <= airdrop[id].total_funded
      BY <1>1 DEF Behind
    <2>2. /\ s.total_funded \in 0 .. U64Max
          /\ airdrop[id].total_funded \in 0 .. U64Max
          /\ U64Max \in Nat
      BY <1>1, <1>3, ConstantsAssumption DEF LocalAirdropState, AirdropState
    <2> QED BY <1>1, <1>4, <2>1, <2>2
  <1>11. PICK u : /\ u = Updated(c)
                  /\ u.airdrop_id = id
                  /\ u.total_funded = s.total_funded + amount
                  /\ u.total_claimed = s.total_claimed
                  /\ u.nullifiers = s.nullifiers
                  /\ u.status = s.status
    BY <1>1, <1>2 DEF LocalAirdropState
  <1>12. /\ u.total_funded <= airdrop'[id].total_funded
         /\ u.total_claimed <= airdrop'[id].total_claimed
         /\ \A n \in u.nullifiers : nullifier_record'[id][n].claimed
    <2>1. /\ s.total_claimed <= airdrop[id].total_claimed
          /\ \A n \in s.nullifiers : nullifier_record[id][n].claimed
      BY <1>1 DEF Behind
    <2>2. \A n \in u.nullifiers : nullifier_record'[id][n].claimed
      BY <1>5, <1>11, <2>1
    <2> QED BY <1>9, <1>10, <1>11, <2>1, <2>2
  <1>13. ClosesOnChain /\ u.status = "closed" => ~ Active(id)'
    BY <1>1, <1>8, <1>9, <1>11 DEF Behind, Active
  <1> QED BY <1>8, <1>11, <1>12, <1>13 DEF Behind

LEMMA IncludedCloseIsBehind ==
    ASSUME TypeOK, NEW c \in Commands, c.job.kind = "close", Behind(c.loaded),
           close(c.loaded.airdrop_id, LocalDistributor)
    PROVE  Behind(Updated(c))'
  <1>1. PICK id \in AirdropIds, s \in LocalAirdropState : id = s.airdrop_id /\ s = c.loaded
    BY DEF Commands, LocalAirdropState
  <1>2. PICK u : /\ u = Updated(c)
                 /\ u.airdrop_id = id
                 /\ u.total_funded = s.total_funded
                 /\ u.total_claimed = s.total_claimed
                 /\ u.nullifiers = s.nullifiers
    <2>1. Updated(c) = [s EXCEPT !.status = "closed"]
      BY <1>1 DEF Updated
    <2> QED BY <1>1, <2>1 DEF LocalAirdropState
  <1>3. airdrop[id] \in AirdropState
    BY <1>1 DEF close, ensure_distributor, TypeOK, close_checks
  <1>4. /\ airdrop' = [airdrop EXCEPT ![id] = [airdrop[id] EXCEPT !.status = "closed"]]
        /\ nullifier_record' = nullifier_record
    BY <1>1 DEF close, Sweep, close_checks
  <1>5. airdrop'[id] = [airdrop[id] EXCEPT !.status = "closed"]
    BY <1>4 DEF TypeOK
  <1>6. /\ airdrop'[id] \in AirdropState /\ airdrop'[id] # Default
        /\ airdrop'[id].total_funded = airdrop[id].total_funded
        /\ airdrop'[id].total_claimed = airdrop[id].total_claimed
        /\ airdrop'[id].status = "closed"
    <2>1. PICK a \in AirdropState : a = airdrop[id]
      BY <1>3
    <2>2. PICK b : b = [a EXCEPT !.status = "closed"]
      OBVIOUS
    <2>3. b \in AirdropState
      BY <2>2 DEF AirdropState
    <2>4. b.total_funded = a.total_funded /\ b.total_claimed = a.total_claimed /\ b.status = "closed"
      BY <2>2 DEF AirdropState
    <2>5. b # Default
      BY <2>3, ConstantsAssumption
    <2>6. airdrop'[id] = b
      BY <1>5, <2>1, <2>2
    <2> QED BY <2>1, <2>3, <2>4, <2>5, <2>6
  <1>7. /\ airdrop[id] # Default
        /\ s.total_funded <= airdrop[id].total_funded
        /\ s.total_claimed <= airdrop[id].total_claimed
        /\ \A n \in s.nullifiers : nullifier_record[id][n].claimed
    BY <1>1 DEF Behind
  <1>8. /\ airdrop'[id] # Default
        /\ u.total_funded <= airdrop'[id].total_funded
        /\ u.total_claimed <= airdrop'[id].total_claimed
    BY <1>2, <1>6, <1>7
  <1>9. \A n \in u.nullifiers : nullifier_record'[id][n].claimed
    BY <1>2, <1>4, <1>7
  <1>10. ~ Active(id)'
    BY <1>6 DEF Active
  <1>11. Behind(u)'
    BY <1>2, <1>8, <1>9, <1>10 DEF Behind
  <1>12. Updated(c)' = u
    BY <1>2 DEF Updated
  <1> QED BY <1>11, <1>12

LEMMA IncludedClaimIsBehind ==
    ASSUME TypeOK, TypeOK', TablesKnown,
           NEW c \in Commands, c.job.kind = "claim", JobOK(c), Behind(c.loaded),
           NEW dest, NEW now,
           claim_ppe(c.loaded.airdrop_id, c.job.row.bucket_id, h_null(c.job.row.salt), dest,
                     c.job.row.address, c.job.row.salt, now)
    PROVE  Behind(Updated(c))'
  <1>1. PICK id \in AirdropIds, s \in LocalAirdropState : id = s.airdrop_id /\ s = c.loaded
    BY DEF Commands, LocalAirdropState
  <1>2. PICK n \in Nullifiers, amount \in 0 .. U64Max :
          n = h_null(c.job.row.salt) /\ amount = ClaimAmount(id, c.job.row)
    BY <1>1, LocalRowsTyped DEF JobOK
  <1>3. airdrop[id] \in AirdropState /\ U64Max \in Nat
    BY <1>1, ConstantsAssumption DEF claim_ppe, ensure_active, TypeOK, claim_ppe_checks,
       witness_checks
  <1>4. amount = BucketAmount(id, c.job.row.bucket_id)
    <2>1. airdrop[id] # Default
      BY <1>3, ConstantsAssumption
    <2> QED BY <1>2, <2>1 DEF TablesKnown, ClaimAmount, BucketAmount
  <1>5. PICK t : t = airdrop[id].total_claimed + amount
    BY Zenon
  <1>6. /\ airdrop' = [airdrop EXCEPT ![id] = [airdrop[id] EXCEPT !.total_claimed = t]]
        /\ t <= U64Max
        /\ SpendNullifier(id, n, 0)
    BY <1>1, <1>2, <1>4, <1>5 DEF claim_ppe, Debit, VaultCovers, checked_add_u64,
       claim_ppe_checks, witness_checks
  <1>7. airdrop'[id] = [airdrop[id] EXCEPT !.total_claimed = t]
    BY <1>6 DEF TypeOK
  <1>8. t \in 0 .. U64Max
    BY <1>3, <1>5, <1>6 DEF AirdropState
  <1>9. airdrop'[id] \in AirdropState /\ airdrop'[id] # Default
    <2>1. airdrop'[id] \in AirdropState
      BY <1>3, <1>7, <1>8 DEF AirdropState
    <2> QED BY <2>1, ConstantsAssumption
  <1>10. /\ airdrop'[id].total_claimed = t
         /\ airdrop'[id].total_funded = airdrop[id].total_funded
         /\ airdrop'[id].status = airdrop[id].status
    BY <1>3, <1>7 DEF AirdropState
  <1>11. PICK u : /\ u = Updated(c)
                  /\ u.airdrop_id = id
                  /\ u.total_funded = s.total_funded
                  /\ u.total_claimed = s.total_claimed + amount
                  /\ u.nullifiers = s.nullifiers \cup {n}
                  /\ u.status = s.status
    <2>1. PICK v, ns : v = s.total_claimed + amount /\ ns = s.nullifiers \cup {n}
      OBVIOUS
    <2>2. Updated(c) = [s EXCEPT !.total_claimed = v, !.nullifiers = ns]
      BY <1>1, <1>2, <2>1 DEF Updated
    <2> QED BY <1>1, <2>1, <2>2 DEF LocalAirdropState
  <1>12. /\ s.total_funded <= airdrop[id].total_funded
         /\ s.total_claimed <= airdrop[id].total_claimed
         /\ \A m \in s.nullifiers : nullifier_record[id][m].claimed
    BY <1>1 DEF Behind
  <1>13. u.total_claimed <= airdrop'[id].total_claimed
    <2>1. s.total_claimed \in Int /\ airdrop[id].total_claimed \in Int /\ amount \in Int
      BY <1>3 DEF LocalAirdropState, AirdropState
    <2> QED BY <1>5, <1>10, <1>11, <1>12, <2>1
  <1>14. \A m \in u.nullifiers : nullifier_record'[id][m].claimed
    <2>1. s.nullifiers \subseteq Nullifiers
      BY DEF LocalAirdropState
    <2>2. nullifier_record'[id] = [nullifier_record[id] EXCEPT ![n] =
              [claimed |-> TRUE, balance |-> nullifier_record[id][n].balance + 0]]
      BY <1>6 DEF SpendNullifier, TypeOK
    <2>3. nullifier_record'[id][n].claimed
      BY <2>2 DEF TypeOK
    <2>4. \A m \in Nullifiers \ {n} : nullifier_record'[id][m] = nullifier_record[id][m]
      BY <2>2 DEF TypeOK
    <2> QED BY <1>11, <1>12, <2>1, <2>3, <2>4
  <1>15. ClosesOnChain /\ u.status = "closed" => ~ Active(id)'
    BY <1>1, <1>9, <1>10, <1>11 DEF Behind, Active
  <1> QED BY <1>9, <1>10, <1>11, <1>12, <1>13, <1>14, <1>15 DEF Behind

LEMMA OwnTransactionIsBehind ==
    ASSUME TypeOK, TypeOK', LocalInv, BehindInv, NEW tx \in pending,
           IncludeSigned(tx) \/ IncludeClaim(tx),
           NEW p \in Processes, command[p] # Idle,
           tx.attempt = command[p].attempt, tx.kind = command[p].job.kind,
           NEW c, c = command[p]
    PROVE  Behind(Updated(c))'
  <1>1. c \in Commands /\ JobOK(c) /\ CommandBehind(c) /\ Matches(tx, c) /\ TablesKnown
    BY DEF LocalInv, CommandsOK, BehindInv, SentByCommands
  <1>2. CASE tx.kind = "claim"
    <2>1. claim_ppe(tx.id, tx.row.bucket_id, h_null(tx.row.salt), tx.dest,
                    tx.row.address, tx.row.salt, tx.now)
      BY <1>2 DEF IncludeSigned, IncludeClaim
    <2>2. c.job.kind = "claim" /\ tx.id = c.loaded.airdrop_id /\ tx.row = c.job.row
      BY <1>1, <1>2 DEF Matches
    <2>3. Behind(c.loaded)
      BY <1>1, <2>2 DEF CommandBehind
    <2> QED BY <1>1, <2>1, <2>2, <2>3, IncludedClaimIsBehind
  <1>3. CASE tx.kind # "claim"
    <2>1. Execute(tx) /\ tx.id = c.loaded.airdrop_id
      BY <1>1, <1>3 DEF IncludeSigned, IncludeClaim, Matches
    <2>2. CASE tx.kind = "init"
      BY <1>1, <2>1, <2>2, IncludedInitIsBehind DEF Execute, CommandBehind
    <2>3. CASE tx.kind = "fund"
      BY <1>1, <2>1, <2>3, IncludedFundIsBehind DEF Execute, CommandBehind, Matches
    <2>4. CASE tx.kind = "close"
      BY <1>1, <2>1, <2>4, IncludedCloseIsBehind DEF Execute, CommandBehind
    <2>5. tx.kind # "deposit"
      BY <1>1 DEF Commands, Jobs
    <2> QED BY <2>1, <2>2, <2>3, <2>4, <2>5 DEF Execute
  <1> QED BY <1>2, <1>3

LEMMA UpdatedCountable ==
    ASSUME NEW c \in Commands, JobOK(c)
    PROVE  Countable(c.loaded) /\ Countable(Updated(c))
  <1>1. c.job \in Jobs /\ c.loaded \in LocalAirdropState /\ U64Max \in Nat
    BY ConstantsAssumption DEF Commands
  <1>2. Countable(c.loaded)
    BY <1>1 DEF LocalAirdropState, Countable
  <1>3. CASE c.job.kind = "init"
    BY <1>2, <1>3 DEF Updated
  <1>4. CASE c.job.kind = "fund"
    <2>1. PICK t : t = c.loaded.total_funded + c.job.amount
      OBVIOUS
    <2>2. Updated(c) = [c.loaded EXCEPT !.total_funded = t]
      BY <1>4, <2>1 DEF Updated
    <2>3. c.job.amount \in FundAmounts
      BY <1>1, <1>4 DEF Jobs
    <2>4. t \in Int
      <3>1. c.job.amount \in Nat
        BY <2>3, LocalAssumption
      <3>2. c.loaded.total_funded \in Int
        BY <1>2 DEF Countable
      <3> QED BY <2>1, <3>1, <3>2
    <2> QED BY <1>1, <1>2, <2>2, <2>4 DEF LocalAirdropState, Countable
  <1>5. CASE c.job.kind = "claim"
    <2>1. c.job.row \in LocalArgs[c.loaded.airdrop_id].merkle_root /\ c.loaded.airdrop_id \in AirdropIds
      BY <1>2, <1>5 DEF JobOK, Countable
    <2>2. /\ ClaimAmount(c.loaded.airdrop_id, c.job.row) \in 0 .. U64Max
          /\ h_null(c.job.row.salt) \in Nullifiers
      BY <2>1, LocalRowsTyped
    <2>3. PICK t, ns : /\ t = c.loaded.total_claimed + ClaimAmount(c.loaded.airdrop_id, c.job.row)
                       /\ ns = c.loaded.nullifiers \cup {h_null(c.job.row.salt)}
      OBVIOUS
    <2>4. Updated(c) = [c.loaded EXCEPT !.total_claimed = t, !.nullifiers = ns]
      BY <1>5, <2>3 DEF Updated
    <2>5. t \in Int /\ ns \subseteq Nullifiers
      BY <1>1, <1>2, <2>2, <2>3 DEF Countable
    <2> QED BY <1>1, <1>2, <2>4, <2>5 DEF LocalAirdropState, Countable
  <1>6. CASE c.job.kind = "close"
    <2>1. Updated(c) = [c.loaded EXCEPT !.status = "closed"]
      BY <1>6 DEF Updated
    <2> QED BY <1>1, <1>2, <2>1 DEF LocalAirdropState, Countable
  <1> QED BY <1>1, <1>2, <1>3, <1>4, <1>5, <1>6 DEF Jobs

LEMMA TablesStayKnown ==
    ASSUME TypeOK, TypeOK', LocalInv, TablesKnown, Ledger
    PROVE  TablesKnown'
  <1>1. [Next]_vars
    BY LocalStepIsProgramStep DEF LocalNext
  <1>2. SUFFICES ASSUME NEW id \in AirdropIds, airdrop'[id] # Default
                 PROVE  airdrop'[id].bucket_table = LocalArgs[id].bucket_table
    BY DEF TablesKnown
  <1>3. CASE airdrop[id] # Default
    BY <1>1, <1>3, LedgerGrows DEF TablesKnown
  <1>4. CASE airdrop[id] = Default
    <2>1. CASE \E tx \in pending : IncludeSigned(tx)
      <3>1. PICK tx \in pending : IncludeSigned(tx)
        BY <2>1
      <3>2. tx.id \in AirdropIds /\ Execute(tx)
        BY <3>1 DEF LocalInv, TxOK, IncludeSigned
      <3>3. CASE init_airdrop(tx.id, LocalDistributor, LocalArgs[tx.id])
        <4>1. /\ airdrop'[tx.id].bucket_table = LocalArgs[tx.id].bucket_table
              /\ \A i \in AirdropIds \ {tx.id} : airdrop'[i] = airdrop[i]
          BY <3>2, <3>3, InitCreates, LocalAssumption
        <4> QED BY <1>2, <1>4, <4>1
      <3>4. CASE ~ init_airdrop(tx.id, LocalDistributor, LocalArgs[tx.id])
        <4>1. airdrop'[id] = airdrop[id]
          BY <1>4, <3>2, <3>4 DEF Execute, transfer, fund, ensure_active,
             close, ensure_distributor, Sweep, TypeOK, close_checks
        <4> QED BY <1>2, <1>4, <4>1
      <3> QED BY <3>3, <3>4
    <2>2. CASE \E tx \in pending : IncludeClaim(tx)
      <3>1. airdrop'[id] = airdrop[id]
        BY <1>4, <2>2 DEF IncludeClaim, claim_ppe, ensure_active, Debit, TypeOK,
           claim_ppe_checks, witness_checks
      <3> QED BY <1>2, <1>4, <3>1
    <2>3. CASE (\E tx \in pending : IncludeSettlement(tx)) \/ Tick
      BY <1>2, <1>4, <2>3 DEF IncludeSettlement, Tick, vars
    <2> QED BY <2>1, <2>2, <2>3 DEF Ledger
  <1> QED BY <1>3, <1>4

LEMMA LedgerKeepsBehind ==
    ASSUME TypeOK, TypeOK', LocalInv, BehindInv, Ledger
    PROVE  BehindInv'
  <1>1. [Next]_vars
    BY LocalStepIsProgramStep DEF LocalNext
  <1>2. UNCHANGED <<state_json, command, attempts>>
    BY DEF Ledger, IncludeSigned, IncludeClaim, IncludeSettlement, Include, localVars
  <1>3. /\ pending' \cup included' \subseteq pending \cup included
        /\ \A tx \in included' \ included :
             /\ tx \in pending
             /\ IncludeSigned(tx) \/ IncludeClaim(tx) \/ tx.kind = "settle"
    BY DEF Ledger, IncludeSigned, IncludeClaim, IncludeSettlement, Include, localVars
  <1>4. TablesKnown'
    BY TablesStayKnown DEF BehindInv
  <1>5. (state_json # Missing => Behind(state_json))'
    <2>1. CASE state_json # Missing
      <3>1. PICK s \in LocalAirdropState : s = state_json
        BY <2>1 DEF LocalInv, LocalTypeOK
      <3>2. Countable(s) /\ Behind(s)
        BY <2>1, <3>1, ConstantsAssumption DEF BehindInv, LocalAirdropState, Countable
      <3>3. Behind(s)'
        BY <1>1, <3>2, BehindStays
      <3> QED BY <1>2, <3>1, <3>3
    <2> QED BY <1>2, <2>1
  <1>6. ASSUME NEW p \in Processes, command'[p] # Idle
        PROVE  CommandBehind(command[p])'
    <2>1. PICK c \in Commands : c = command[p]
      BY <1>2, <1>6 DEF LocalInv, CommandsOK
    <2>2. JobOK(c) /\ CommandBehind(c) /\ command'[p] = c /\ command[p] # Idle
      BY <1>2, <1>6, <2>1 DEF LocalInv, CommandsOK, BehindInv
    <2>3. Countable(c.loaded) /\ Countable(Updated(c))
      BY <2>2, UpdatedCountable
    <2>4. Behind(c.loaded) => Behind(c.loaded)'
      BY <1>1, <2>3, BehindStays
    <2>5. Behind(Updated(c)) => Behind(Updated(c))'
      BY <1>1, <2>3, BehindStays
    <2>6. ASSUME NEW tx \in included', tx.attempt = c.attempt, tx.kind = c.job.kind
          PROVE  Behind(Updated(c))'
      <3>1. CASE tx \in included
        BY <2>2, <2>5, <2>6, <3>1 DEF CommandBehind
      <3>2. CASE tx \notin included
        <4>1. tx.kind # "settle"
          BY <2>6 DEF Commands, Jobs
        <4>2. tx \in pending /\ (IncludeSigned(tx) \/ IncludeClaim(tx))
          BY <1>3, <2>6, <3>2, <4>1
        <4> QED BY <2>1, <2>2, <2>6, <4>2, OwnTransactionIsBehind
      <3> QED BY <3>1, <3>2
    <2>7. CommandBehind(c)'
      BY <2>2, <2>4, <2>5, <2>6 DEF CommandBehind
    <2> QED BY <2>2, <2>7
  <1>7. AttemptsDistinct' /\ SentByCommands'
    BY <1>2, <1>3 DEF BehindInv, AttemptsDistinct, SentByCommands, Matches
  <1> QED BY <1>4, <1>5, <1>6, <1>7 DEF BehindInv

-----------------------------------------------------------------------------
LEMMA LocalInitIsBehind == LocalInit => BehindInv
  BY DEF LocalInit, Init, BehindInv, TablesKnown, AttemptsDistinct, SentByCommands

LEMMA BehindInvIsInductive ==
    (TypeOK /\ Solvent /\ LocalInv /\ BehindInv) /\ [LocalNext]_allVars
        => (TypeOK /\ Solvent /\ LocalInv /\ BehindInv)'
  <1> SUFFICES ASSUME TypeOK, Solvent, LocalInv, BehindInv, [LocalNext]_allVars
               PROVE  (TypeOK /\ Solvent /\ LocalInv /\ BehindInv)'
    OBVIOUS
  <1>1. TypeOK' /\ Solvent' /\ LocalInv'
    BY LocalNextPreservesInv
  <1>2. CASE \E p \in Processes : StartCommand(p)
    BY <1>1, <1>2, StartCommandKeepsBehind
  <1>3. CASE \E p \in Processes : Advance(p) \/ abandon(p)
    BY <1>1, <1>3, AdvanceKeepsBehind
  <1>4. CASE Ledger
    BY <1>1, <1>4, LedgerKeepsBehind
  <1>5. CASE UNCHANGED allVars
    <2>1. BehindInv'
      BY <1>5 DEF BehindInv, TablesKnown, CommandBehind, Behind, Active, AttemptsDistinct,
                  SentByCommands, Matches, allVars, localVars, vars
    <2> QED BY <1>1, <2>1
  <1> QED BY <1>2, <1>3, <1>4, <1>5 DEF LocalNext

\* state.json never records what the ledger has not done, for any number of
\* commands that overlap, repeat, time out before a late inclusion or die
\* between inclusion and save.
THEOREM StateFileNeverAhead == LocalSpec => []LocalNeverAhead
  <1>1. LocalInit => TypeOK /\ Solvent /\ LocalInv /\ BehindInv
    BY InitEstablishesInv, LocalInitEstablishesInv, LocalInitIsBehind DEF LocalInit
  <1>2. BehindInv => LocalNeverAhead
    BY DEF BehindInv, Behind, LocalNeverAhead
  <1> QED BY <1>1, <1>2, BehindInvIsInductive, PTL DEF LocalSpec

\* What a save changes.
LEMMA UpdatedMeans ==
    ASSUME NEW c \in Commands
    PROVE  /\ Updated(c).airdrop_id = c.loaded.airdrop_id
           /\ c.job.kind = "init" => Updated(c) = c.loaded
           /\ Updated(c).total_funded =
                IF c.job.kind = "fund" THEN c.loaded.total_funded + c.job.amount
                ELSE c.loaded.total_funded
           /\ Updated(c).total_claimed =
                IF c.job.kind = "claim"
                THEN c.loaded.total_claimed + ClaimAmount(c.loaded.airdrop_id, c.job.row)
                ELSE c.loaded.total_claimed
           /\ Updated(c).nullifiers =
                IF c.job.kind = "claim" THEN c.loaded.nullifiers \cup {h_null(c.job.row.salt)}
                ELSE c.loaded.nullifiers
           /\ Updated(c).status = IF c.job.kind = "close" THEN "closed" ELSE c.loaded.status
  <1>1. c.job \in Jobs /\ c.loaded \in LocalAirdropState
    BY DEF Commands
  <1>2. CASE c.job.kind = "init"
    BY <1>2 DEF Updated
  <1>3. CASE c.job.kind = "fund"
    <2>1. PICK t : t = c.loaded.total_funded + c.job.amount
      OBVIOUS
    <2>2. Updated(c) = [c.loaded EXCEPT !.total_funded = t]
      BY <1>3, <2>1 DEF Updated
    <2> QED BY <1>1, <1>3, <2>1, <2>2 DEF LocalAirdropState
  <1>4. CASE c.job.kind = "claim"
    <2>1. PICK t, ns : /\ t = c.loaded.total_claimed + ClaimAmount(c.loaded.airdrop_id, c.job.row)
                       /\ ns = c.loaded.nullifiers \cup {h_null(c.job.row.salt)}
      OBVIOUS
    <2>2. Updated(c) = [c.loaded EXCEPT !.total_claimed = t, !.nullifiers = ns]
      BY <1>4, <2>1 DEF Updated
    <2> QED BY <1>1, <1>4, <2>1, <2>2 DEF LocalAirdropState
  <1>5. CASE c.job.kind = "close"
    <2>1. Updated(c) = [c.loaded EXCEPT !.status = "closed"]
      BY <1>5 DEF Updated
    <2> QED BY <1>1, <1>5, <2>1 DEF LocalAirdropState
  <1> QED BY <1>1, <1>2, <1>3, <1>4, <1>5 DEF Jobs

\* A command that comes to its save can take it: its transaction was included, so
\* what it adds up is at most the ledger's total, which is a u64.
SavesFit ==
    \A p \in Processes : At(p, "save") => /\ Updated(command[p]).total_funded <= U64Max
                                          /\ Updated(command[p]).total_claimed <= U64Max

\* The checked additions of a save (commands.rs) never overflow, whatever the
\* other commands did to the file and the ledger since the command read it.
THEOREM SavesNeverOverflow == LocalSpec => []SavesFit
  <1>1. LocalInit => TypeOK /\ Solvent /\ LocalInv /\ BehindInv
    BY InitEstablishesInv, LocalInitEstablishesInv, LocalInitIsBehind DEF LocalInit
  <1>2. TypeOK /\ LocalInv /\ BehindInv => SavesFit
    <2> SUFFICES ASSUME TypeOK, LocalInv, BehindInv, NEW p \in Processes, At(p, "save")
                 PROVE  /\ Updated(command[p]).total_funded <= U64Max
                        /\ Updated(command[p]).total_claimed <= U64Max
      BY DEF SavesFit
    <2> DEFINE c == command[p]
               s == Updated(c)
               id == c.loaded.airdrop_id
    <2>1. c \in Commands /\ c # Idle /\ JobOK(c) /\ Behind(s)
      BY DEF At, LocalInv, CommandsOK, BehindInv, CommandBehind
    <2>2. id \in AirdropIds /\ s.airdrop_id = id
      BY <2>1, UpdatedMeans DEF Commands, LocalAirdropState
    <2>3. airdrop[id] \in AirdropState
      BY <2>1, <2>2 DEF Behind, TypeOK
    <2>4. airdrop[id].total_funded \in 0 .. U64Max /\ airdrop[id].total_claimed \in 0 .. U64Max
      BY <2>3 DEF AirdropState
    <2>5. /\ s.total_funded <= airdrop[id].total_funded
          /\ s.total_claimed <= airdrop[id].total_claimed
      BY <2>1, <2>2 DEF Behind
    <2>6. s.total_funded \in Nat /\ s.total_claimed \in Nat
      <3>1. c.job \in Jobs /\ c.loaded \in LocalAirdropState
        BY <2>1 DEF Commands
      <3>2. c.job.kind = "fund" => c.job.amount \in Nat
        BY <3>1, LocalAssumption DEF Jobs
      <3>3. c.job.kind = "claim" => ClaimAmount(id, c.job.row) \in Nat
        <4> SUFFICES ASSUME c.job.kind = "claim" PROVE ClaimAmount(id, c.job.row) \in Nat
          OBVIOUS
        <4>1. c.job.row \in LocalArgs[id].merkle_root
          BY <2>1 DEF JobOK
        <4>2. ClaimAmount(id, c.job.row) \in 0 .. U64Max
          BY <2>2, <4>1, LocalRowsTyped
        <4> QED BY <4>2, ConstantsAssumption
      <3>4. c.loaded.total_funded \in Nat /\ c.loaded.total_claimed \in Nat
        BY <3>1, ConstantsAssumption DEF LocalAirdropState
      <3>5. /\ s.total_funded = IF c.job.kind = "fund"
                               THEN c.loaded.total_funded + c.job.amount ELSE c.loaded.total_funded
            /\ s.total_claimed = IF c.job.kind = "claim"
                                THEN c.loaded.total_claimed + ClaimAmount(id, c.job.row)
                                ELSE c.loaded.total_claimed
        BY <2>1, UpdatedMeans
      <3> HIDE DEF s, c, id
      <3> QED BY <3>2, <3>3, <3>4, <3>5
    <2> HIDE DEF id
    <2> QED BY <2>4, <2>5, <2>6, ConstantsAssumption
  <1> QED BY <1>1, <1>2, BehindInvIsInductive, PTL DEF LocalSpec

-----------------------------------------------------------------------------
(* Commands end.  A step of a command lowers what is left of it, a step of     *)
(* anybody else leaves it alone, and no stage is more than eight steps long.   *)

StepsLeft(c) ==
    IF c = Idle THEN 0
    ELSE IF c.step = "save" THEN 1
    ELSE IF c.step = "settle_wait" THEN 2
    ELSE IF c.step = "settle" THEN 3
    ELSE IF c.step = "wait" THEN 4
    ELSE IF c.step = "submit" THEN 5
    ELSE IF c.step = "transfer_wait" THEN 6
    ELSE IF c.step = "transfer" THEN 7
    ELSE 8

Left(p) == StepsLeft(command[p])

LEMMA LeftTyped ==
    ASSUME LocalInv, NEW p \in Processes
    PROVE  Left(p) \in 0 .. 8 /\ (Left(p) = 0 <=> command[p] = Idle)
  <1>1. command[p] \in Commands \cup {Idle}
    BY DEF LocalInv, CommandsOK
  <1>2. command[p] # Idle => command[p].step \in Steps
    BY <1>1 DEF Commands
  <1> QED BY <1>2 DEF Left, StepsLeft, Steps

LEMMA GotoLowers ==
    ASSUME LocalInv, NEW p \in Processes, command[p] # Idle, NEW step \in Steps,
           Goto(p, step), StepsLeft([command[p] EXCEPT !.step = step]) < Left(p)
    PROVE  Left(p)' < Left(p)
  <1>1. command'[p] = [command[p] EXCEPT !.step = step]
    BY DEF LocalInv, CommandsOK, Goto
  <1> QED BY <1>1 DEF Left

\* The stage a command is at once its step is replaced.
LEMMA StageOf ==
    ASSUME LocalInv, NEW p \in Processes, command[p] # Idle, NEW step \in Steps
    PROVE  LET c == [command[p] EXCEPT !.step = step]
           IN  c # Idle /\ c.step = step /\ c \in Commands
  <1>1. command[p] \in Commands
    BY DEF LocalInv, CommandsOK
  <1>2. [command[p] EXCEPT !.step = step] \in Commands
    BY <1>1 DEF Commands
  <1>3. [command[p] EXCEPT !.step = step].step = step
    BY <1>1 DEF Commands
  <1> QED BY <1>2, <1>3, IdleIsNoCommand

\* Each step a command takes, an error or a kill included, brings it nearer its end.
LEMMA AdvanceLowers ==
    ASSUME LocalInv, NEW p \in Processes, Advance(p) \/ abandon(p)
    PROVE  command[p] # Idle /\ Left(p)' < Left(p)
  <1> DEFINE c == command[p]
  <1>0. command \in [Processes -> Commands \cup {Idle}]
    BY DEF LocalInv, CommandsOK
  <1>1. c # Idle
    BY DEF Advance, prefund_read, prefund_transfer, prefund_wait, submit, confirm,
           settle_claim_tokens, settle_confirm, save_state, time_out, abandon, At
  <1>2. ASSUME NEW from \in Steps, NEW to \in Steps, c.step = from, Goto(p, to),
               \/ from = "prefund" /\ to = "submit"
               \/ from = "transfer" /\ to = "transfer_wait"
               \/ from = "transfer_wait" /\ to = "submit"
               \/ from = "submit" /\ to = "wait"
               \/ from = "wait" /\ to \in {"settle", "save"}
               \/ from = "settle" /\ to = "settle_wait"
               \/ from = "settle_wait" /\ to = "save"
        PROVE  Left(p)' < Left(p)
    <2> DEFINE d == [c EXCEPT !.step = to]
    <2>1. d # Idle /\ d.step = to
      BY <1>1, StageOf
    <2> HIDE DEF d
    <2>2. StepsLeft(d) < StepsLeft(c)
      BY <1>1, <1>2, <2>1 DEF StepsLeft
    <2>3. StepsLeft([command[p] EXCEPT !.step = to]) < Left(p)
      BY <2>2 DEF d, Left
    <2> QED BY <1>1, <1>2, <2>3, GotoLowers
  <1>3. ASSUME command' = [command EXCEPT ![p] = Idle]
        PROVE  Left(p)' < Left(p)
    <2>1. command'[p] = Idle
      BY <1>0, <1>3
    <2>2. Left(p)' = 0 /\ Left(p) \in 0 .. 8 /\ Left(p) # 0
      BY <1>1, <2>1, LeftTyped DEF Left, StepsLeft
    <2> QED BY <2>2
  <1>4. CASE prefund_read(p)
    <2>1. CASE Goto(p, "submit")
      BY <1>2, <1>4, <2>1 DEF prefund_read, At, Steps
    <2>2. CASE \E n : command' = [command EXCEPT ![p].step = "transfer", ![p].deposit = n]
      <3>1. PICK n : command' = [command EXCEPT ![p].step = "transfer", ![p].deposit = n]
        BY <2>2
      <3>2. command'[p] = [[c EXCEPT !.step = "transfer"] EXCEPT !.deposit = n]
        BY <1>0, <3>1
      <3>3. [c EXCEPT !.step = "transfer"].step = "transfer"
        BY <1>1, StageOf DEF Steps
      <3>4. [c EXCEPT !.step = "transfer"] \in Commands
        BY <1>1, StageOf DEF Steps
      <3>5. command'[p].step = "transfer" /\ command'[p] # Idle
        <4>1. PICK e \in Commands : e = [c EXCEPT !.step = "transfer"]
          BY <3>4
        <4>2. e.step = "transfer" /\ DOMAIN e = {"step", "job", "loaded", "attempt", "deposit"}
          BY <3>3, <4>1 DEF Commands
        <4>3. [e EXCEPT !.deposit = n].step = "transfer"
          BY <4>2
        <4>4. DOMAIN [e EXCEPT !.deposit = n] # DOMAIN Idle
          BY <4>2 DEF Idle
        <4> QED BY <3>2, <4>1, <4>3, <4>4
      <3>6. Left(p)' = 7
        BY <3>5 DEF Left, StepsLeft
      <3>7. Left(p) = 8
        BY <1>1, <1>4 DEF Left, StepsLeft, prefund_read, At
      <3> QED BY <1>1, <3>6, <3>7
    <2> QED BY <1>4, <2>1, <2>2 DEF prefund_read
  <1>5. CASE prefund_transfer(p)
    BY <1>2, <1>5 DEF prefund_transfer, At, Send, Steps
  <1>6. CASE prefund_wait(p)
    BY <1>2, <1>6 DEF prefund_wait, At, Proceed, Steps
  <1>7. CASE submit(p)
    BY <1>2, <1>7 DEF submit, At, Send, Steps
  <1>8. CASE confirm(p)
    <2>1. PICK to \in {"settle", "save"} : Goto(p, to)
      BY <1>8 DEF confirm, Proceed
    <2> QED BY <1>2, <1>8, <2>1 DEF confirm, At, Steps
  <1>9. CASE settle_claim_tokens(p)
    BY <1>2, <1>9 DEF settle_claim_tokens, At, Send, Steps
  <1>10. CASE settle_confirm(p)
    BY <1>2, <1>10 DEF settle_confirm, At, Proceed, Steps
  <1>11. CASE save_state(p) \/ abandon(p)
    BY <1>1, <1>3, <1>11 DEF save_state, abandon, End
  <1> QED BY <1>1, <1>4, <1>5, <1>6, <1>7, <1>8, <1>9, <1>10, <1>11, TimeOutEnds DEF Advance

\* Nobody else touches what a command is doing.
LEMMA OthersLeaveCommand ==
    ASSUME LocalInv, NEW p \in Processes, command[p] # Idle,
           [LocalNext]_allVars, ~ Advance(p), ~ abandon(p)
    PROVE  command'[p] = command[p]
  <1>0. command \in [Processes -> Commands \cup {Idle}]
    BY DEF LocalInv, CommandsOK
  <1>1. ASSUME NEW q \in Processes, StartCommand(q)
        PROVE  command'[p] = command[p]
    <2>1. \E c : command' = [command EXCEPT ![q] = c]
      BY <1>1 DEF StartCommand, init, fund_command, claim_command, close_command, Start
    <2>2. command[q] = Idle
      BY <1>1 DEF StartCommand, init, fund_command, claim_command, close_command, Start
    <2> QED BY <1>0, <2>1, <2>2
  <1>2. ASSUME NEW q \in Processes, Advance(q) \/ abandon(q)
        PROVE  command'[p] = command[p]
    <2>1. q # p
      BY <1>2
    <2>2. \A r \in Processes : r # q => command'[r] = command[r]
      BY <1>0, <1>2 DEF Advance, prefund_read, prefund_transfer, prefund_wait, submit, confirm,
           settle_claim_tokens, settle_confirm, save_state, time_out, abandon, End, Send,
           Proceed, Goto
    <2> QED BY <2>1, <2>2
  <1>3. CASE Ledger \/ UNCHANGED allVars
    BY <1>3 DEF Ledger, IncludeSigned, IncludeClaim, IncludeSettlement, Include,
                allVars, localVars
  <1> QED BY <1>1, <1>2, <1>3 DEF LocalNext

\* A running command only ever goes forward.
CommandsGoForward ==
    [][\A p \in Processes : command[p] # Idle =>
         command'[p] = command[p] \/ Left(p)' < Left(p)]_allVars

LEMMA LocalInvHolds == LocalSpec => [](TypeOK /\ Solvent /\ LocalInv)
  <1>1. LocalInit => TypeOK /\ Solvent /\ LocalInv
    BY InitEstablishesInv, LocalInitEstablishesInv DEF LocalInit
  <1>2. TypeOK /\ Solvent /\ LocalInv /\ [LocalNext]_allVars
            => (TypeOK /\ Solvent /\ LocalInv)'
    BY LocalNextPreservesInv
  <1> QED BY <1>1, <1>2, PTL DEF LocalSpec

\* Whatever anybody does, a running command stays where it is or has fewer steps
\* left, so it takes at most eight and sends each of its transactions once
\* (local-submit.sh).
THEOREM CommandsOnlyGoForward == LocalSpec => CommandsGoForward
  <1> DEFINE Forward == \A p \in Processes : command[p] # Idle =>
                          command'[p] = command[p] \/ Left(p)' < Left(p)
  <1>1. LocalInv /\ [LocalNext]_allVars => [Forward]_allVars
    BY AdvanceLowers, OthersLeaveCommand
  <1> QED BY <1>1, LocalInvHolds, PTL DEF LocalSpec, CommandsGoForward

\* One stage: with the fairness of its process, a command with at most n steps
\* left comes to have at most m, one fewer.
Drops(p, n, m) == Left(p) <= n ~> Left(p) <= m

LEMMA StageEnds ==
    ASSUME NEW p \in Processes, NEW n \in 1 .. 8, NEW m \in 0 .. 7, m + 1 = n
    PROVE  FairLocalSpec /\ []NoCommandStuck => Drops(p, n, m)
  <1>a. LocalInv => Left(p) \in 0 .. 8 /\ (Left(p) = 0 <=> command[p] = Idle)
    BY LeftTyped
  <1>b. LocalInv' => (Left(p) \in 0 .. 8)'
    BY <1>a, PTL
  <1>1. FairLocalSpec => RunsOn(p)
    BY DEF FairLocalSpec
  <1>2. LocalInv /\ NoCommandStuck /\ ~ Left(p) <= m => ENABLED <<Advance(p)>>_allVars
    <2> SUFFICES ASSUME LocalInv, NoCommandStuck, ~ Left(p) <= m
                 PROVE  ENABLED <<Advance(p)>>_allVars
      OBVIOUS
    <2>1. command[p] # Idle
      BY LeftTyped
    <2> QED BY <2>1 DEF NoCommandStuck
  <1>3. LocalInv /\ LocalInv' /\ [LocalNext]_allVars /\ Left(p) <= n /\ ~ Left(p) <= m
            => (Left(p) <= n)'
    <2> SUFFICES ASSUME LocalInv, LocalInv', [LocalNext]_allVars,
                        Left(p) <= n, ~ Left(p) <= m
                 PROVE  Left(p)' <= n
      OBVIOUS
    <2>1. Left(p) \in 0 .. 8 /\ Left(p)' \in 0 .. 8 /\ command[p] # Idle
      BY <1>a, <1>b
    <2>2. Left(p)' = Left(p) \/ Left(p)' < Left(p)
      BY <2>1, AdvanceLowers, OthersLeaveCommand DEF Left
    <2> QED BY <2>1, <2>2
  <1>4. LocalInv /\ LocalInv' /\ <<Advance(p)>>_allVars /\ Left(p) <= n => (Left(p) <= m)'
    <2> SUFFICES ASSUME LocalInv, LocalInv', Advance(p), Left(p) <= n
                 PROVE  Left(p)' <= m
      OBVIOUS
    <2>1. Left(p) \in 0 .. 8 /\ Left(p)' \in 0 .. 8 /\ Left(p)' < Left(p)
      BY <1>a, <1>b, AdvanceLowers
    <2> QED BY <2>1
  <1>5. FairLocalSpec => [][LocalNext]_allVars /\ []LocalInv
    BY LocalInvHolds, PTL DEF FairLocalSpec, LocalSpec
  <1> QED BY <1>1, <1>2, <1>3, <1>4, <1>5, PTL DEF RunsOn, Drops

\* Every command ends, in every behaviour in which live processes go on.  What no
\* prover here can look into, that a live command has a step to take, is the
\* hypothesis.
THEOREM CommandsEnd == FairLocalSpec /\ []NoCommandStuck => EveryCommandEnds
  <1> SUFFICES ASSUME NEW p \in Processes
               PROVE  FairLocalSpec /\ []NoCommandStuck
                        => (command[p] # Idle ~> command[p] = Idle)
    BY DEF EveryCommandEnds
  <1> DEFINE Live == FairLocalSpec /\ []NoCommandStuck
  <1>8. Live => Drops(p, 8, 7)
    BY StageEnds
  <1>7. Live => Drops(p, 7, 6)
    BY StageEnds
  <1>6. Live => Drops(p, 6, 5)
    BY StageEnds
  <1>5. Live => Drops(p, 5, 4)
    BY StageEnds
  <1>4. Live => Drops(p, 4, 3)
    BY StageEnds
  <1>3. Live => Drops(p, 3, 2)
    BY StageEnds
  <1>2. Live => Drops(p, 2, 1)
    BY StageEnds
  <1>1. Live => Drops(p, 1, 0)
    BY StageEnds
  <1>9. LocalInv => Left(p) <= 8 /\ (Left(p) <= 0 => command[p] = Idle)
    BY LeftTyped
  <1>10. Live => []LocalInv
    BY LocalInvHolds, PTL DEF FairLocalSpec
  <1> QED BY <1>1, <1>2, <1>3, <1>4, <1>5, <1>6, <1>7, <1>8, <1>9, <1>10, PTL DEF Drops

=============================================================================
