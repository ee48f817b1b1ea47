------------------------------ MODULE CliState ------------------------------
(***************************************************************************)
(* The files distributionx-cli keeps under $DISTRIBUTIONX_STATE_DIR          *)
(* (crates/distributionx-cli/src/commands.rs): state.json (the airdrop used  *)
(* last), a named copy per airdrop, the registry airdrops.json, and the     *)
(* files a claim goes through: bundle.json, proof.json and claim.tx.         *)
(*                                                                         *)
(* Every file is written with fs::write, which truncates and then fills it: *)
(* a crash in between, or two writers at once, leave text no reader parses  *)
(* (Torn).  What a state says (totals, status, nullifiers) is abstracted to *)
(* the set of operations it counts.  No command takes a lock: commands may   *)
(* overlap, on one airdrop too, and a command may be killed at any point.   *)
(* When two commands that change one airdrop overlap, the one that saves    *)
(* last writes a state it read before the other saved, and the other's      *)
(* operation is lost.  Which operations ran that risk is recorded.           *)
(***************************************************************************)
EXTENDS Naturals, Sequences, FiniteSets

CONSTANTS
    Processes,           \* command runs that may be alive at once
    Names, Ids,          \* airdrop names, airdrop ids
    NamedFiles,          \* file names under states/
    safe_path_component, \* the file name a name becomes
    Rows,                \* rows of each airdrop's allowlist
    Packets,             \* whether claims are prepared for destination packets
    MaxCommands,         \* bound on the commands started, for model checking
    Crashes,             \* whether commands may be killed
    Absent, Torn         \* no file, a file nobody can parse

VARIABLES
    disk,                \* what each file holds
    process,             \* what each process is doing
    attempts,            \* commands started so far
    drawn,               \* airdrop ids init has drawn: salts are random, so each is new
    contested,           \* operations whose commands overlapped another that
                         \* changes the same airdrop, per airdrop id
    acked                \* the others that were reported OK, per airdrop id

\* acked and contested are for the properties only: no action reads them.
cliVars == <<disk, process, attempts, drawn, acked, contested>>

SharedFiles == {"state.json", "airdrops.json", "bundle.json", "proof.json", "claim.tx"}

Operations ==
    [kind: {"init", "fund"}, n: Nat] \cup
    [kind: {"claim"}, id: Ids, row: Rows]
States == [name: Names, airdrop_id: Ids, ops: SUBSET Operations]
\* A claim.tx made for a destination packet carries the private witness, the
\* others need a receipt.  proof.json is abstracted to the claim it proves.
ClaimFiles == [id: Ids, row: Rows, private: BOOLEAN, receipt: BOOLEAN]
Idle == [step |-> "idle"]

ASSUME CliAssumption ==
    /\ safe_path_component \in [Names -> NamedFiles]
    /\ NamedFiles \cap SharedFiles = {} /\ Names \cap Ids = {}
    /\ Packets \subseteq BOOLEAN /\ Crashes \in BOOLEAN /\ MaxCommands \in Nat
    /\ Absent # Torn

named_state_path(name) == safe_path_component[name]
Readable(file) == disk[file] \notin {Absent, Torn}

CliInit ==
    /\ disk = [file \in SharedFiles \cup NamedFiles |-> Absent]
    /\ process = [p \in Processes |-> Idle]
    /\ attempts = 0
    /\ drawn = {}
    /\ acked = [id \in Ids |-> {}]
    /\ contested = [id \in Ids |-> {}]

-----------------------------------------------------------------------------
(* Reading.                                                                 *)

ensure_airdrop(state, airdrop) == airdrop \in {state.name, state.airdrop_id}

load_registry == IF disk["airdrops.json"] = Absent THEN {} ELSE disk["airdrops.json"]

\* The file load_state_for reads in the end: state.json when it holds the
\* airdrop asked for, else the copy the registry points to.
SourceFile(airdrop) ==
    IF Readable("state.json") /\ ensure_airdrop(disk["state.json"], airdrop)
      THEN {"state.json"}
    ELSE IF disk["airdrops.json"] = Torn THEN {}
    ELSE {named_state_path(entry.name) :
            entry \in {e \in load_registry : ensure_airdrop(e, airdrop)}}

load_state_for(airdrop) == {disk[file] : file \in {f \in SourceFile(airdrop) : Readable(f)}}

\* What every command starts with: the state it will work on, if there is one.
Loaded(airdrop) == {state \in load_state_for(airdrop) : ensure_airdrop(state, airdrop)}

-----------------------------------------------------------------------------
(* Commands start.                                                          *)

\* Running commands that will save a state of the airdrop.
Rivals(id) ==
    {q \in Processes : /\ process[q].step \notin {"idle", "prove"}
                       /\ process[q].state.airdrop_id = id}

Start(p, c) ==
    /\ attempts' = attempts + 1
    /\ process' = [process EXCEPT ![p] = c]
    /\ drawn' = drawn \cup (IF c.step = "submit" THEN {c.state.airdrop_id} ELSE {})
    /\ contested' =
         IF c.step # "submit" \/ Rivals(c.state.airdrop_id) = {} THEN contested
         ELSE [contested EXCEPT ![c.state.airdrop_id] =
                 @ \cup {c.op} \cup {process[q].op : q \in Rivals(c.state.airdrop_id)}]
    /\ UNCHANGED <<disk, acked>>

Apply(state, op) == [state EXCEPT !.ops = @ \cup {op}]

\* A command that changes a state carries the state it will save.
Change(state, op, step, todo, tx) ==
    [step |-> step, state |-> Apply(state, op), op |-> op, todo |-> todo, open |-> FALSE, tx |-> tx]

\* init writes the bundle of the new airdrop first.
init(p, name, id) ==
    LET op == [kind |-> "init", n |-> attempts] IN
    /\ id \notin drawn
    /\ Start(p, Change([name |-> name, airdrop_id |-> id, ops |-> {}], op, "submit",
                       <<[file |-> "bundle.json", content |-> id]>>, Absent))

\* fund; close goes the same way (without a submit command it skips the adapter).
fund(p, airdrop) ==
    \E state \in Loaded(airdrop) :
      Start(p, Change(state, [kind |-> "fund", n |-> attempts], "submit", <<>>, Absent))

\* Faulty variant: the receipt file decides, whatever claim.tx holds.
CheckedClaim_ProofFile ==
    IF Readable("proof.json") THEN disk["proof.json"] ELSE disk["claim.tx"]

\* The claim it checks and will record: from claim.tx, or from proof.json when
\* claim.tx holds no private witness.
CheckedClaim ==
    IF disk["claim.tx"].private THEN disk["claim.tx"] ELSE disk["proof.json"]

\* Faulty variant: claim without the E_AIRDROP_ID_MISMATCH comparison.
claim_AnyAirdrop(p, airdrop) ==
    \E state \in Loaded(airdrop) :
      /\ Readable("claim.tx")
      /\ disk["claim.tx"].private \/ Readable("proof.json")
      /\ LET op == [kind |-> "claim", id |-> CheckedClaim.id, row |-> CheckedClaim.row]
         IN /\ op \notin state.ops
            /\ Start(p, Change(state, op, "submit", <<>>, disk["claim.tx"]))

claim(p, airdrop) ==
    \E state \in Loaded(airdrop) :
      /\ Readable("claim.tx")
      /\ disk["claim.tx"].private \/ Readable("proof.json")
      /\ LET tx == CheckedClaim
             op == [kind |-> "claim", id |-> tx.id, row |-> tx.row]
         IN /\ tx.id = state.airdrop_id
            /\ op \notin state.ops
            /\ Start(p, Change(state, op, "submit", <<>>, disk["claim.tx"]))

\* Faulty variant: the bundle's airdrop is not compared.
prepare_checked_claim_AnyBundle(airdrop, row) ==
    \E state \in Loaded(airdrop) :
      [kind |-> "claim", id |-> state.airdrop_id, row |-> row] \notin state.ops

\* What both prove and prepare-claim-tx check: the bundle at hand belongs to
\* the airdrop, and the row is not among the claims its state counts.
prepare_checked_claim(airdrop, row) ==
    \E state \in Loaded(airdrop) :
      /\ disk["bundle.json"] = state.airdrop_id
      /\ [kind |-> "claim", id |-> state.airdrop_id, row |-> row] \notin state.ops

Claiming(p, tx, files) ==
    Start(p, [step |-> "prove", open |-> FALSE,
              todo |-> [i \in DOMAIN files |-> [file |-> files[i], content |-> tx]]])

\* prove works on the receipt for minutes, then writes both files.
prove(p, airdrop, row, private) ==
    /\ prepare_checked_claim(airdrop, row)
    /\ Claiming(p, [id |-> disk["bundle.json"], row |-> row, private |-> private,
                    receipt |-> TRUE], <<"proof.json", "claim.tx">>)

\* prepare-claim-tx takes a receipt from proof.json if it is for the same claim.
prepare_claim_tx(p, airdrop, row, private) ==
    /\ prepare_checked_claim(airdrop, row)
    /\ \E receipt \in BOOLEAN :
         /\ receipt => /\ Readable("proof.json") /\ disk["proof.json"].row = row
                       /\ disk["proof.json"].id = disk["bundle.json"]
         /\ Claiming(p, [id |-> disk["bundle.json"], row |-> row, private |-> private,
                         receipt |-> receipt], <<"claim.tx">>)

-----------------------------------------------------------------------------
(* Writing.                                                                 *)

At(p, step) == process[p].step = step

\* fs::write opens and truncates ...
truncate(p) ==
    /\ process[p] # Idle /\ process[p].todo # <<>> /\ ~process[p].open
    /\ disk' = [disk EXCEPT ![Head(process[p].todo).file] = Torn]
    /\ process' = [process EXCEPT ![p].open = TRUE]
    /\ UNCHANGED <<attempts, drawn, acked, contested>>

\* ... and fills.  When another writer filled the file in between, the longer
\* of the two texts sticks out behind the shorter one.
fill(p) ==
    /\ process[p] # Idle /\ process[p].todo # <<>> /\ process[p].open
    /\ LET write == Head(process[p].todo) IN
       \E mixed \in BOOLEAN :
         /\ mixed => disk[write.file] # Torn
         /\ disk' = [disk EXCEPT ![write.file] = IF mixed THEN Torn ELSE write.content]
    /\ process' = [process EXCEPT ![p].open = FALSE, ![p].todo = Tail(@)]
    /\ UNCHANGED <<attempts, drawn, acked, contested>>

Continue(p, step, todo) ==
    process' = [process EXCEPT ![p].step = step, ![p].todo = todo]

End(p) == process' = [process EXCEPT ![p] = Idle]

\* Faulty variant: later commands write state.json only.
save_state_CurrentOnly(state) ==
    <<[file |-> "state.json", content |-> state]>> \o
    (IF Cardinality(state.ops) > 1 THEN <<>>
     ELSE <<[file |-> named_state_path(state.name), content |-> state]>>)

save_state(state) ==
    <<[file |-> "state.json", content |-> state],
      [file |-> named_state_path(state.name), content |-> state]>>

\* The claim the adapter sends: whatever claim.tx holds when it is read again.
\* The receipt in proof.json, if claim used one, goes along, and the program
\* takes it only for the claim it proves.
Submittable(p) ==
    process[p].op.kind = "claim" =>
      /\ Readable("claim.tx")
      /\ \/ disk["claim.tx"].private
         \/ process[p].tx.private /\ disk["claim.tx"].receipt
         \/ /\ disk["claim.tx"].id = process[p].op.id
            /\ disk["claim.tx"].row = process[p].op.row

\* The adapter reports the transaction included.
submit(p) ==
    /\ At(p, "submit") /\ process[p].todo = <<>>
    /\ Submittable(p)
    /\ process' = [process EXCEPT ![p].step = "save", ![p].todo = save_state(process[p].state),
                                  ![p].tx = IF process[p].op.kind = "claim"
                                            THEN disk["claim.tx"] ELSE Absent]
    /\ UNCHANGED <<disk, attempts, drawn, acked, contested>>

\* Faulty variant: the registry is written before the state.
upsert_registry_BeforeSave(p) ==
    /\ At(p, "save") /\ Len(process[p].todo) = 2 /\ ~process[p].open
    /\ disk["airdrops.json"] # Torn
    /\ Continue(p, "report",
         <<[file |-> "airdrops.json",
            content |-> {e \in load_registry : e.name # process[p].state.name}
                          \cup {process[p].state}]>> \o process[p].todo)
    /\ UNCHANGED <<disk, attempts, drawn, acked, contested>>

\* Faulty variant: an entry of the same name is kept as it is.
upsert_registry_KeepsName(p) ==
    LET state == process[p].state
        known == \E e \in load_registry : e.name = state.name
    IN /\ At(p, "save") /\ process[p].todo = <<>>
       /\ disk["airdrops.json"] # Torn
       /\ Continue(p, "report",
            <<[file |-> "airdrops.json",
               content |-> load_registry \cup (IF known THEN {} ELSE {state})]>>)
       /\ UNCHANGED <<disk, attempts, drawn, acked, contested>>

upsert_registry(p) ==
    LET state == process[p].state
        entries == {e \in load_registry :
                      e.airdrop_id # state.airdrop_id /\ e.name # state.name} \cup {state}
    IN /\ At(p, "save") /\ process[p].todo = <<>>
       /\ disk["airdrops.json"] # Torn
       /\ Continue(p, "report", <<[file |-> "airdrops.json", content |-> entries]>>)
       /\ UNCHANGED <<disk, attempts, drawn, acked, contested>>

\* The OK line.  Only an operation that met no rival is recorded in acked.
report(p) ==
    /\ At(p, "report") /\ process[p].todo = <<>>
    /\ LET id == process[p].state.airdrop_id
       IN acked' = [acked EXCEPT ![id] = @ \cup ({process[p].op} \ contested[id])]
    /\ End(p)
    /\ UNCHANGED <<disk, attempts, drawn, contested>>

proved(p) ==
    /\ At(p, "prove") /\ process[p].todo = <<>>
    /\ End(p)
    /\ UNCHANGED <<disk, attempts, drawn, acked, contested>>

\* The command gives up: the submission failed, or claim.tx or the registry
\* cannot be parsed.
fail(p) ==
    /\ At(p, "submit") \/ (At(p, "save") /\ disk["airdrops.json"] = Torn)
    /\ process[p].todo = <<>>
    /\ End(p)
    /\ UNCHANGED <<disk, attempts, drawn, acked, contested>>

crash(p) ==
    /\ Crashes
    /\ process[p] # Idle
    /\ End(p)
    /\ UNCHANGED <<disk, attempts, drawn, acked, contested>>

-----------------------------------------------------------------------------
CliStart(p) ==
    /\ process[p] = Idle
    /\ attempts < MaxCommands
    /\ \/ \E name \in Names, id \in Ids : init(p, name, id)
       \/ \E airdrop \in Names \cup Ids :
            \/ fund(p, airdrop) \/ claim(p, airdrop)
            \/ \E row \in Rows, private \in Packets :
                 prove(p, airdrop, row, private) \/ prepare_claim_tx(p, airdrop, row, private)

CliWork(p) ==
    \/ truncate(p) \/ fill(p) \/ submit(p) \/ upsert_registry(p)
    \/ report(p) \/ proved(p) \/ fail(p) \/ crash(p)

CliNext == \E p \in Processes : CliStart(p) \/ CliWork(p)

CliSpec == CliInit /\ [][CliNext]_cliVars
-----------------------------------------------------------------------------
(* Properties.                                                              *)

CliTypeOK ==
    /\ \A file \in NamedFiles \cup {"state.json"} : Readable(file) => disk[file] \in States
    /\ Readable("airdrops.json") => disk["airdrops.json"] \subseteq States
    /\ Readable("bundle.json") => disk["bundle.json"] \in Ids
    /\ \A file \in {"proof.json", "claim.tx"} : Readable(file) => disk[file] \in ClaimFiles

\* Only the commands of an overlap can lose by it.  An operation that was reported
\* OK, by a command no other on its airdrop overlapped, is in every state of the
\* airdrop that a command finds from then on: whatever is killed, torn or
\* overwritten, however many copies disagree, and although later commands on the
\* airdrop overlap and overwrite each other (load_state_for, save_state).
NoAckedLost ==
    \A airdrop \in Names \cup Ids : \A state \in Loaded(airdrop) :
      acked[state.airdrop_id] \subseteq state.ops

\* list_airdrops never shows what the commands would not act on, as long as no two
\* commands that change the airdrop have overlapped: its registry entry counts
\* nothing that its state does not count.  (After an overlap it may: one command
\* registers its state after the other has saved one without its operation.)
RegistryNeverAhead ==
    Readable("airdrops.json") =>
      \A entry \in disk["airdrops.json"] : \A state \in Loaded(entry.airdrop_id) :
        contested[entry.airdrop_id] = {} => entry.ops \subseteq state.ops

\* A state counts only claims of its own airdrop, although all airdrops share
\* state.json, proof.json and claim.tx, and some share a named copy
\* (ensure_airdrop, claim's E_AIRDROP_ID_MISMATCH).
OnlyOwnClaims ==
    \A file \in NamedFiles \cup {"state.json"} : Readable(file) =>
      \A op \in disk[file].ops : op.kind = "claim" => op.id = disk[file].airdrop_id

\* With one command at a time, the claim recorded as paid is the claim that was
\* sent, although claim reads claim.tx twice and the receipt from another file.
SentIsRecorded ==
    \A p \in Processes :
      process[p].step \in {"save", "report"} /\ process[p].op.kind = "claim" =>
        process[p].tx.id = process[p].op.id /\ process[p].tx.row = process[p].op.row

\* With one command at a time and none killed, every airdrop that has a named
\* copy can be used by its name and by its id, after any sequence of inits,
\* names that share a copy included (upsert_registry, load_state_for).
NoOrphan ==
    (\A p \in Processes : process[p] = Idle) =>
      \A file \in NamedFiles : Readable(file) =>
        disk[file] \in Loaded(disk[file].name) \cap Loaded(disk[file].airdrop_id)

=============================================================================
