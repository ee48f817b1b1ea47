----------------------------- MODULE BasecampUi ------------------------------
(***************************************************************************)
(* The Basecamp screens' logic (basecamp-app/src/qml/Main.qml) on top of the *)
(* client module's job table.  The UI runs on one thread and blocks while it *)
(* calls the module; timers poll the jobs it started.  Up to three of its    *)
(* jobs run at once: one action (init, fund), one step of the claim          *)
(* pipeline, one repeated claim.  Meanwhile the user selects distributions   *)
(* and imports claim keys, and the bridge to the module may fail: a start    *)
(* may lose its answer and a poll may get an error.                         *)
(*                                                                         *)
(* What the CLI does is reduced to what the UI can tell apart: a command     *)
(* prints its marker or not, and claim.tx holds the claim proved last.  The  *)
(* UI names a distribution to it, and a name stands for the one saved last   *)
(* under it: a command reads the files some time after its job has started   *)
(* and writes them when it ends.  Bundles are left out: what depends on them *)
(* may fail or not.                                                          *)
(***************************************************************************)
EXTENDS JobStore, Sequences

CONSTANTS
    Airdrops,       \* distributions, those init may still create included
    Names,          \* distribution names
    DefaultName,    \* the one every init of the UI uses
    Listed,         \* the registry at the start: the distribution of each name
    Wallets,        \* claim keys
    Imported,       \* the one at hand at the start
    KeyChanges,     \* the imports the user makes: key before and after
    ActionKinds,    \* the actions the user takes, of init and fund
    MaxActions,     \* bound on their number, for model checking
    BridgeFailures  \* bound on the starts and polls that fail, for model checking

VARIABLES
    existing, claimed,  \* the ledger: distributions, claims paid
    registry, claim_tx, \* CLI: the distribution each name stands for, claim.tx
    read,           \* what the command of a job has read
    wallet,         \* wallet.seed
    airdrops,       \* the registry as last listed
    airdropName,
    selected,       \* selectedAirdropId
    lastAirdrop,    \* lastAirdropId
    status,         \* claimEligibilityStatus
    sample,         \* the claim pipeline: the name it works on, step and job
    sampleStatus,   \* "completed" or anything else ("")
    sampleError,    \* "already claimed" or any other text, none included ("")
    action,         \* the action job: kind, id
    duplicate,      \* the repeated claim: id
    duplicateStatus,
    abandoned       \* jobs whose start or poll the bridge lost

cliVars == <<existing, claimed, registry, claim_tx>>
listVars == <<airdrops, airdropName>>
screenVars ==
    <<listVars, selected, lastAirdrop, status, sampleStatus, sampleError, duplicateStatus>>
slotVars == <<sample, action, duplicate>>
uiVars == <<storeVars, cliVars, read, wallet, screenVars, slotVars, abandoned>>

sampleSteps == <<"checkEligibility", "prove", "verify", "claim">>

\* What a slot holds while it is busy; job is Nothing between two steps.
Samples ==
    [name: Names, step: 1 .. Len(sampleSteps) + 1, job: 1 .. MaxJobs \cup {Nothing}]
Actions == [kind: ActionKinds, job: 1 .. MaxJobs]
Duplicates == [job: 1 .. MaxJobs]

\* What the UI can tell apart in a command's text.
Marker == [exit |-> 0, text |-> "marker"]
Rejected(text) == [exit |-> 0, text |-> text]
Failure(text) == [exit |-> 1, text |-> text]
Receipt(airdrop) == [exit |-> 0, text |-> "marker", airdrop |-> airdrop]
Refusals == {"error", "already claimed"}
Outputs ==
    {Marker} \cup {Rejected(text) : text \in Refusals} \cup {Failure(text) : text \in Refusals} \cup
    {Receipt(airdrop) : airdrop \in Airdrops}

Registries == [Names -> Airdrops \cup {Nothing}]
Entries(list) == {[name |-> n, airdrop_id |-> list[n]] : n \in {m \in Names : list[m] # Nothing}}

ASSUME UiAssumption ==
    /\ Listed \in Registries /\ DefaultName \in Names /\ Imported \in Wallets
    /\ \E name \in Names : Listed[name] # Nothing
    /\ BridgeFailures \in Nat /\ MaxActions \in Nat
    /\ KeyChanges \subseteq Wallets \X Wallets /\ ActionKinds \subseteq {"initDistribution", "fund"}
    /\ Nothing \notin Airdrops /\ Nothing \notin Names /\ Nothing \notin Wallets
    /\ Nothing \notin 1 .. MaxJobs /\ Nothing \notin Outputs
    /\ Nothing \notin Samples /\ Nothing \notin Actions /\ Nothing \notin Duplicates
    /\ Nothing \notin [name: Names, airdrop_id: Airdrops]
    /\ Nothing \notin Airdrops \X Wallets

UiInit ==
    /\ StoreInit
    /\ existing = {entry.airdrop_id : entry \in Entries(Listed)} /\ claimed = {}
    /\ registry = Listed /\ claim_tx = Nothing
    /\ read = [id \in 1 .. MaxJobs |-> Nothing]
    /\ wallet = Imported
    /\ airdrops = Listed /\ airdropName = DefaultName /\ selected \in existing
    /\ lastAirdrop = Nothing
    /\ status = "unchecked" /\ sampleStatus = "" /\ sampleError = ""
    /\ duplicateStatus = ""
    /\ sample = Nothing /\ action = Nothing /\ duplicate = Nothing
    /\ abandoned = {}

-----------------------------------------------------------------------------
(* The CLI commands the workers run.                                        *)

\* load_state_for: the state saved last under a name, or the one with the id
\* given, and none when there is none.
StatesFor(target) ==
    LET found == {entry \in Entries(registry) : target \in {entry.name, entry.airdrop_id}}
    IN IF found = {} THEN {Nothing} ELSE found

\* save_state and upsert_registry, with the state read before.
SaveState(state) == registry' = [registry EXCEPT ![state.name] = state.airdrop_id]

LoadFiles(id) ==
    LET op == jobs[id].operation IN
    /\ read[id] = Nothing
    /\ \E state \in StatesFor(op.target) :
         read' = [read EXCEPT ![id] =
                    [state |-> state,
                     wallet |-> IF op.name \in {"checkEligibility", "prove"} THEN wallet ELSE Nothing,
                     tx |-> IF op.name \in {"verify", "claim"} THEN claim_tx ELSE Nothing]]
    /\ UNCHANGED <<storeVars, cliVars>>

\* Every command may fail without an effect.  The record of a claim may have been
\* lost to another command's save, so a command need not know of it.
RunCli(id) ==
    LET op == jobs[id].operation
        state == read[id].state
        tx == read[id].tx
        knownClaim == state # Nothing /\ <<state.airdrop_id, read[id].wallet>> \in claimed
        txMatches == state # Nothing /\ tx # Nothing /\ tx[1] = state.airdrop_id
    IN
    /\ read[id] # Nothing
    /\ \/ /\ \/ finishJob(id, Failure("error"))
             \/ /\ op.name = "checkEligibility"
                /\ \/ finishJob(id, Rejected("error"))
                   \/ knownClaim /\ finishJob(id, Rejected("already claimed"))
             \/ /\ \/ op.name = "prove" /\ knownClaim
                   \/ op.name = "claim" /\ txMatches /\ tx \in claimed
                /\ finishJob(id, Failure("already claimed"))
             \/ /\ \/ op.name = "checkEligibility" /\ state # Nothing
                   \/ op.name = "verify" /\ txMatches
                /\ finishJob(id, Marker)
          /\ UNCHANGED cliVars
       \/ /\ op.name = "initDistribution"
          /\ \E airdrop \in Airdrops \ existing :
               /\ finishJob(id, Receipt(airdrop))
               /\ existing' = existing \cup {airdrop}
               /\ SaveState([name |-> DefaultName, airdrop_id |-> airdrop])
          /\ UNCHANGED <<claimed, claim_tx>>
       \/ /\ op.name = "prove" /\ state # Nothing
          /\ finishJob(id, Marker)
          /\ claim_tx' = <<state.airdrop_id, read[id].wallet>>
          /\ UNCHANGED <<existing, claimed, registry>>
       \/ /\ op.name = "fund" /\ state # Nothing
          /\ finishJob(id, Marker)
          /\ SaveState(state)
          /\ UNCHANGED <<existing, claimed, claim_tx>>
       \/ /\ op.name = "claim" /\ txMatches /\ tx \notin claimed
          /\ finishJob(id, Marker)
          /\ claimed' = claimed \cup {tx}
          /\ SaveState(state)
          /\ UNCHANGED <<existing, claim_tx>>
    /\ UNCHANGED read

Worker(id) ==
    /\ LoadFiles(id) \/ RunCli(id)
    /\ UNCHANGED <<wallet, screenVars, slotVars, abandoned>>

-----------------------------------------------------------------------------
(* Starting jobs.                                                           *)

\* The bound on jobs leaves room for the steps a running pipeline still takes.
Outstanding ==
    IF sample = Nothing THEN 0
    ELSE Len(sampleSteps) + (IF sample.job = Nothing THEN 1 ELSE 0) - sample.step
Room(n) == nextId + Outstanding + n <= MaxJobs
ActsAgain ==
    Cardinality({id \in DOMAIN jobs : jobs[id].operation.name \in ActionKinds}) < MaxActions

\* callClient: the id is remembered as job, or the answer is lost.
CallStart(name, target, lost) ==
    /\ startJob([name |-> name, target |-> target])
    /\ lost => Cardinality(abandoned) < BridgeFailures
    /\ abandoned' = IF lost THEN abandoned \cup {nextId'} ELSE abandoned

\* claimAirdropName: the name listed for the selected distribution, or else for
\* the first listed, or else airdropName.
claimAirdropNames ==
    LET listed == Entries(airdrops)
        chosen == {entry \in listed : entry.airdrop_id = selected}
    IN IF listed = {} THEN {airdropName}
       ELSE {entry.name : entry \in IF chosen = {} THEN listed ELSE chosen}

ActionTarget(kind) ==
    IF kind = "initDistribution" THEN Nothing
    ELSE IF lastAirdrop # Nothing THEN lastAirdrop ELSE airdropName

\* Faulty variant: an action starts while another still runs.
StartAction_WhileBusy(kind, lost) ==
    /\ Room(1) /\ ActsAgain
    /\ sampleError' = ""
    /\ CallStart(kind, ActionTarget(kind), lost)
    /\ action' = IF lost THEN Nothing ELSE [kind |-> kind, job |-> nextId']
    /\ UNCHANGED <<cliVars, read, wallet, listVars, selected, lastAirdrop, status, sampleStatus,
                   duplicateStatus, sample, duplicate>>

\* initializeDistribution, fundDistribution: the error shown goes, then
\* startActionJob starts the one action job there may be.
StartAction(kind, lost) ==
    /\ Room(1) /\ ActsAgain
    /\ sampleError' = ""
    /\ IF action # Nothing THEN UNCHANGED <<storeVars, action, abandoned>>
       ELSE /\ CallStart(kind, ActionTarget(kind), lost)
            /\ action' = IF lost THEN Nothing ELSE [kind |-> kind, job |-> nextId']
    /\ UNCHANGED <<cliVars, read, wallet, listVars, selected, lastAirdrop, status, sampleStatus,
                   duplicateStatus, sample, duplicate>>

\* Faulty variant: the error is shown, the pipeline is not ended.
failSampleStep_KeepsRunning(text) ==
    /\ sampleStatus' = ""
    /\ sampleError' = IF text = "already claimed" THEN text ELSE ""
    /\ UNCHANGED sample

failSampleStep(text) ==
    /\ sampleStatus' = ""
    /\ sampleError' = IF text = "already claimed" THEN text ELSE ""
    /\ sample' = Nothing

startSampleStep(lost) ==
    /\ sample # Nothing /\ sample.job = Nothing
    /\ sample.step <= Len(sampleSteps)
    /\ CallStart(sampleSteps[sample.step], sample.name, lost)
    /\ IF lost THEN failSampleStep("error")
       ELSE /\ sample' = [sample EXCEPT !.job = nextId']
            /\ UNCHANGED <<sampleStatus, sampleError>>
    /\ UNCHANGED <<cliVars, read, wallet, listVars, selected, lastAirdrop, status,
                   duplicateStatus, action, duplicate>>

\* The registry as it is, or an empty list when the call fails.
refreshAirdrops ==
    \/ airdrops' = registry
    \/ BridgeFailures > 0 /\ airdrops' = [name \in Names |-> Nothing]

finishSample ==
    /\ sample # Nothing /\ sample.step > Len(sampleSteps)
    /\ sampleStatus' = "completed"
    /\ sample' = Nothing
    /\ refreshAirdrops
    /\ UNCHANGED <<storeVars, cliVars, read, wallet, airdropName, selected, lastAirdrop, status,
                   sampleError, duplicateStatus, action, duplicate, abandoned>>

runNextSampleStep == finishSample \/ \E lost \in BOOLEAN : startSampleStep(lost)

claimAlreadyClaimed == status = "claimed" \/ sampleError = "already claimed"

submitClaimAnyway(lost) ==
    /\ Room(1)
    /\ claimAlreadyClaimed /\ duplicate = Nothing /\ sample = Nothing
    /\ \E name \in claimAirdropNames : CallStart("claim", name, lost)
    /\ duplicateStatus' = IF lost THEN "error" ELSE "submitting"
    /\ duplicate' = IF lost THEN Nothing ELSE [job |-> nextId']
    /\ UNCHANGED <<cliVars, read, wallet, listVars, selected, lastAirdrop, status, sampleStatus,
                   sampleError, sample, action>>

-----------------------------------------------------------------------------
(* Polling.                                                                 *)

\* What a poll that ends the wait makes of the job: its output, or the bridge's
\* error text when the call fails.
PollEnds(id, output) ==
    \/ /\ id \in DOMAIN jobs /\ ~Running(id)
       /\ output = jobs[id].output
       /\ UNCHANGED abandoned
    \/ /\ Cardinality(abandoned) < BridgeFailures
       /\ output = Failure("error")
       /\ abandoned' = abandoned \cup {id}

\* Faulty variant: a step succeeded if its command exited with 0.
StepSucceeded_ExitCode(output) == output.exit = 0

StepSucceeded(output) == output.text = "marker"

pollSampleJob ==
    /\ sample # Nothing /\ sample.job # Nothing
    /\ \E output \in Outputs :
         /\ PollEnds(sample.job, output)
         /\ IF StepSucceeded(output)
              THEN /\ sample' = [sample EXCEPT !.step = @ + 1, !.job = Nothing]
                   /\ status' = CASE sampleSteps[sample.step] = "checkEligibility" -> "eligible"
                                  [] sampleSteps[sample.step] = "claim" -> "claimed"
                                  [] OTHER -> status
                   /\ UNCHANGED <<sampleStatus, sampleError>>
              ELSE /\ failSampleStep(output.text)
                   /\ UNCHANGED status
    /\ UNCHANGED <<storeVars, cliVars, read, wallet, listVars, selected, lastAirdrop,
                   duplicateStatus, action, duplicate>>

resetClaimEligibility ==
    /\ status' = "unchecked"
    /\ duplicateStatus' = ""
    /\ IF sample = Nothing THEN sampleStatus' = "" /\ sampleError' = ""
       ELSE UNCHANGED <<sampleStatus, sampleError>>

\* completeActionJob.  The receipt of an init selects the new distribution, and a
\* change of selectedAirdropId resets the eligibility shown.
pollActionJob ==
    /\ action # Nothing
    /\ \E output \in Outputs :
         /\ PollEnds(action.job, output)
         /\ IF output.text = "marker" THEN refreshAirdrops ELSE UNCHANGED airdrops
         /\ IF action.kind = "initDistribution" /\ \E airdrop \in Airdrops : output = Receipt(airdrop)
              THEN selected' = output.airdrop /\ lastAirdrop' = output.airdrop
              ELSE UNCHANGED <<selected, lastAirdrop>>
    /\ sampleError' = ""
    /\ IF selected' = selected THEN UNCHANGED <<status, sampleStatus, duplicateStatus>>
       ELSE /\ status' = "unchecked" /\ duplicateStatus' = ""
            /\ sampleStatus' = IF sample = Nothing THEN "" ELSE sampleStatus
    /\ action' = Nothing
    /\ UNCHANGED <<storeVars, cliVars, read, wallet, airdropName, sample, duplicate>>

pollDuplicateClaimJob ==
    /\ duplicate # Nothing
    /\ \E output \in Outputs :
         /\ PollEnds(duplicate.job, output)
         /\ duplicateStatus' = CASE output.text = "already claimed" -> "rejected"
                                 [] output.text = "marker" -> "accepted"
                                 [] OTHER -> "error"
    /\ duplicate' = Nothing
    /\ UNCHANGED <<storeVars, cliVars, read, wallet, listVars, selected, lastAirdrop, status,
                   sampleStatus, sampleError, sample, action>>

-----------------------------------------------------------------------------
(* The user.                                                                *)

selectRegistryAirdrop ==
    /\ \E entry \in Entries(airdrops) :
         selected' = entry.airdrop_id /\ airdropName' = entry.name
    /\ resetClaimEligibility
    /\ UNCHANGED <<storeVars, cliVars, read, wallet, airdrops, lastAirdrop, slotVars, abandoned>>

\* The refresh buttons, and the refreshes that timers and Qt.callLater repeat.
RefreshList ==
    /\ refreshAirdrops
    /\ UNCHANGED <<storeVars, cliVars, read, wallet, airdropName, selected, lastAirdrop, status,
                   sampleStatus, sampleError, duplicateStatus, slotVars, abandoned>>

\* Another key, or a call that fails and leaves the key as it is.
importClaimantWallet ==
    /\ wallet' \in Wallets
    /\ wallet' = wallet \/ <<wallet, wallet'>> \in KeyChanges
    /\ resetClaimEligibility
    /\ UNCHANGED <<storeVars, cliVars, read, listVars, selected, lastAirdrop, slotVars, abandoned>>

\* A synchronous check.  The call may fail, and the row may be refused for other
\* reasons.
refreshClaimEligibility ==
    /\ \E name \in claimAirdropNames : \E state \in StatesFor(name) :
         \/ status' = "rejected"
         \/ status' = "eligible" /\ state # Nothing
         \/ /\ status' = "claimed"
            /\ state # Nothing /\ <<state.airdrop_id, wallet>> \in claimed
    /\ sampleError' = IF sample # Nothing THEN sampleError
                      ELSE IF status' = "claimed" THEN "already claimed" ELSE ""
    /\ UNCHANGED <<storeVars, cliVars, read, wallet, listVars, selected, lastAirdrop,
                   sampleStatus, duplicateStatus, slotVars, abandoned>>

\* "Claim now"; the name the steps work on is fixed here.
claimCurrentDistribution ==
    /\ Room(Len(sampleSteps))
    /\ sample = Nothing /\ ~claimAlreadyClaimed /\ status # "rejected"
    /\ \E name \in claimAirdropNames : sample' = [name |-> name, step |-> 1, job |-> Nothing]
    /\ sampleStatus' = "" /\ sampleError' = ""
    /\ UNCHANGED <<storeVars, cliVars, read, wallet, listVars, selected, lastAirdrop, status,
                   duplicateStatus, action, duplicate, abandoned>>

-----------------------------------------------------------------------------
User ==
    \/ selectRegistryAirdrop \/ RefreshList \/ importClaimantWallet
    \/ refreshClaimEligibility \/ claimCurrentDistribution
    \/ \E lost \in BOOLEAN :
         \/ \E kind \in ActionKinds : StartAction(kind, lost)
         \/ submitClaimAnyway(lost)

UiNext ==
    \/ User \/ runNextSampleStep
    \/ pollSampleJob \/ pollActionJob \/ pollDuplicateClaimJob
    \/ \E id \in workers : Worker(id)

UiSpec == UiInit /\ [][UiNext]_uiVars

\* Commands end (the adapter and the prover have deadlines), calls return and
\* timers fire.  The user need not do anything.
RunsOn(id) == WF_uiVars(id \in workers /\ Worker(id))
StartsNext == WF_uiVars(runNextSampleStep)
PollsSample == WF_uiVars(pollSampleJob)
PollsAction == WF_uiVars(pollActionJob)
PollsDuplicate == WF_uiVars(pollDuplicateClaimJob)
FairUiSpec ==
    /\ UiSpec
    /\ StartsNext /\ PollsSample /\ PollsAction /\ PollsDuplicate
    /\ \A id \in 1 .. MaxJobs : RunsOn(id)

-----------------------------------------------------------------------------
(* Properties.                                                              *)

UiTypeOK ==
    /\ DOMAIN jobs \subseteq 1 .. nextId /\ workers \subseteq DOMAIN jobs
    /\ \A id \in DOMAIN jobs :
         IF id \in workers THEN jobs[id].output = Nothing ELSE jobs[id].output \in Outputs
    /\ sample \in Samples \cup {Nothing} /\ action \in Actions \cup {Nothing}
    /\ duplicate \in Duplicates \cup {Nothing}
    /\ {registry, airdrops} \subseteq [Names -> existing \cup {Nothing}]
    /\ selected \in existing /\ airdropName \in Names
    /\ claimed \subseteq existing \X Wallets

\* The claim sent by a claim job was proved before, by a prove job that printed its
\* marker, with the key that job had read, for the distribution which the name
\* stood for when either job read the files; and the ledger holds it.
Substantiated(id) ==
    LET tx == read[id].tx IN
    /\ tx \in claimed /\ tx[1] = read[id].state.airdrop_id
    /\ \E proof \in DOMAIN jobs :
         /\ jobs[proof].operation.name = "prove" /\ jobs[proof].output = Marker
         /\ tx = <<read[proof].state.airdrop_id, read[proof].wallet>>

\* A pipeline reports completion only after a check, a proof, a verification and
\* a claim, in this order, each of which printed its marker for the name that
\* "Claim now" fixed, and only when the ledger holds that claim
\* (completeSampleStep: the marker counts, not JOB_OK; check-eligibility exits
\* with 0 when it refuses).  It need not be for the distribution selected then:
\* an init meanwhile makes the name stand for another.
CompletionIsEarned ==
    [][sampleStatus' = "completed" /\ sampleStatus # "completed" =>
         \E done \in [1 .. Len(sampleSteps) -> DOMAIN jobs] :
           /\ \A i \in DOMAIN done :
                /\ jobs[done[i]].operation = [name |-> sampleSteps[i], target |-> sample.name]
                /\ jobs[done[i]].output = Marker
                /\ \A j \in 1 .. i - 1 : done[j] < done[i]
           /\ Substantiated(done[Len(sampleSteps)])]_uiVars

\* Every job the UI started and that still runs is being waited for, unless the
\* bridge lost it: at most one action, one pipeline step and one repeated claim
\* run at a time (startActionJob, sampleRunning, duplicateClaimRunning).
NoJobForgotten ==
    \A id \in workers :
      id \in abandoned \/
      \E slot \in {sample, action, duplicate} \ {Nothing} : slot.job = id

\* Whatever the UI waits for can come: a pipeline between two steps can go on, and
\* a slot that waits for a job waits for a command that can end or for one whose
\* end a poll can see (runNextSampleStep, the three polls, finishJob).
NoWaitStuck ==
    /\ \A id \in workers : ENABLED <<id \in workers /\ Worker(id)>>_uiVars
    /\ sample # Nothing =>
         \/ sample.job = Nothing /\ ENABLED <<runNextSampleStep>>_uiVars
         \/ sample.job \in workers
         \/ sample.job # Nothing /\ ENABLED <<pollSampleJob>>_uiVars
    /\ action # Nothing => action.job \in workers \/ ENABLED <<pollActionJob>>_uiVars
    /\ duplicate # Nothing =>
         duplicate.job \in workers \/ ENABLED <<pollDuplicateClaimJob>>_uiVars

\* The UI never stays busy: every pipeline, action and repeated claim comes to an
\* end, whatever fails (pollSampleJob, pollActionJob, pollDuplicateClaimJob).
UiBecomesIdle ==
    /\ []<>(sample = Nothing)
    /\ []<>(action = Nothing)
    /\ []<>(duplicate = Nothing)

\* What the claim screen shows as already claimed has been claimed, by the claim
\* key at hand from the distribution at hand.
AlreadyClaimedIsTrue == claimAlreadyClaimed => <<selected, wallet>> \in claimed
=============================================================================
