-------------------------- MODULE BasecampUi_proofs --------------------------
(***************************************************************************)
(* The client module keeps every result, the UI waits for every job it       *)
(* started, and a pipeline that reports completion has earned it, for any    *)
(* number of jobs, names, distributions, claim keys and bridge failures.    *)
(* The argument: an id is drawn once, the thread of a job is the only one    *)
(* that writes its record, and a slot of the UI is filled only when it is    *)
(* empty and emptied only by a poll that saw the job end or gave it up.      *)
(* claim.tx is written by prove alone, and a command reads the files once.   *)
(***************************************************************************)
EXTENDS BasecampUi, TLAPS

CommandNames == {"initDistribution", "fund", "checkEligibility", "prove", "verify", "claim"}
Targets == Names \cup Airdrops \cup {Nothing}
Commands == [name: CommandNames, target: Targets]
Jobs ==
    [operation: Commands, status: {"JOB_RUNNING", "JOB_OK", "JOB_ERROR"},
     output: Outputs \cup {Nothing}]

JobTable ==
    /\ nextId \in 0 .. MaxJobs
    /\ DOMAIN jobs \subseteq 1 .. nextId
    /\ \A id \in DOMAIN jobs : jobs[id] \in Jobs
    /\ workers = {id \in DOMAIN jobs : jobs[id].status = "JOB_RUNNING"}
    /\ \A id \in DOMAIN jobs :
         IF id \in workers THEN jobs[id].output = Nothing ELSE jobs[id].output \in Outputs

-----------------------------------------------------------------------------
(* The store.                                                               *)

LEMMA StartedJob ==
    ASSUME StoreAssumption, JobTable, NEW op \in Commands, startJob(op)
    PROVE  /\ JobTable'
           /\ nextId' \in 1 .. MaxJobs /\ nextId' = nextId + 1
           /\ nextId' \notin DOMAIN jobs
           /\ DOMAIN jobs' = DOMAIN jobs \cup {nextId'}
           /\ jobs'[nextId'] = [operation |-> op, status |-> "JOB_RUNNING", output |-> Nothing]
           /\ \A id \in DOMAIN jobs : jobs'[id] = jobs[id]
           /\ workers' = workers \cup {nextId'}
<1> DEFINE new == [operation |-> op, status |-> "JOB_RUNNING", output |-> Nothing]
<1>1. nextId' = nextId + 1 /\ nextId' \in 1 .. MaxJobs /\ nextId \in Nat
      BY DEF startJob, JobTable, StoreAssumption
<1>2. nextId' \notin DOMAIN jobs /\ DOMAIN jobs \subseteq 1 .. nextId'
      BY <1>1 DEF JobTable
<1>3. jobs' = [id \in DOMAIN jobs \cup {nextId'} |-> IF id \in DOMAIN jobs THEN jobs[id] ELSE new]
      BY DEF startJob
<1>4. /\ DOMAIN jobs' = DOMAIN jobs \cup {nextId'}
      /\ jobs'[nextId'] = new
      /\ \A id \in DOMAIN jobs : jobs'[id] = jobs[id]
      BY <1>2, <1>3
<1>5. new \in Jobs /\ new.status = "JOB_RUNNING" /\ new.output = Nothing
      BY DEF Jobs
<1> HIDE DEF new
<1>6. workers' = workers \cup {nextId'}
      BY DEF startJob
<1>7. JobTable'
  <2>1. nextId' \in 0 .. MaxJobs
        BY <1>1
  <2>2. DOMAIN jobs' \subseteq 1 .. nextId'
        BY <1>1, <1>2, <1>4
  <2>3. \A id \in DOMAIN jobs' : jobs'[id] \in Jobs
        BY <1>4, <1>5 DEF JobTable
  <2>4. workers' = {id \in DOMAIN jobs' : jobs'[id].status = "JOB_RUNNING"}
        BY <1>2, <1>4, <1>5, <1>6 DEF JobTable
  <2>5. \A id \in DOMAIN jobs' :
          IF id \in workers' THEN jobs'[id].output = Nothing ELSE jobs'[id].output \in Outputs
        BY <1>2, <1>4, <1>5, <1>6 DEF JobTable
  <2> QED BY <2>1, <2>2, <2>3, <2>4, <2>5 DEF JobTable
<1> QED BY <1>1, <1>2, <1>4, <1>6, <1>7 DEF new

LEMMA FinishedJob ==
    ASSUME JobTable, NEW job, NEW output \in Outputs, finishJob(job, output)
    PROVE  /\ JobTable'
           /\ job \in DOMAIN jobs /\ job \in workers
           /\ DOMAIN jobs' = DOMAIN jobs
           /\ jobs'[job].operation = jobs[job].operation
           /\ jobs'[job].output = output
           /\ \A id \in DOMAIN jobs \ {job} : jobs'[id] = jobs[id]
           /\ workers' = workers \ {job} /\ nextId' = nextId
<1> DEFINE ended == IF output.exit = 0 THEN "JOB_OK" ELSE "JOB_ERROR"
           new == [jobs[job] EXCEPT !.output = output, !.status = ended]
<1>1. job \in DOMAIN jobs /\ job \in workers /\ jobs[job] \in Jobs
      BY DEF finishJob, JobTable
<1>2. ended \in {"JOB_OK", "JOB_ERROR"}
      OBVIOUS
<1>3. jobs' = [jobs EXCEPT ![job] = new]
      BY DEF finishJob
<1> HIDE DEF ended
<1>4. /\ new \in Jobs
      /\ new.operation = jobs[job].operation
      /\ new.output = output
      /\ new.status # "JOB_RUNNING"
      BY <1>1, <1>2 DEF Jobs
<1> HIDE DEF new
<1>5. /\ DOMAIN jobs' = DOMAIN jobs
      /\ jobs'[job] = new
      /\ \A id \in DOMAIN jobs \ {job} : jobs'[id] = jobs[id]
      BY <1>1, <1>3
<1>6. workers' = workers \ {job} /\ nextId' = nextId
      BY DEF finishJob
<1>7. JobTable'
  <2>1. nextId' \in 0 .. MaxJobs /\ DOMAIN jobs' \subseteq 1 .. nextId'
        BY <1>5, <1>6 DEF JobTable
  <2>2. \A id \in DOMAIN jobs' : jobs'[id] \in Jobs
        BY <1>4, <1>5 DEF JobTable
  <2>3. workers' = {id \in DOMAIN jobs' : jobs'[id].status = "JOB_RUNNING"}
        BY <1>4, <1>5, <1>6 DEF JobTable
  <2>4. \A id \in DOMAIN jobs' :
          IF id \in workers' THEN jobs'[id].output = Nothing ELSE jobs'[id].output \in Outputs
        BY <1>4, <1>5, <1>6 DEF JobTable
  <2> QED BY <2>1, <2>2, <2>3, <2>4 DEF JobTable
<1> QED BY <1>1, <1>4, <1>5, <1>6, <1>7

-----------------------------------------------------------------------------
(* The UI's invariant.                                                      *)

Screen ==
    /\ existing \subseteq Airdrops /\ selected \in existing
    /\ lastAirdrop \in existing \cup {Nothing} /\ wallet \in Wallets
    /\ claim_tx \in (existing \X Wallets) \cup {Nothing} /\ claimed \subseteq existing \X Wallets
    /\ registry \in [Names -> existing \cup {Nothing}]
    /\ airdrops \in [Names -> existing \cup {Nothing}] /\ airdropName \in Names
    /\ sample \in Samples \cup {Nothing}
    /\ action \in Actions \cup {Nothing} /\ duplicate \in Duplicates \cup {Nothing}

\* A receipt names a distribution that exists.
ReceiptOK(op, output) ==
    output # Nothing /\ output.text = "marker" =>
      IF op.name = "initDistribution" THEN \E airdrop \in existing : output = Receipt(airdrop)
      ELSE output = Marker
Receipts == \A id \in DOMAIN jobs : ReceiptOK(jobs[id].operation, jobs[id].output)

\* What a command has read: states and transactions of distributions that exist.
\* A command that has ended has read the files, and one that has not started has
\* not.
Entry == [name: Names, airdrop_id: existing]
Readings ==
    [state: Entry \cup {Nothing}, wallet: Wallets \cup {Nothing},
     tx: (existing \X Wallets) \cup {Nothing}]
ReadOK(id) ==
    /\ read[id] \in Readings /\ id \in DOMAIN jobs
    /\ jobs[id].operation.name = "prove" => read[id].wallet \in Wallets
Reads ==
    /\ read = [id \in 1 .. MaxJobs |-> read[id]]
    /\ \A id \in 1 .. MaxJobs : read[id] # Nothing => ReadOK(id)
    /\ \A id \in DOMAIN jobs : id \notin workers => read[id] # Nothing

\* The jobs in the slots are the ones the slots are about.
SlotJobs ==
    /\ sample # Nothing /\ sample.job # Nothing =>
         /\ sample.step \in 1 .. Len(sampleSteps) /\ sample.job \in DOMAIN jobs
         /\ jobs[sample.job].operation = [name |-> sampleSteps[sample.step], target |-> sample.name]
    /\ action # Nothing =>
         action.job \in DOMAIN jobs /\ jobs[action.job].operation.name = action.kind
    /\ duplicate # Nothing => duplicate.job \in DOMAIN jobs

UiInv == JobTable /\ Screen /\ Receipts /\ Reads /\ SlotJobs /\ NoJobForgotten

LEMMA UiInitInv == StoreAssumption /\ UiAssumption /\ UiInit => UiInv
<1> SUFFICES ASSUME StoreAssumption, UiAssumption, UiInit PROVE UiInv
    OBVIOUS
<1>1. DOMAIN jobs = {} /\ nextId = 0 /\ workers = {}
  <2>1. jobs = << >> /\ nextId = 0 /\ workers = {}
        BY DEF UiInit, StoreInit
  <2>2. DOMAIN << >> = {}
        OBVIOUS
  <2> QED BY <2>1, <2>2
<1>2. JobTable
      BY <1>1 DEF JobTable, StoreAssumption
<1>3. Screen
  <2>1. existing = {entry.airdrop_id : entry \in Entries(Listed)}
        BY DEF UiInit
  <2>2. existing \subseteq Airdrops /\ Listed \in [Names -> existing \cup {Nothing}]
    <3>1. Listed \in [Names -> Airdrops \cup {Nothing}]
          BY DEF UiAssumption, Registries
    <3>2. \A entry \in Entries(Listed) : entry.airdrop_id \in Airdrops
          BY <3>1 DEF Entries
    <3>3. ASSUME NEW n \in Names, Listed[n] # Nothing PROVE Listed[n] \in existing
      <4>1. [name |-> n, airdrop_id |-> Listed[n]] \in Entries(Listed)
            BY <3>3 DEF Entries
      <4> QED BY <4>1, <2>1
    <3> QED BY <2>1, <3>1, <3>2, <3>3
  <2> QED BY <2>2 DEF Screen, UiInit, UiAssumption
<1>4. Receipts /\ Reads
      BY <1>1 DEF Receipts, Reads, UiInit
<1>5. SlotJobs
      BY DEF SlotJobs, UiInit
<1>6. NoJobForgotten
      BY <1>1 DEF NoJobForgotten
<1> QED BY <1>2, <1>3, <1>4, <1>5, <1>6 DEF UiInv

\* A call that starts a job: what comes of it.
Starts(name, target, lost) ==
    /\ JobTable' /\ Receipts' /\ Reads'
    /\ nextId' \in 1 .. MaxJobs /\ nextId' = nextId + 1 /\ nextId' # Nothing
    /\ DOMAIN jobs' = DOMAIN jobs \cup {nextId'}
    /\ nextId' \notin DOMAIN jobs
    /\ \A id \in DOMAIN jobs : jobs'[id] = jobs[id]
    /\ jobs'[nextId'].operation = [name |-> name, target |-> target]
    /\ jobs'[nextId'].output = Nothing
    /\ workers' = workers \cup {nextId'}
    /\ abandoned \subseteq abandoned'
    /\ lost => nextId' \in abandoned'

LEMMA CallStarted ==
    ASSUME StoreAssumption, UiAssumption, UiInv, NEW name \in CommandNames,
           NEW target \in Targets, NEW lost \in BOOLEAN,
           CallStart(name, target, lost), UNCHANGED <<cliVars, read>>
    PROVE  Starts(name, target, lost)
<1> DEFINE op == [name |-> name, target |-> target]
<1>1. op \in Commands
      BY DEF Commands
<1>2. op = [name |-> name, target |-> target]
      OBVIOUS
<1>3. startJob(op)
      BY DEF CallStart
<1> HIDE DEF op
<1>4. /\ JobTable'
      /\ nextId' \in 1 .. MaxJobs /\ nextId' = nextId + 1
      /\ nextId' \notin DOMAIN jobs
      /\ DOMAIN jobs' = DOMAIN jobs \cup {nextId'}
      /\ jobs'[nextId'] = [operation |-> op, status |-> "JOB_RUNNING", output |-> Nothing]
      /\ \A id \in DOMAIN jobs : jobs'[id] = jobs[id]
      /\ workers' = workers \cup {nextId'}
      BY <1>1, <1>3, StartedJob DEF UiInv
<1>5. jobs'[nextId'].operation = op /\ jobs'[nextId'].output = Nothing
      BY <1>4
<1>6. Receipts'
  <2> SUFFICES ASSUME NEW id \in DOMAIN jobs'
               PROVE  ReceiptOK(jobs[id].operation, jobs[id].output)'
      BY DEF Receipts
  <2>1. CASE id \in DOMAIN jobs
    <3>1. ReceiptOK(jobs[id].operation, jobs[id].output)
          BY <2>1 DEF UiInv, Receipts
    <3> QED BY <3>1, <2>1, <1>4 DEF ReceiptOK, cliVars
  <2>2. CASE id = nextId'
        BY <2>2, <1>5 DEF ReceiptOK
  <2> QED BY <2>1, <2>2, <1>4
<1>7. Reads'
  <2>1. \A id \in 1 .. MaxJobs : read[id] # Nothing => ReadOK(id)'
        BY <1>4 DEF UiInv, Reads, ReadOK, Readings, Entry, cliVars
  <2>2. \A id \in DOMAIN jobs' : id \notin workers' => read[id] # Nothing
        BY <1>4 DEF UiInv, Reads
  <2> QED BY <2>1, <2>2 DEF UiInv, Reads
<1>8. nextId' # Nothing
      BY <1>4 DEF UiAssumption
<1>9. abandoned \subseteq abandoned' /\ (lost => nextId' \in abandoned')
      BY DEF CallStart
<1> QED BY <1>2, <1>4, <1>5, <1>6, <1>7, <1>8, <1>9 DEF Starts

\* A poll after which a slot is emptied.
LEMMA Polled ==
    ASSUME UiInv, NEW id \in DOMAIN jobs, NEW output \in Outputs, PollEnds(id, output)
    PROVE  /\ abandoned \subseteq abandoned'
           /\ id \in workers => id \in abandoned'
           /\ output.text = "marker" => output = jobs[id].output /\ id \notin workers
<1>1. CASE ~Running(id) /\ output = jobs[id].output /\ UNCHANGED abandoned
      BY <1>1 DEF UiInv, JobTable, Running
<1>2. CASE output = Failure("error") /\ abandoned' = abandoned \cup {id}
      BY <1>2 DEF Failure
<1> QED BY <1>1, <1>2 DEF PollEnds

-----------------------------------------------------------------------------
(* Actions.                                                                 *)

\* What a worker files.
Files(id, output) ==
    /\ finishJob(id, output)
    /\ output.text = "marker" =>
         IF jobs[id].operation.name = "initDistribution"
           THEN \E airdrop \in existing' : output = Receipt(airdrop)
           ELSE output = Marker

CliKept ==
    /\ existing \subseteq existing' /\ existing' \subseteq Airdrops
    /\ registry' \in [Names -> existing' \cup {Nothing}]
    /\ claim_tx' \in (existing' \X Wallets) \cup {Nothing}
    /\ claimed \subseteq claimed' /\ claimed' \subseteq existing' \X Wallets

LEMMA StatesTyped ==
    ASSUME UiAssumption, UiInv, NEW target, NEW state \in StatesFor(target)
    PROVE  state \in Entry \cup {Nothing}
<1>1. \A n \in Names : registry[n] # Nothing => registry[n] \in existing
      BY DEF UiInv, Screen
<1>2. Entries(registry) \subseteq Entry
      BY <1>1 DEF Entries, Entry
<1> QED BY <1>2 DEF StatesFor

\* A saved state is one that was read, or that of a new distribution.
LEMMA Saved ==
    ASSUME UiInv, NEW state, state.name \in Names, state.airdrop_id \in existing',
           existing \subseteq existing', SaveState(state)
    PROVE  registry' \in [Names -> existing' \cup {Nothing}]
<1>1. registry \in [Names -> existing' \cup {Nothing}]
      BY DEF UiInv, Screen
<1> QED BY <1>1 DEF SaveState

LEMMA CommandEnds ==
    ASSUME StoreAssumption, UiAssumption, UiInv, NEW id \in workers, RunCli(id)
    PROVE  CliKept /\ read[id] # Nothing /\ \E output \in Outputs : Files(id, output)
<1> DEFINE op == jobs[id].operation
           state == read[id].state
           tx == read[id].tx
<1>1. read[id] # Nothing /\ ReadOK(id) /\ id \in 1 .. MaxJobs
  <2>1. id \in 1 .. MaxJobs
        BY DEF UiInv, JobTable, StoreAssumption
  <2>2. read[id] # Nothing
        BY DEF RunCli
  <2> QED BY <2>1, <2>2 DEF UiInv, Reads
<1>2. /\ state \in Entry \cup {Nothing} /\ tx \in (existing \X Wallets) \cup {Nothing}
      /\ op.name = "prove" => read[id].wallet \in Wallets
      BY <1>1 DEF ReadOK, Readings
<1>3. state # Nothing => state.name \in Names /\ state.airdrop_id \in existing
      BY <1>2 DEF Entry
<1> DEFINE quiet == {Failure("error"), Rejected("error"), Rejected("already claimed"),
                     Failure("already claimed")}
<1>4. /\ Marker \in Outputs /\ quiet \subseteq Outputs
      /\ \A airdrop \in Airdrops : Receipt(airdrop) \in Outputs
      BY DEF Outputs, Refusals
<1>5. \A output \in quiet : output.text # "marker"
  <2>1. /\ Failure("error").text # "marker" /\ Failure("already claimed").text # "marker"
        /\ Rejected("error").text # "marker" /\ Rejected("already claimed").text # "marker"
        BY DEF Rejected, Failure
  <2> QED BY <2>1
<1>6. UNCHANGED cliVars => CliKept
      BY DEF CliKept, cliVars, UiInv, Screen
<1>7. CASE /\ \/ \E output \in quiet : finishJob(id, output)
              \/ op.name \in {"checkEligibility", "verify"} /\ finishJob(id, Marker)
           /\ UNCHANGED cliVars
      BY <1>1, <1>4, <1>5, <1>6, <1>7 DEF Files, op
<1>8. CASE /\ op.name = "initDistribution"
           /\ \E airdrop \in Airdrops \ existing :
                /\ finishJob(id, Receipt(airdrop)) /\ existing' = existing \cup {airdrop}
                /\ SaveState([name |-> DefaultName, airdrop_id |-> airdrop])
           /\ UNCHANGED <<claimed, claim_tx>>
  <2>1. PICK airdrop \in Airdrops \ existing :
          /\ finishJob(id, Receipt(airdrop)) /\ existing' = existing \cup {airdrop}
          /\ SaveState([name |-> DefaultName, airdrop_id |-> airdrop])
        BY <1>8
  <2>2. registry' \in [Names -> existing' \cup {Nothing}]
        BY <2>1, Saved DEF UiAssumption
  <2>3. CliKept
        BY <1>8, <2>1, <2>2 DEF CliKept, UiInv, Screen
  <2>4. Files(id, Receipt(airdrop))
        BY <1>8, <2>1 DEF Files, op
  <2> QED BY <1>1, <1>4, <2>3, <2>4
<1>9. CASE /\ op.name = "prove" /\ state # Nothing /\ finishJob(id, Marker)
           /\ claim_tx' = <<state.airdrop_id, read[id].wallet>>
           /\ UNCHANGED <<existing, claimed, registry>>
  <2>1. CliKept
        BY <1>2, <1>3, <1>9 DEF CliKept, UiInv, Screen
  <2>2. Files(id, Marker)
        BY <1>9 DEF Files, op
  <2> QED BY <1>1, <1>4, <2>1, <2>2
<1>10. CASE /\ op.name = "fund" /\ state # Nothing /\ finishJob(id, Marker)
            /\ SaveState(state) /\ UNCHANGED <<existing, claimed, claim_tx>>
  <2>1. registry' \in [Names -> existing' \cup {Nothing}]
        BY <1>3, <1>10, Saved
  <2>2. CliKept
        BY <1>10, <2>1 DEF CliKept, UiInv, Screen
  <2>3. Files(id, Marker)
        BY <1>10 DEF Files, op
  <2> QED BY <1>1, <1>4, <2>2, <2>3
<1>11. CASE /\ op.name = "claim" /\ state # Nothing /\ tx # Nothing /\ finishJob(id, Marker)
            /\ claimed' = claimed \cup {tx}
            /\ SaveState(state) /\ UNCHANGED <<existing, claim_tx>>
  <2>1. registry' \in [Names -> existing' \cup {Nothing}]
        BY <1>3, <1>11, Saved
  <2>2. claimed' \subseteq existing' \X Wallets
        BY <1>2, <1>11 DEF UiInv, Screen
  <2>3. CliKept
        BY <1>11, <2>1, <2>2 DEF CliKept, UiInv, Screen
  <2>4. Files(id, Marker)
        BY <1>11 DEF Files, op
  <2> QED BY <1>1, <1>4, <2>3, <2>4
<1> HIDE DEF op, state, tx
<1>12. \/ /\ \/ finishJob(id, Failure("error"))
             \/ finishJob(id, Rejected("error"))
             \/ finishJob(id, Rejected("already claimed"))
             \/ finishJob(id, Failure("already claimed"))
             \/ op.name \in {"checkEligibility", "verify"} /\ finishJob(id, Marker)
          /\ UNCHANGED cliVars
       \/ /\ op.name = "initDistribution"
          /\ \E airdrop \in Airdrops \ existing :
               /\ finishJob(id, Receipt(airdrop)) /\ existing' = existing \cup {airdrop}
               /\ SaveState([name |-> DefaultName, airdrop_id |-> airdrop])
          /\ UNCHANGED <<claimed, claim_tx>>
       \/ /\ op.name = "prove" /\ state # Nothing /\ finishJob(id, Marker)
          /\ claim_tx' = <<state.airdrop_id, read[id].wallet>>
          /\ UNCHANGED <<existing, claimed, registry>>
       \/ /\ op.name = "fund" /\ state # Nothing /\ finishJob(id, Marker)
          /\ SaveState(state) /\ UNCHANGED <<existing, claimed, claim_tx>>
       \/ /\ op.name = "claim" /\ state # Nothing /\ tx # Nothing /\ finishJob(id, Marker)
          /\ claimed' = claimed \cup {tx}
          /\ SaveState(state) /\ UNCHANGED <<existing, claim_tx>>
       BY DEF RunCli, op, state, tx
<1> QED BY <1>7, <1>8, <1>9, <1>10, <1>11, <1>12

\* A command reads the files, once and before it ends.
LEMMA FilesRead ==
    ASSUME StoreAssumption, UiAssumption, UiInv, NEW id \in workers, LoadFiles(id)
    PROVE  /\ UNCHANGED <<storeVars, cliVars>>
           /\ read[id] = Nothing /\ Reads'
           /\ \A other \in (1 .. MaxJobs) \ {id} : read'[other] = read[other]
           /\ read'[id].tx \in {claim_tx, Nothing}
<1> DEFINE op == jobs[id].operation
           reading(state) ==
             [state |-> state,
              wallet |-> IF op.name \in {"checkEligibility", "prove"} THEN wallet ELSE Nothing,
              tx |-> IF op.name \in {"verify", "claim"} THEN claim_tx ELSE Nothing]
<1>1. PICK state \in StatesFor(op.target) : read' = [read EXCEPT ![id] = reading(state)]
      BY DEF LoadFiles
<1>2. state \in Entry \cup {Nothing}
      BY <1>1, StatesTyped
<1>3. wallet \in Wallets /\ claim_tx \in (existing \X Wallets) \cup {Nothing}
      BY DEF UiInv, Screen
<1>4. /\ reading(state) \in Readings /\ reading(state).tx \in {claim_tx, Nothing}
      /\ op.name = "prove" => reading(state).wallet \in Wallets
      BY <1>2, <1>3 DEF Readings
<1>5. id \in DOMAIN jobs /\ id \in 1 .. MaxJobs
      BY DEF UiInv, JobTable, StoreAssumption
<1>6. UNCHANGED <<storeVars, cliVars>> /\ read[id] = Nothing
      BY DEF LoadFiles
<1> HIDE DEF reading
<1>7. /\ read' = [other \in 1 .. MaxJobs |-> read'[other]] /\ read'[id] = reading(state)
      /\ \A other \in (1 .. MaxJobs) \ {id} : read'[other] = read[other]
      BY <1>1, <1>5 DEF UiInv, Reads
<1>8. Reads'
  <2>1. ASSUME NEW other \in 1 .. MaxJobs, read'[other] # Nothing
        PROVE  ReadOK(other)'
    <3>1. CASE other = id
          BY <3>1, <1>4, <1>5, <1>6, <1>7 DEF ReadOK, Readings, Entry, storeVars, cliVars, op
    <3>2. CASE other # id
      <4>1. read'[other] = read[other] /\ ReadOK(other)
            BY <3>2, <2>1, <1>7 DEF UiInv, Reads
      <4> QED BY <4>1, <1>6 DEF ReadOK, Readings, Entry, storeVars, cliVars
    <3> QED BY <3>1, <3>2
  <2>2. \A other \in DOMAIN jobs : other \notin workers => other # id /\ other \in 1 .. MaxJobs
        BY DEF UiInv, JobTable, StoreAssumption
  <2>3. \A other \in DOMAIN jobs' : other \notin workers' => read'[other] # Nothing
        BY <2>2, <1>6, <1>7 DEF UiInv, Reads, storeVars
  <2> QED BY <2>1, <2>3, <1>7 DEF Reads
<1> QED BY <1>4, <1>6, <1>7, <1>8

LEMMA WorkerStep ==
    ASSUME StoreAssumption, UiAssumption, UiInv, NEW id \in workers, Worker(id)
    PROVE  UiInv'
<1>1. UNCHANGED <<wallet, screenVars, slotVars, abandoned>>
      BY DEF Worker
<1>2. CASE LoadFiles(id)
  <2>1. UNCHANGED <<storeVars, cliVars>> /\ Reads'
        BY <1>2, FilesRead
  <2> QED BY <2>1, <1>1 DEF UiInv, JobTable, Screen, Receipts, ReceiptOK, SlotJobs, NoJobForgotten,
             storeVars, cliVars, screenVars, listVars, slotVars
<1>3. CASE RunCli(id)
  <2> DEFINE op == jobs[id].operation
  <2>1. id \in DOMAIN jobs /\ ReceiptOK(op, jobs[id].output)
        BY DEF UiInv, JobTable, Receipts
  <2>2. CliKept /\ read[id] # Nothing /\ read' = read
        BY <1>3, CommandEnds DEF RunCli
  <2>3. PICK output \in Outputs : Files(id, output)
        BY <1>3, CommandEnds
  <2>4. /\ JobTable'
        /\ DOMAIN jobs' = DOMAIN jobs
        /\ jobs'[id].operation = op
        /\ jobs'[id].output = output
        /\ \A other \in DOMAIN jobs \ {id} : jobs'[other] = jobs[other]
        /\ workers' = workers \ {id}
        BY <2>3, FinishedJob DEF UiInv, Files
  <2>5. Screen'
        BY <2>2, <1>1 DEF UiInv, Screen, CliKept, screenVars, listVars, slotVars
  <2>6. Receipts'
    <3>1. ReceiptOK(jobs[id].operation, jobs[id].output)'
          BY <2>2, <2>3, <2>4 DEF ReceiptOK, Files
    <3>2. ASSUME NEW other \in DOMAIN jobs \ {id}
          PROVE  ReceiptOK(jobs[other].operation, jobs[other].output)'
      <4>1. ReceiptOK(jobs[other].operation, jobs[other].output)
            BY DEF UiInv, Receipts
      <4> QED BY <4>1, <2>2, <2>4 DEF ReceiptOK, CliKept
    <3> QED BY <3>1, <3>2, <2>4 DEF Receipts
  <2>7. \A other \in DOMAIN jobs : jobs'[other].operation = jobs[other].operation
        BY <2>4
  <2>8. Reads'
    <3>1. Readings \subseteq Readings'
          BY <2>2 DEF Readings, Entry, CliKept
    <3>2. \A other \in 1 .. MaxJobs : read[other] # Nothing => ReadOK(other)'
          BY <3>1, <2>2, <2>4, <2>7 DEF UiInv, Reads, ReadOK
    <3> QED BY <3>2, <2>2, <2>4 DEF UiInv, Reads
  <2>9. SlotJobs'
        BY <2>7, <2>4, <1>1 DEF UiInv, SlotJobs, slotVars
  <2>10. NoJobForgotten'
         BY <2>4, <1>1 DEF UiInv, NoJobForgotten, slotVars
  <2> QED BY <2>4, <2>5, <2>6, <2>8, <2>9, <2>10 DEF UiInv
<1> QED BY <1>2, <1>3 DEF Worker

LEMMA StartActionStep ==
    ASSUME StoreAssumption, UiAssumption, UiInv, NEW kind \in ActionKinds, NEW lost \in BOOLEAN,
           StartAction(kind, lost), action = Nothing
    PROVE  UiInv'
<1>1. kind \in CommandNames
      BY DEF UiAssumption, CommandNames
<1>2. ActionTarget(kind) \in Targets
      BY DEF UiInv, Screen, ActionTarget, Targets
<1>3. CallStart(kind, ActionTarget(kind), lost) /\ UNCHANGED <<cliVars, read>>
      BY DEF StartAction
<1>4. Starts(kind, ActionTarget(kind), lost)
      BY <1>1, <1>2, <1>3, CallStarted
<1>5. /\ UNCHANGED <<cliVars, wallet, listVars, selected, lastAirdrop, sample, duplicate>>
      /\ action' = IF lost THEN Nothing ELSE [kind |-> kind, job |-> nextId']
      BY DEF StartAction
<1>6. /\ ~lost => action' \in Actions /\ action'.job = nextId' /\ action'.kind = kind
      /\ lost => action' = Nothing
      BY <1>4, <1>5 DEF Actions, Starts
<1>7. ~lost => action' # Nothing
      BY <1>6 DEF UiAssumption
<1>8. Screen'
      BY <1>5, <1>6 DEF UiInv, Screen, cliVars, listVars
<1>9. SlotJobs'
      BY <1>4, <1>5, <1>6 DEF UiInv, SlotJobs, Starts
<1>10. NoJobForgotten'
  <2> SUFFICES ASSUME NEW id \in workers', id \notin abandoned'
               PROVE  \E slot \in {sample', action', duplicate'} \ {Nothing} : slot.job = id
      BY DEF NoJobForgotten
  <2>1. CASE id = nextId'
        BY <2>1, <1>4, <1>6, <1>7 DEF Starts
  <2>2. CASE id \in workers
        BY <2>2, <1>4, <1>5 DEF UiInv, NoJobForgotten, Starts
  <2> QED BY <2>1, <2>2, <1>4 DEF Starts
<1> QED BY <1>4, <1>8, <1>9, <1>10 DEF UiInv, Starts

LEMMA StartSampleStep ==
    ASSUME StoreAssumption, UiAssumption, UiInv, NEW lost \in BOOLEAN, startSampleStep(lost)
    PROVE  UiInv'
<1>1. /\ sample # Nothing /\ sample \in Samples /\ sample.job = Nothing
      /\ sample.step \in 1 .. Len(sampleSteps) /\ sample.name \in Names
      BY DEF startSampleStep, UiInv, Screen, Samples
<1> DEFINE name == sampleSteps[sample.step]
           target == sample.name
<1>2. name \in CommandNames
      BY <1>1 DEF sampleSteps, CommandNames
<1>3. CallStart(name, target, lost) /\ UNCHANGED <<cliVars, read>>
      BY DEF startSampleStep
<1>4. target \in Targets
      BY <1>1 DEF Targets
<1> HIDE DEF name, target
<1>5. Starts(name, target, lost)
      BY <1>2, <1>3, <1>4, CallStarted
<1>6. /\ UNCHANGED <<cliVars, wallet, listVars, selected, lastAirdrop, action, duplicate>>
      /\ lost => sample' = Nothing
      /\ ~lost => sample' = [sample EXCEPT !.job = nextId']
      BY DEF startSampleStep, failSampleStep
<1>7. ~lost => /\ sample' \in Samples /\ sample'.job = nextId'
               /\ sample'.step = sample.step /\ sample'.name = sample.name
      BY <1>1, <1>5, <1>6 DEF Samples, Starts
<1>8. ~lost => sample' # Nothing
      BY <1>7 DEF UiAssumption
<1>9. Screen'
      BY <1>1, <1>6, <1>7 DEF UiInv, Screen, cliVars, listVars
<1>10. SlotJobs'
      BY <1>1, <1>5, <1>6, <1>7 DEF UiInv, SlotJobs, name, target, Starts
<1>11. NoJobForgotten'
  <2> SUFFICES ASSUME NEW id \in workers', id \notin abandoned'
               PROVE  \E slot \in {sample', action', duplicate'} \ {Nothing} : slot.job = id
      BY DEF NoJobForgotten
  <2>1. CASE id = nextId'
        BY <2>1, <1>5, <1>7, <1>8 DEF Starts
  <2>2. CASE id \in workers
    <3>1. id # Nothing
      <4>1. id \in 1 .. MaxJobs
            BY <2>2 DEF UiInv, JobTable, StoreAssumption
      <4> QED BY <4>1 DEF UiAssumption
    <3>2. \E slot \in {sample, action, duplicate} \ {Nothing} : slot.job = id
          BY <2>2, <1>5 DEF UiInv, NoJobForgotten, Starts
    <3> QED BY <3>1, <3>2, <1>1, <1>6
  <2> QED BY <2>1, <2>2, <1>5 DEF Starts
<1> QED BY <1>5, <1>9, <1>10, <1>11 DEF UiInv, Starts

LEMMA ClaimNames ==
    ASSUME UiInv
    PROVE  claimAirdropNames \subseteq Names
<1>1. Entries(airdrops) \subseteq [name: Names, airdrop_id: existing]
      BY DEF Entries, UiInv, Screen
<1> QED BY <1>1 DEF claimAirdropNames, UiInv, Screen

\* The list is that of the registry, or empty.
LEMMA Refreshed ==
    ASSUME UiInv, refreshAirdrops, existing' = existing
    PROVE  airdrops' \in [Names -> existing' \cup {Nothing}]
BY DEF refreshAirdrops, UiInv, Screen

LEMMA SubmitClaimAnyway ==
    ASSUME StoreAssumption, UiAssumption, UiInv, NEW lost \in BOOLEAN, submitClaimAnyway(lost)
    PROVE  UiInv'
<1>1. "claim" \in CommandNames /\ claimAirdropNames \subseteq Targets
      BY ClaimNames DEF CommandNames, Targets
<1>2. PICK name \in claimAirdropNames : CallStart("claim", name, lost)
      BY DEF submitClaimAnyway
<1>3. Starts("claim", name, lost)
      BY <1>1, <1>2, CallStarted DEF submitClaimAnyway
<1>4. /\ UNCHANGED <<cliVars, wallet, listVars, selected, lastAirdrop, sample, action>>
      /\ duplicate = Nothing
      /\ duplicate' = IF lost THEN Nothing ELSE [job |-> nextId']
      BY DEF submitClaimAnyway
<1>5. /\ ~lost => duplicate' \in Duplicates /\ duplicate'.job = nextId'
      /\ lost => duplicate' = Nothing
      BY <1>3, <1>4 DEF Duplicates, Starts
<1>6. ~lost => duplicate' # Nothing
      BY <1>5 DEF UiAssumption
<1>7. Screen'
      BY <1>4, <1>5 DEF UiInv, Screen, cliVars, listVars
<1>8. SlotJobs'
      BY <1>3, <1>4, <1>5 DEF UiInv, SlotJobs, Starts
<1>9. NoJobForgotten'
  <2> SUFFICES ASSUME NEW id \in workers', id \notin abandoned'
               PROVE  \E slot \in {sample', action', duplicate'} \ {Nothing} : slot.job = id
      BY DEF NoJobForgotten
  <2>1. CASE id = nextId'
        BY <2>1, <1>3, <1>5, <1>6 DEF Starts
  <2>2. CASE id \in workers
        BY <2>2, <1>3, <1>4 DEF UiInv, NoJobForgotten, Starts
  <2> QED BY <2>1, <2>2, <1>3 DEF Starts
<1> QED BY <1>3, <1>7, <1>8, <1>9 DEF UiInv, Starts

LEMMA WorkerIsId ==
    ASSUME StoreAssumption, UiAssumption, UiInv, NEW id \in workers
    PROVE  id \in DOMAIN jobs /\ id # Nothing
<1>1. id \in DOMAIN jobs /\ id \in 1 .. MaxJobs
      BY DEF UiInv, JobTable, StoreAssumption
<1> QED BY <1>1 DEF UiAssumption

\* Steps that leave the jobs and the slots alone, and those that empty a slot.
LEMMA JobsUntouched ==
    ASSUME UiInv, UNCHANGED <<storeVars, cliVars, read>>
    PROVE  JobTable' /\ Receipts' /\ Reads'
<1>1. JobTable'
      BY DEF UiInv, JobTable, storeVars
<1>2. Receipts'
      BY DEF UiInv, Receipts, ReceiptOK, storeVars, cliVars
<1>3. Reads'
      BY DEF UiInv, Reads, ReadOK, Readings, Entry, storeVars, cliVars
<1> QED BY <1>1, <1>2, <1>3

LEMMA FinishSampleStep ==
    ASSUME StoreAssumption, UiAssumption, UiInv, finishSample
    PROVE  UiInv'
<1>1. /\ UNCHANGED <<storeVars, cliVars, read, wallet, airdropName, selected, lastAirdrop, action,
                     duplicate, abandoned>>
      /\ refreshAirdrops
      /\ sample' = Nothing /\ sample # Nothing /\ ~(sample.step \in 1 .. Len(sampleSteps))
  <2>1. Len(sampleSteps) = 4
        BY DEF sampleSteps
  <2> QED BY <2>1 DEF finishSample
<1>2. sample.job = Nothing
      BY <1>1 DEF UiInv, SlotJobs
<1>3. JobTable' /\ Receipts' /\ Reads'
      BY <1>1, JobsUntouched
<1>4. Screen'
      BY <1>1, Refreshed DEF UiInv, Screen, cliVars
<1>5. SlotJobs'
      BY <1>1 DEF UiInv, SlotJobs, storeVars
<1>6. NoJobForgotten'
      BY <1>1, <1>2, WorkerIsId DEF UiInv, NoJobForgotten, storeVars
<1> QED BY <1>3, <1>4, <1>5, <1>6 DEF UiInv

LEMMA PollSampleStep ==
    ASSUME StoreAssumption, UiAssumption, UiInv, pollSampleJob
    PROVE  UiInv'
<1>1. /\ UNCHANGED <<storeVars, cliVars, read, wallet, listVars, selected, lastAirdrop, action,
                     duplicate>>
      /\ sample # Nothing /\ sample.job # Nothing /\ sample \in Samples
      BY DEF pollSampleJob, UiInv, Screen
<1>2. sample.step \in 1 .. 4 /\ sample.job \in DOMAIN jobs /\ Len(sampleSteps) = 4
      BY <1>1 DEF UiInv, SlotJobs, sampleSteps
<1>3. PICK output \in Outputs :
        /\ PollEnds(sample.job, output)
        /\ \/ sample' = [sample EXCEPT !.step = @ + 1, !.job = Nothing]
           \/ sample' = Nothing
      BY DEF pollSampleJob, failSampleStep
<1>4. /\ abandoned \subseteq abandoned'
      /\ sample.job \in workers => sample.job \in abandoned'
      BY <1>2, <1>3, Polled
<1>5. sample' # Nothing => /\ sample' \in Samples /\ sample'.job = Nothing
                           /\ sample'.name = sample.name
  <2>1. sample.step + 1 \in 1 .. Len(sampleSteps) + 1
        BY <1>2
  <2> QED BY <1>1, <1>3, <2>1 DEF Samples
<1>6. JobTable' /\ Receipts' /\ Reads'
      BY <1>1, JobsUntouched
<1>7. Screen'
      BY <1>1, <1>5 DEF UiInv, Screen, cliVars, listVars
<1>8. SlotJobs'
      BY <1>1, <1>5 DEF UiInv, SlotJobs, storeVars
<1>9. NoJobForgotten'
      BY <1>1, <1>4 DEF UiInv, NoJobForgotten, storeVars
<1> QED BY <1>6, <1>7, <1>8, <1>9 DEF UiInv

LEMMA PollActionStep ==
    ASSUME StoreAssumption, UiAssumption, UiInv, pollActionJob
    PROVE  UiInv'
<1>1. /\ UNCHANGED <<storeVars, cliVars, read, wallet, airdropName, sample, duplicate>>
      /\ action # Nothing /\ action' = Nothing
      BY DEF pollActionJob
<1>2. action.job \in DOMAIN jobs /\ jobs[action.job].operation.name = action.kind
      BY <1>1 DEF UiInv, SlotJobs
<1> DEFINE receipt(output) ==
             action.kind = "initDistribution" /\ \E airdrop \in Airdrops : output = Receipt(airdrop)
<1>3. PICK output \in Outputs :
        /\ PollEnds(action.job, output)
        /\ IF output.text = "marker" THEN refreshAirdrops ELSE UNCHANGED airdrops
        /\ IF receipt(output)
             THEN selected' = output.airdrop /\ lastAirdrop' = output.airdrop
             ELSE UNCHANGED <<selected, lastAirdrop>>
      BY DEF pollActionJob
<1>4. /\ abandoned \subseteq abandoned'
      /\ action.job \in workers => action.job \in abandoned'
      /\ output.text = "marker" => output = jobs[action.job].output
      BY <1>2, <1>3, Polled
<1>5. selected' \in existing /\ lastAirdrop' \in existing \cup {Nothing}
  <2>1. CASE receipt(output)
    <3>1. output # Nothing /\ output.text = "marker"
          BY <2>1 DEF UiAssumption, Receipt
    <3>2. PICK airdrop \in existing : output = Receipt(airdrop)
          BY <2>1, <3>1, <1>2, <1>4 DEF UiInv, Receipts, ReceiptOK
    <3>3. output.airdrop \in existing
          BY <3>2 DEF Receipt
    <3> QED BY <2>1, <3>3, <1>3
  <2>2. CASE ~receipt(output)
        BY <2>2, <1>3 DEF UiInv, Screen
  <2> QED BY <2>1, <2>2
<1>6. JobTable' /\ Receipts' /\ Reads'
      BY <1>1, JobsUntouched
<1>7. Screen'
  <2>1. airdrops' \in [Names -> existing' \cup {Nothing}]
        BY <1>1, <1>3, Refreshed DEF UiInv, Screen, cliVars
  <2> QED BY <2>1, <1>1, <1>5 DEF UiInv, Screen, cliVars
<1>8. SlotJobs'
      BY <1>1 DEF UiInv, SlotJobs, storeVars
<1>9. NoJobForgotten'
      BY <1>1, <1>4 DEF UiInv, NoJobForgotten, storeVars
<1> QED BY <1>6, <1>7, <1>8, <1>9 DEF UiInv

LEMMA PollDuplicateStep ==
    ASSUME StoreAssumption, UiAssumption, UiInv, pollDuplicateClaimJob
    PROVE  UiInv'
<1>1. /\ UNCHANGED <<storeVars, cliVars, read, wallet, listVars, selected, lastAirdrop, sample,
                     action>>
      /\ duplicate # Nothing /\ duplicate' = Nothing
      BY DEF pollDuplicateClaimJob
<1>2. duplicate.job \in DOMAIN jobs
      BY <1>1 DEF UiInv, SlotJobs
<1>3. PICK output \in Outputs : PollEnds(duplicate.job, output)
      BY DEF pollDuplicateClaimJob
<1>4. /\ abandoned \subseteq abandoned'
      /\ duplicate.job \in workers => duplicate.job \in abandoned'
      BY <1>2, <1>3, Polled
<1>5. JobTable' /\ Receipts' /\ Reads'
      BY <1>1, JobsUntouched
<1>6. Screen'
      BY <1>1 DEF UiInv, Screen, cliVars, listVars
<1>7. SlotJobs'
      BY <1>1 DEF UiInv, SlotJobs, storeVars
<1>8. NoJobForgotten'
      BY <1>1, <1>4 DEF UiInv, NoJobForgotten, storeVars
<1> QED BY <1>5, <1>6, <1>7, <1>8 DEF UiInv

LEMMA UserStep ==
    ASSUME StoreAssumption, UiAssumption, UiInv,
           \/ selectRegistryAirdrop \/ RefreshList
           \/ importClaimantWallet \/ refreshClaimEligibility
           \/ \E kind \in ActionKinds, lost \in BOOLEAN : StartAction(kind, lost) /\ action # Nothing
    PROVE  UiInv'
<1>1. UNCHANGED <<storeVars, cliVars, read, lastAirdrop, slotVars, abandoned>>
      BY DEF selectRegistryAirdrop, RefreshList, importClaimantWallet, refreshClaimEligibility,
        StartAction, slotVars
<1>2. /\ selected' \in existing /\ wallet' \in Wallets /\ airdropName' \in Names
      /\ airdrops' \in [Names -> existing' \cup {Nothing}]
  <2>1. existing' = existing /\ selected \in existing /\ wallet \in Wallets /\ airdropName \in Names
        /\ airdrops \in [Names -> existing \cup {Nothing}]
        BY <1>1 DEF cliVars, UiInv, Screen
  <2>2. CASE selectRegistryAirdrop
    <3>1. \A entry \in Entries(airdrops) : entry.airdrop_id \in existing /\ entry.name \in Names
          BY <2>1 DEF Entries
    <3> QED BY <2>1, <2>2, <3>1 DEF selectRegistryAirdrop
  <2>3. CASE RefreshList
        BY <2>1, <2>3, Refreshed DEF RefreshList
  <2>4. CASE importClaimantWallet
        BY <2>1, <2>4 DEF importClaimantWallet, listVars
  <2>5. CASE refreshClaimEligibility
        BY <2>1, <2>5 DEF refreshClaimEligibility, listVars
  <2>6. CASE \E kind \in ActionKinds, lost \in BOOLEAN : StartAction(kind, lost)
        BY <2>1, <2>6 DEF StartAction, listVars
  <2> QED BY <2>2, <2>3, <2>4, <2>5, <2>6
<1>3. JobTable' /\ Receipts' /\ Reads'
      BY <1>1, JobsUntouched
<1>4. Screen'
      BY <1>1, <1>2 DEF UiInv, Screen, cliVars, slotVars
<1>5. SlotJobs'
      BY <1>1 DEF UiInv, SlotJobs, storeVars, slotVars
<1>6. NoJobForgotten'
      BY <1>1 DEF UiInv, NoJobForgotten, storeVars, slotVars
<1> QED BY <1>3, <1>4, <1>5, <1>6 DEF UiInv

LEMMA ClaimStep ==
    ASSUME StoreAssumption, UiAssumption, UiInv, claimCurrentDistribution
    PROVE  UiInv'
<1>1. /\ UNCHANGED <<storeVars, cliVars, read, wallet, listVars, selected, lastAirdrop, action,
                     duplicate, abandoned>>
      /\ sample = Nothing
      /\ \E name \in claimAirdropNames : sample' = [name |-> name, step |-> 1, job |-> Nothing]
      BY DEF claimCurrentDistribution
<1>2. sample' \in Samples /\ sample'.job = Nothing
  <2>1. Len(sampleSteps) = 4
        BY DEF sampleSteps
  <2>2. claimAirdropNames \subseteq Names
        BY ClaimNames
  <2> QED BY <1>1, <2>1, <2>2 DEF Samples
<1>3. JobTable' /\ Receipts' /\ Reads'
      BY <1>1, JobsUntouched
<1>4. Screen'
      BY <1>1, <1>2 DEF UiInv, Screen, cliVars, listVars
<1>5. SlotJobs'
      BY <1>1, <1>2 DEF UiInv, SlotJobs, storeVars
<1>6. NoJobForgotten'
      BY <1>1 DEF UiInv, NoJobForgotten, storeVars
<1> QED BY <1>3, <1>4, <1>5, <1>6 DEF UiInv

LEMMA UiStep == StoreAssumption /\ UiAssumption /\ UiInv /\ [UiNext]_uiVars => UiInv'
<1> SUFFICES ASSUME StoreAssumption, UiAssumption, UiInv, [UiNext]_uiVars PROVE UiInv'
    OBVIOUS
<1>1. CASE UNCHANGED uiVars
  <2>1. UNCHANGED <<storeVars, cliVars, read, wallet, screenVars, slotVars, abandoned>>
        BY <1>1 DEF uiVars
  <2>2. JobTable' /\ Receipts' /\ Reads'
        BY <2>1, JobsUntouched
  <2>3. Screen'
        BY <2>1 DEF UiInv, Screen, cliVars, screenVars, listVars, slotVars
  <2>4. SlotJobs'
        BY <2>1 DEF UiInv, SlotJobs, storeVars, slotVars
  <2>5. NoJobForgotten'
        BY <2>1 DEF UiInv, NoJobForgotten, storeVars, slotVars
  <2> QED BY <2>2, <2>3, <2>4, <2>5 DEF UiInv
<1>2. CASE User
      BY <1>2, UserStep, ClaimStep, StartActionStep, SubmitClaimAnyway DEF User
<1>3. CASE runNextSampleStep
      BY <1>3, FinishSampleStep, StartSampleStep DEF runNextSampleStep
<1>4. CASE pollSampleJob \/ pollActionJob \/ pollDuplicateClaimJob
      BY <1>4, PollSampleStep, PollActionStep, PollDuplicateStep
<1>5. CASE \E id \in workers : Worker(id)
      BY <1>5, WorkerStep
<1> QED BY <1>1, <1>2, <1>3, <1>4, <1>5 DEF UiNext

\* The inductive invariant holds throughout: ids are drawn once, a slot is filled
\* only while it is empty and emptied only by the poll of its job, so slots, job
\* table and screens agree, however jobs, polls and clicks interleave (startJob,
\* startActionJob, the poll functions).
THEOREM UiInvariant == UiSpec => []UiInv
BY StoreAssumption, UiAssumption, UiInitInv, UiStep, PTL DEF UiSpec

\* Ids, records, slots and the distributions the screens name stay well typed: a
\* record without its output is that of a running job, and no receipt makes the UI
\* select a distribution that does not exist (finishJob, pollActionJob).
THEOREM UiTypeCorrect == UiSpec => []UiTypeOK
<1>1. UiInv => UiTypeOK
      BY DEF UiInv, JobTable, Screen, UiTypeOK
<1> QED BY <1>1, UiInvariant, PTL

\* The UI waits for every job it started and that still runs, unless the bridge
\* lost it, however many jobs and failures there are (startActionJob,
\* startSampleStep, submitClaimAnyway and the polls).
THEOREM EveryJobIsWatched == UiSpec => []NoJobForgotten
<1>1. UiInv => NoJobForgotten
      BY DEF UiInv
<1> QED BY <1>1, UiInvariant, PTL

-----------------------------------------------------------------------------
(* What every step does to the store, and the action properties.            *)

\* Results stay: what is not running keeps its record, and a job keeps its
\* operation.
JobsStay ==
    /\ nextId <= nextId'
    /\ DOMAIN jobs \subseteq DOMAIN jobs'
    /\ \A id \in DOMAIN jobs : ~Running(id) => jobs'[id] = jobs[id]
    /\ \A id \in DOMAIN jobs : jobs'[id].operation = jobs[id].operation

\* A step of the UI starts a job at most and touches no file of the CLI.
JobsKept ==
    /\ nextId <= nextId' /\ UNCHANGED <<cliVars, read>>
    /\ DOMAIN jobs \subseteq DOMAIN jobs'
    /\ \A id \in DOMAIN jobs : jobs'[id] = jobs[id]
    /\ \A id \in DOMAIN jobs' \ DOMAIN jobs : jobs'[id].output = Nothing

LEMMA CallKeepsJobs ==
    ASSUME StoreAssumption, UiAssumption, UiInv, NEW name \in CommandNames,
           NEW target \in Targets, NEW lost \in BOOLEAN,
           CallStart(name, target, lost), UNCHANGED <<cliVars, read>>
    PROVE  JobsKept
<1>1. Starts(name, target, lost)
      BY CallStarted
<1>2. nextId <= nextId'
  <2>1. nextId \in Nat /\ nextId' = nextId + 1
        BY <1>1 DEF UiInv, JobTable, Starts
  <2> QED BY <2>1
<1> QED BY <1>1, <1>2 DEF JobsKept, Starts

LEMMA UiKeepsJobs ==
    ASSUME StoreAssumption, UiAssumption, UiInv, [UiNext]_uiVars
    PROVE  JobsStay /\ (JobsKept \/ \E id \in workers : Worker(id))
<1> nextId \in Nat
    BY DEF UiInv, JobTable
<1>1. JobsKept => JobsStay
      BY DEF JobsKept, JobsStay
<1>2. ASSUME UNCHANGED <<storeVars, cliVars, read>> PROVE JobsKept
  <2>1. jobs' = jobs /\ nextId' = nextId
        BY <1>2 DEF storeVars
  <2>2. /\ nextId <= nextId' /\ DOMAIN jobs \subseteq DOMAIN jobs'
        /\ \A id \in DOMAIN jobs : jobs'[id] = jobs[id]
        /\ \A id \in DOMAIN jobs' \ DOMAIN jobs : jobs'[id].output = Nothing
        BY <2>1
  <2>3. UNCHANGED <<cliVars, read>>
        BY <1>2
  <2> QED BY <2>2, <2>3 DEF JobsKept
<1>3. ASSUME NEW id \in workers, Worker(id) PROVE JobsStay
  <2>1. CASE LoadFiles(id)
        BY <2>1 DEF LoadFiles, JobsStay, storeVars
  <2>2. CASE RunCli(id)
    <3>1. PICK output \in Outputs : finishJob(id, output)
          BY <2>2, CommandEnds DEF Files
    <3>2. Running(id)
          BY <1>3 DEF UiInv, JobTable, Running
    <3> QED BY <3>1, <3>2, FinishedJob DEF UiInv, JobsStay
  <2> QED BY <1>3, <2>1, <2>2 DEF Worker
<1>4. ASSUME NEW kind \in ActionKinds, NEW lost \in BOOLEAN, StartAction(kind, lost)
      PROVE  JobsKept
  <2>1. kind \in CommandNames /\ ActionTarget(kind) \in Targets
        BY DEF UiAssumption, CommandNames, UiInv, Screen, ActionTarget, Targets
  <2>2. UNCHANGED <<cliVars, read>>
        BY <1>4 DEF StartAction
  <2>3. CASE action # Nothing
    <3>1. UNCHANGED storeVars
          BY <1>4, <2>3 DEF StartAction
    <3>2. UNCHANGED <<storeVars, cliVars, read>>
          BY <3>1, <2>2
    <3> QED BY <3>2, <1>2
  <2>4. CASE action = Nothing
    <3>1. CallStart(kind, ActionTarget(kind), lost)
          BY <1>4, <2>4 DEF StartAction
    <3> QED BY <3>1, <2>1, <2>2, CallKeepsJobs
  <2> QED BY <2>3, <2>4
<1>5. ASSUME NEW lost \in BOOLEAN, startSampleStep(lost) PROVE JobsKept
  <2> DEFINE name == sampleSteps[sample.step]
             target == sample.name
  <2>1. sample \in Samples /\ sample.step \in 1 .. Len(sampleSteps) /\ target \in Targets
        BY <1>5 DEF startSampleStep, UiInv, Screen, Samples, Targets
  <2>2. name \in CommandNames
        BY <2>1 DEF sampleSteps, CommandNames
  <2>3. CallStart(name, target, lost) /\ UNCHANGED <<cliVars, read>>
        BY <1>5 DEF startSampleStep
  <2> HIDE DEF name, target
  <2> QED BY <2>1, <2>2, <2>3, CallKeepsJobs
<1>6. ASSUME NEW lost \in BOOLEAN, submitClaimAnyway(lost) PROVE JobsKept
  <2>1. "claim" \in CommandNames /\ claimAirdropNames \subseteq Targets
        BY ClaimNames DEF CommandNames, Targets
  <2>2. PICK name \in claimAirdropNames : CallStart("claim", name, lost)
        BY <1>6 DEF submitClaimAnyway
  <2>3. UNCHANGED <<cliVars, read>>
        BY <1>6 DEF submitClaimAnyway
  <2> QED BY <2>1, <2>2, <2>3, CallKeepsJobs
<1>7. CASE UNCHANGED uiVars
  <2>1. UNCHANGED <<storeVars, cliVars, read>>
        BY <1>7 DEF uiVars
  <2> QED BY <2>1, <1>1, <1>2
<1>8. CASE User
  <2>1. CASE selectRegistryAirdrop \/ RefreshList \/ importClaimantWallet
    <3>1. UNCHANGED <<storeVars, cliVars, read>>
          BY <2>1 DEF selectRegistryAirdrop, RefreshList, importClaimantWallet
    <3> QED BY <3>1, <1>1, <1>2
  <2>2. CASE refreshClaimEligibility \/ claimCurrentDistribution
    <3>1. UNCHANGED <<storeVars, cliVars, read>>
          BY <2>2 DEF refreshClaimEligibility, claimCurrentDistribution
    <3> QED BY <3>1, <1>1, <1>2
  <2> QED BY <1>1, <1>8, <2>1, <2>2, <1>4, <1>6 DEF User
<1>9. CASE runNextSampleStep
  <2>1. CASE finishSample
    <3>1. UNCHANGED <<storeVars, cliVars, read>>
          BY <2>1 DEF finishSample
    <3> QED BY <3>1, <1>1, <1>2
  <2> QED BY <1>1, <1>9, <2>1, <1>5 DEF runNextSampleStep
<1>20. CASE pollSampleJob \/ pollActionJob \/ pollDuplicateClaimJob
  <2>1. UNCHANGED <<storeVars, cliVars, read>>
        BY <1>20 DEF pollSampleJob, pollActionJob, pollDuplicateClaimJob
  <2> QED BY <2>1, <1>1, <1>2
<1> QED BY <1>3, <1>7, <1>8, <1>9, <1>20, <1>1 DEF UiNext

-----------------------------------------------------------------------------
(* What a claim job sends was proved before.                                 *)

Proved(tx) ==
    \E proof \in DOMAIN jobs :
      /\ jobs[proof].operation.name = "prove" /\ jobs[proof].output = Marker
      /\ tx = <<read[proof].state.airdrop_id, read[proof].wallet>>

Evidence ==
    /\ claim_tx # Nothing => Proved(claim_tx)
    /\ \A id \in 1 .. MaxJobs :
         read[id] # Nothing /\ read[id].tx # Nothing => Proved(read[id].tx)
    /\ \A id \in DOMAIN jobs :
         jobs[id].operation.name = "claim" /\ jobs[id].output = Marker =>
           read[id].tx \in claimed /\ read[id].tx[1] = read[id].state.airdrop_id

\* A job that printed its marker has ended and keeps what it has read.
LEMMA ProvedStays ==
    ASSUME StoreAssumption, UiAssumption, UiInv, JobsStay,
           \A id \in 1 .. MaxJobs : read[id] # Nothing => read'[id] = read[id],
           NEW tx, Proved(tx)
    PROVE  Proved(tx)'
<1>1. PICK proof \in DOMAIN jobs :
        /\ jobs[proof].operation.name = "prove" /\ jobs[proof].output = Marker
        /\ tx = <<read[proof].state.airdrop_id, read[proof].wallet>>
      BY DEF Proved
<1>2. proof \notin workers /\ ~Running(proof) /\ proof \in 1 .. MaxJobs
  <2>1. Marker # Nothing
        BY DEF UiAssumption, Outputs
  <2> QED BY <1>1, <2>1 DEF UiInv, JobTable, Running, StoreAssumption
<1>3. read'[proof] = read[proof]
      BY <1>2 DEF UiInv, Reads
<1>4. proof \in DOMAIN jobs' /\ jobs'[proof] = jobs[proof]
      BY <1>2 DEF JobsStay
<1> QED BY <1>1, <1>3, <1>4 DEF Proved

LEMMA EvidenceStep ==
    ASSUME StoreAssumption, UiAssumption, UiInv, UiInv', Evidence, [UiNext]_uiVars
    PROVE  Evidence'
<1>1. JobsStay
      BY UiKeepsJobs
<1>2. CASE JobsKept
  <2>1. \A tx : Proved(tx) => Proved(tx)'
        BY <1>1, <1>2, ProvedStays DEF JobsKept
  <2>2. UNCHANGED <<claim_tx, read, claimed>>
        BY <1>2 DEF JobsKept, cliVars
  <2>3. claim_tx' # Nothing => Proved(claim_tx)'
    <3>1. \A tx : Proved(tx)' <=> \E proof \in DOMAIN jobs' :
             /\ jobs'[proof].operation.name = "prove" /\ jobs'[proof].output = Marker
             /\ tx = <<read'[proof].state.airdrop_id, read'[proof].wallet>>
          BY DEF Proved
    <3> QED BY <2>1, <2>2, <3>1 DEF Evidence, Proved
  <2>4. ASSUME NEW id \in 1 .. MaxJobs, read'[id] # Nothing, read'[id].tx # Nothing
        PROVE  Proved(read[id].tx)'
    <3>1. PICK tx : tx = read[id].tx
          OBVIOUS
    <3>2. Proved(tx)'
          BY <3>1, <2>1, <2>2, <2>4 DEF Evidence
    <3> QED BY <3>1, <3>2, <2>2 DEF Proved
  <2>5. Marker # Nothing
        BY DEF UiAssumption, Outputs
  <2> QED BY <2>2, <2>3, <2>4, <2>5, <1>2 DEF Evidence, JobsKept
<1>3. ASSUME NEW id \in workers, LoadFiles(id) PROVE Evidence'
  <2>1. /\ UNCHANGED <<storeVars, cliVars>>
        /\ read[id] = Nothing
        /\ \A other \in (1 .. MaxJobs) \ {id} : read'[other] = read[other]
        /\ read'[id].tx \in {claim_tx, Nothing}
        BY <1>3, FilesRead
  <2>2. \A tx : Proved(tx) => Proved(tx)'
        BY <1>1, <2>1, ProvedStays
  <2>3. UNCHANGED <<claim_tx, claimed, jobs>>
        BY <2>1 DEF cliVars, storeVars
  <2>4. claim_tx # Nothing => Proved(claim_tx)'
    <3>1. PICK tx : tx = claim_tx
          OBVIOUS
    <3> QED BY <3>1, <2>2, <2>3 DEF Evidence, Proved
  <2>5. ASSUME NEW other \in 1 .. MaxJobs, read'[other] # Nothing, read'[other].tx # Nothing
        PROVE  Proved(read[other].tx)'
    <3>1. CASE other = id
          BY <3>1, <2>1, <2>3, <2>4, <2>5 DEF Proved
    <3>2. CASE other # id
      <4>1. read'[other] = read[other]
            BY <3>2, <2>1
      <4>2. PICK tx : tx = read[other].tx
            OBVIOUS
      <4>3. Proved(tx)
            BY <4>1, <4>2, <2>5 DEF Evidence
      <4>4. Proved(tx)'
            BY <4>3, <2>2
      <4> QED BY <4>1, <4>2, <4>4 DEF Proved
    <3> QED BY <3>1, <3>2
  <2>6. ASSUME NEW other \in DOMAIN jobs, jobs[other].operation.name = "claim",
               jobs[other].output = Marker
        PROVE  read'[other].tx \in claimed /\ read'[other].tx[1] = read'[other].state.airdrop_id
    <3>1. Marker # Nothing
          BY DEF UiAssumption, Outputs
    <3>2. other # id /\ other \in 1 .. MaxJobs
          BY <3>1, <2>6 DEF UiInv, JobTable, StoreAssumption
    <3> QED BY <3>2, <2>1, <2>6 DEF Evidence
  <2> QED BY <2>3, <2>4, <2>5, <2>6 DEF Evidence
<1>4. ASSUME NEW id \in workers, RunCli(id) PROVE Evidence'
  <2>1. PICK output \in Outputs : Files(id, output)
        BY <1>4, CommandEnds
  <2>2. CliKept /\ read' = read /\ id \in 1 .. MaxJobs /\ read[id] # Nothing
    <3>1. CliKept /\ read[id] # Nothing
          BY <1>4, CommandEnds
    <3>2. read' = read
          BY <1>4 DEF RunCli
    <3>3. id \in 1 .. MaxJobs
          BY DEF UiInv, JobTable, StoreAssumption
    <3> QED BY <3>1, <3>2, <3>3
  <2>3. /\ id \in DOMAIN jobs /\ DOMAIN jobs' = DOMAIN jobs
        /\ jobs'[id].operation = jobs[id].operation
        /\ jobs'[id].output = output
        /\ \A other \in DOMAIN jobs \ {id} : jobs'[other] = jobs[other]
        BY <2>1, FinishedJob DEF UiInv, Files
  <2>4. \A tx : Proved(tx) => Proved(tx)'
        BY <1>1, <2>2, ProvedStays
  <2>5. claim_tx' # Nothing => Proved(claim_tx)'
    <3>1. CASE claim_tx' = claim_tx
      <4>1. PICK tx : tx = claim_tx
            OBVIOUS
      <4> QED BY <3>1, <4>1, <2>4 DEF Evidence, Proved
    <3>2. CASE claim_tx' # claim_tx
      <4>1. /\ jobs[id].operation.name = "prove" /\ finishJob(id, Marker)
            /\ claim_tx' = <<read[id].state.airdrop_id, read[id].wallet>>
            BY <3>2, <1>4 DEF RunCli, cliVars
      <4>2. jobs'[id].output = Marker
            BY <4>1, FinishedJob DEF UiInv, Outputs
      <4> QED BY <4>1, <4>2, <2>2, <2>3 DEF Proved
    <3> QED BY <3>1, <3>2
  <2>6. ASSUME NEW other \in 1 .. MaxJobs, read'[other] # Nothing, read'[other].tx # Nothing
        PROVE  Proved(read[other].tx)'
    <3>1. PICK tx : tx = read[other].tx
          OBVIOUS
    <3>2. Proved(tx)'
          BY <3>1, <2>2, <2>4, <2>6 DEF Evidence
    <3> QED BY <3>1, <3>2, <2>2 DEF Proved
  <2>7. ASSUME NEW other \in DOMAIN jobs', jobs'[other].operation.name = "claim",
               jobs'[other].output = Marker
        PROVE  read[other].tx \in claimed' /\ read[other].tx[1] = read[other].state.airdrop_id
    <3>1. CASE other # id
          BY <3>1, <2>2, <2>3, <2>7 DEF Evidence, CliKept
    <3>2. CASE other = id
      <4>1. jobs[id].operation.name = "claim" /\ output = Marker /\ finishJob(id, Marker)
            BY <3>2, <2>1, <2>3, <2>7 DEF Files
      <4>2. /\ Failure("error") # Marker /\ Failure("already claimed") # Marker
            /\ Failure("error") \in Outputs /\ Failure("already claimed") \in Outputs
            BY DEF Failure, Marker, Outputs, Refusals
      <4>3. ~finishJob(id, Failure("error")) /\ ~finishJob(id, Failure("already claimed"))
            BY <4>1, <4>2, <2>3, FinishedJob DEF UiInv
      <4>4. /\ claimed' = claimed \cup {read[id].tx}
            /\ read[id].tx[1] = read[id].state.airdrop_id
            BY <4>1, <4>3, <1>4 DEF RunCli
      <4> QED BY <3>2, <4>4
    <3> QED BY <3>1, <3>2
  <2> QED BY <2>2, <2>5, <2>6, <2>7 DEF Evidence
<1> QED BY <1>2, <1>3, <1>4, UiKeepsJobs DEF Worker

-----------------------------------------------------------------------------
(* The steps of a pipeline.                                                 *)

\* A pipeline with a job behind each step it has done.
Earned(n, name, bound) ==
    \E done \in [1 .. n -> DOMAIN jobs] :
      \A i \in 1 .. n :
        /\ jobs[done[i]].operation = [name |-> sampleSteps[i], target |-> name]
        /\ jobs[done[i]].output = Marker
        /\ done[i] < bound
        /\ \A j \in 1 .. i - 1 : done[j] < done[i]

Progress ==
    sample # Nothing =>
      Earned(sample.step - 1, sample.name,
             IF sample.job = Nothing THEN nextId + 1 ELSE sample.job)

LEMMA EarnedStays ==
    ASSUME UiAssumption, UiInv, JobsStay, NEW n \in Nat, NEW name, NEW b \in Nat, NEW c \in Nat,
           b <= c, Earned(n, name, b)
    PROVE  Earned(n, name, c)'
<1>1. PICK done \in [1 .. n -> DOMAIN jobs] :
        \A i \in 1 .. n :
          /\ jobs[done[i]].operation = [name |-> sampleSteps[i], target |-> name]
          /\ jobs[done[i]].output = Marker
          /\ done[i] < b
          /\ \A j \in 1 .. i - 1 : done[j] < done[i]
      BY DEF Earned
<1>2. \A id \in DOMAIN jobs : jobs[id].output = Marker => jobs'[id] = jobs[id]
  <2>1. Marker # Nothing
        BY DEF UiAssumption, Outputs
  <2> QED BY <2>1 DEF UiInv, JobTable, JobsStay, Running
<1>3. done \in [1 .. n -> DOMAIN jobs']
      BY DEF JobsStay
<1>4. \A id \in DOMAIN jobs : id \in Nat
      BY DEF UiInv, JobTable
<1>5. ASSUME NEW i \in 1 .. n
      PROVE  /\ jobs'[done[i]].operation = [name |-> sampleSteps[i], target |-> name]
             /\ jobs'[done[i]].output = Marker
             /\ done[i] < c
             /\ \A j \in 1 .. i - 1 : done[j] < done[i]
  <2>1. done[i] \in DOMAIN jobs /\ jobs'[done[i]] = jobs[done[i]] /\ done[i] < b
        BY <1>1, <1>2
  <2>2. done[i] < c
        BY <2>1, <1>4
  <2> QED BY <2>1, <2>2, <1>1
<1> QED BY <1>3, <1>5 DEF Earned

\* The result of a finished job never changes, for any number of jobs that start
\* and finish in any order (JobStore).
THEOREM ResultsStay == UiSpec => ResultsAreFinal
<1>1. StoreAssumption /\ UiAssumption /\ UiInv /\ [UiNext]_uiVars =>
        [\A id \in DOMAIN jobs : ~Running(id) => id \in DOMAIN jobs' /\ jobs'[id] = jobs[id]]_storeVars
      BY UiKeepsJobs DEF JobsStay
<1> QED BY <1>1, StoreAssumption, UiAssumption, UiInvariant, PTL DEF UiSpec, ResultsAreFinal

\* The jobs done are known by the time that they were started before Bound.
Bound == IF sample.job = Nothing THEN nextId + 1 ELSE sample.job

\* A pipeline that has done the same steps for the same distribution.
LEMMA PipelineStays ==
    ASSUME StoreAssumption, UiAssumption, UiInv, UiInv', JobsStay, Progress,
           sample # Nothing, sample' # Nothing => /\ sample'.step = sample.step
                                                  /\ sample'.name = sample.name
                                                  /\ Bound <= Bound'
    PROVE  Progress'
<1> SUFFICES ASSUME sample' # Nothing
             PROVE  Earned(sample.step - 1, sample.name, Bound)'
    BY DEF Progress, Bound
<1>1. sample \in Samples /\ sample' \in Samples
      BY DEF UiInv, Screen
<1>2. nextId \in Nat /\ nextId' \in Nat
      BY DEF UiInv, JobTable
<1>3. sample.step - 1 \in Nat /\ Bound \in Nat /\ Bound' \in Nat
  <2>1. sample.step \in 1 .. 5 /\ sample.job \in (1 .. MaxJobs) \cup {Nothing}
        BY <1>1 DEF Samples, sampleSteps
  <2>2. sample'.job \in (1 .. MaxJobs) \cup {Nothing}
        BY <1>1 DEF Samples
  <2>3. nextId + 1 \in Nat /\ nextId' + 1 \in Nat
    <3>1. \A n \in Nat : n + 1 \in Nat
          OBVIOUS
    <3> QED BY <1>2, <3>1
  <2>4. Bound \in Nat
        BY <2>1, <2>3 DEF Bound, StoreAssumption
  <2>5. Bound' \in Nat
        BY <2>2, <2>3 DEF Bound, StoreAssumption
  <2> QED BY <2>1, <2>4, <2>5
<1>4. PICK n \in Nat : n = sample.step - 1
      BY <1>3
<1>5. PICK name \in Names : name = sample.name
      BY <1>1 DEF Samples
<1>6. PICK b \in Nat : b = Bound
      BY <1>3
<1>7. PICK c \in Nat : c = Bound'
      BY <1>3
<1>8. Earned(n, name, b)
      BY <1>4, <1>5, <1>6 DEF Progress, Bound
<1>9. b <= c
      BY <1>6, <1>7
<1>10. Earned(n, name, c)'
       BY <1>8, <1>9, EarnedStays
<1> QED BY <1>4, <1>5, <1>7, <1>10 DEF Earned

LEMMA ProgressInit == UiInit => Progress
BY DEF UiInit, Progress

\* The step that ends when its command printed its marker.
LEMMA PipelineAdvances ==
    ASSUME StoreAssumption, UiAssumption, UiInv, UiInv', Progress, pollSampleJob
    PROVE  Progress'
<1>1. /\ UNCHANGED storeVars /\ sample # Nothing /\ sample.job # Nothing
      /\ sample \in Samples
      BY DEF pollSampleJob, UiInv, Screen
<1>2. /\ sample.step \in 1 .. 4 /\ sample.job \in DOMAIN jobs
      /\ jobs[sample.job].operation = [name |-> sampleSteps[sample.step], target |-> sample.name]
      /\ sampleSteps[sample.step] # "initDistribution"
      BY <1>1 DEF UiInv, SlotJobs, sampleSteps
<1>3. PICK output \in Outputs :
        /\ PollEnds(sample.job, output)
        /\ IF output.text = "marker" THEN sample' = [sample EXCEPT !.step = @ + 1, !.job = Nothing]
           ELSE sample' = Nothing
      BY DEF pollSampleJob, failSampleStep, StepSucceeded
<1>4. SUFFICES ASSUME sample' # Nothing PROVE Progress'
      BY DEF Progress
<1>5. /\ sample'.step - 1 = sample.step /\ sample'.name = sample.name
      /\ sample'.job = Nothing
  <2>1. sample' = [sample EXCEPT !.step = sample.step + 1, !.job = Nothing]
        BY <1>3, <1>4
  <2>2. /\ sample'.step = sample.step + 1 /\ sample'.name = sample.name
        /\ sample'.job = Nothing
        BY <1>1, <2>1 DEF Samples
  <2> QED BY <1>2, <2>2
<1>6. jobs[sample.job].output = Marker
  <2>1. output.text = "marker" /\ output = jobs[sample.job].output /\ output # Nothing
        BY <1>2, <1>3, <1>4, Polled DEF UiAssumption
  <2> QED BY <2>1, <1>2 DEF UiInv, Receipts, ReceiptOK
<1>7. PICK done \in [1 .. sample.step - 1 -> DOMAIN jobs] :
        \A i \in 1 .. sample.step - 1 :
          /\ jobs[done[i]].operation = [name |-> sampleSteps[i], target |-> sample.name]
          /\ jobs[done[i]].output = Marker
          /\ done[i] < sample.job
          /\ \A j \in 1 .. i - 1 : done[j] < done[i]
      BY <1>1 DEF Progress, Earned
<1> DEFINE more == [i \in 1 .. sample.step |-> IF i = sample.step THEN sample.job ELSE done[i]]
<1>8. more \in [1 .. sample.step -> DOMAIN jobs]
      BY <1>2, <1>7
<1>9. sample.job < nextId + 1 /\ \A id \in DOMAIN jobs : id \in Nat /\ id < nextId + 1
      BY <1>2 DEF UiInv, JobTable
<1>10. ASSUME NEW i \in 1 .. sample.step
       PROVE  /\ jobs[more[i]].operation = [name |-> sampleSteps[i], target |-> sample.name]
              /\ jobs[more[i]].output = Marker
              /\ more[i] < nextId + 1
              /\ \A j \in 1 .. i - 1 : more[j] < more[i]
  <2>1. CASE i = sample.step
    <3>1. more[i] = sample.job /\ \A j \in 1 .. i - 1 : more[j] = done[j]
          BY <2>1, <1>2
    <3> QED BY <3>1, <2>1, <1>2, <1>6, <1>7, <1>9
  <2>2. CASE i # sample.step
    <3>1. i \in 1 .. sample.step - 1 /\ more[i] = done[i]
          BY <2>2, <1>2
    <3>2. \A j \in 1 .. i - 1 : more[j] = done[j]
          BY <3>1, <1>2
    <3>3. more[i] < nextId + 1
          BY <3>1, <1>7, <1>9
    <3> QED BY <3>1, <3>2, <3>3, <1>7
  <2> QED BY <2>1, <2>2
<1> HIDE DEF more
<1>11. nextId' = nextId /\ jobs' = jobs
       BY <1>1 DEF storeVars
<1>12. \E d \in [1 .. sample'.step - 1 -> DOMAIN jobs'] :
         \A i \in 1 .. sample'.step - 1 :
           /\ jobs'[d[i]].operation = [name |-> sampleSteps[i], target |-> sample'.name]
           /\ jobs'[d[i]].output = Marker
           /\ d[i] < nextId' + 1
           /\ \A j \in 1 .. i - 1 : d[j] < d[i]
  <2> SUFFICES \E d \in [1 .. sample.step -> DOMAIN jobs] :
                 \A i \in 1 .. sample.step :
                   /\ jobs[d[i]].operation = [name |-> sampleSteps[i], target |-> sample.name]
                   /\ jobs[d[i]].output = Marker
                   /\ d[i] < nextId + 1
                   /\ \A j \in 1 .. i - 1 : d[j] < d[i]
      BY <1>5, <1>11
  <2> QED BY <1>8, <1>10
<1> QED BY <1>5, <1>12 DEF Progress, Earned

LEMMA ProgressStep ==
    ASSUME StoreAssumption, UiAssumption, UiInv, UiInv', Progress, [UiNext]_uiVars
    PROVE  Progress'
<1>1. JobsStay /\ nextId \in Nat /\ nextId' \in Nat
      BY UiKeepsJobs DEF UiInv, JobTable
<1>2. CASE sample' = sample
  <2>1. CASE sample = Nothing
        BY <2>1, <1>2 DEF Progress
  <2>2. CASE sample # Nothing
    <3>1. Bound <= Bound'
      <4>1. sample.job \in (1 .. MaxJobs) \cup {Nothing}
            BY <2>2 DEF UiInv, Screen, Samples
      <4>2. nextId + 1 <= nextId' + 1
        <5>1. nextId <= nextId'
              BY <1>1 DEF JobsStay
        <5>2. nextId \in Nat /\ nextId' \in Nat
              BY <1>1
        <5>3. \A a, b \in Nat : a <= b => a + 1 <= b + 1
              OBVIOUS
        <5> QED BY <5>1, <5>2, <5>3
      <4>3. CASE sample.job = Nothing
            BY <4>2, <4>3, <1>2 DEF Bound
      <4>4. CASE sample.job \in 1 .. MaxJobs
        <5>1. Bound = sample.job /\ Bound' = sample.job
              BY <4>4, <1>2 DEF Bound, UiAssumption
        <5> QED BY <5>1, <4>4 DEF StoreAssumption
      <4> QED BY <4>1, <4>3, <4>4
    <3> QED BY <3>1, <2>2, <1>1, <1>2, PipelineStays
  <2> QED BY <2>1, <2>2
<1>3. CASE claimCurrentDistribution
  <2>1. sample'.step - 1 = 0
    <3>1. \E name \in claimAirdropNames : sample' = [name |-> name, step |-> 1, job |-> Nothing]
          BY <1>3 DEF claimCurrentDistribution
    <3> QED BY <3>1
  <2>2. \E done \in [1 .. 0 -> DOMAIN jobs'] : TRUE
    <3>1. [i \in 1 .. 0 |-> i] \in [1 .. 0 -> DOMAIN jobs']
          OBVIOUS
    <3> QED BY <3>1
  <2>3. \A i \in 1 .. 0 : FALSE
        OBVIOUS
  <2> QED BY <2>1, <2>2, <2>3 DEF Progress, Earned
<1>4. ASSUME NEW lost \in BOOLEAN, startSampleStep(lost) PROVE Progress'
  <2>1. /\ sample # Nothing /\ sample \in Samples /\ sample.job = Nothing
        /\ lost => sample' = Nothing
        /\ ~lost => sample' = [sample EXCEPT !.job = nextId']
        BY <1>4 DEF startSampleStep, failSampleStep, UiInv, Screen
  <2>2. nextId' = nextId + 1 /\ nextId' \in 1 .. MaxJobs
        BY <1>4, <1>1 DEF startSampleStep, CallStart, startJob, UiInv, JobTable, StoreAssumption
  <2>3. ~lost => /\ sample'.step = sample.step /\ sample'.name = sample.name
                 /\ sample'.job = nextId'
        BY <2>1 DEF Samples
  <2>4. nextId' # Nothing
        BY <2>2 DEF UiAssumption
  <2>5. ~lost => Bound = nextId + 1 /\ Bound' = nextId'
        BY <2>1, <2>3, <2>4 DEF Bound
  <2>6. sample' # Nothing => /\ sample'.step = sample.step
                             /\ sample'.name = sample.name
                             /\ Bound <= Bound'
        BY <2>1, <2>2, <2>3, <2>5, <1>1
  <2> QED BY <2>1, <2>6, <1>1, PipelineStays
<1>5. CASE sample' = Nothing
      BY <1>5 DEF Progress
<1>6. CASE pollSampleJob
      BY <1>6, PipelineAdvances
<1>7. CASE UNCHANGED uiVars
      BY <1>7, <1>2 DEF uiVars, slotVars
<1>8. CASE User
  <2>1. CASE \/ selectRegistryAirdrop \/ RefreshList
             \/ importClaimantWallet \/ refreshClaimEligibility
        BY <2>1, <1>2 DEF selectRegistryAirdrop, RefreshList, importClaimantWallet,
             refreshClaimEligibility, slotVars
  <2>2. ASSUME NEW kind \in ActionKinds, NEW lost \in BOOLEAN, StartAction(kind, lost)
        PROVE  Progress'
        BY <2>2, <1>2 DEF StartAction
  <2>3. ASSUME NEW lost \in BOOLEAN, submitClaimAnyway(lost) PROVE Progress'
        BY <2>3, <1>2 DEF submitClaimAnyway
  <2> QED BY <1>8, <2>1, <2>2, <2>3, <1>3 DEF User
<1>9. CASE runNextSampleStep
      BY <1>9, <1>4, <1>5 DEF runNextSampleStep, finishSample
<1>10. CASE pollActionJob \/ pollDuplicateClaimJob
       BY <1>10, <1>2 DEF pollActionJob, pollDuplicateClaimJob
<1>11. CASE \E id \in workers : Worker(id)
       BY <1>11, <1>2 DEF Worker, slotVars
<1> QED BY <1>6, <1>7, <1>8, <1>9, <1>10, <1>11 DEF UiNext

\* Only the end of a pipeline reports completion.
LEMMA OnlyFinishCompletes ==
    ASSUME [UiNext]_uiVars, sampleStatus' = "completed", sampleStatus # "completed"
    PROVE  finishSample
<1>1. CASE UNCHANGED uiVars
      BY <1>1 DEF uiVars, screenVars
<1>2. CASE User
  <2>1. CASE \/ selectRegistryAirdrop \/ RefreshList \/ importClaimantWallet
             \/ refreshClaimEligibility \/ claimCurrentDistribution
        BY <2>1 DEF selectRegistryAirdrop, RefreshList, importClaimantWallet,
             refreshClaimEligibility, claimCurrentDistribution, resetClaimEligibility
  <2>2. ASSUME NEW kind \in ActionKinds, NEW lost \in BOOLEAN, StartAction(kind, lost)
        PROVE  FALSE
        BY <2>2 DEF StartAction, screenVars
  <2>3. ASSUME NEW lost \in BOOLEAN, submitClaimAnyway(lost) PROVE FALSE
        BY <2>3 DEF submitClaimAnyway
  <2> QED BY <1>2, <2>1, <2>2, <2>3 DEF User
<1>3. CASE runNextSampleStep
      BY <1>3 DEF runNextSampleStep, startSampleStep, failSampleStep
<1>4. CASE pollSampleJob
      BY <1>4 DEF pollSampleJob, failSampleStep
<1>5. CASE pollActionJob \/ pollDuplicateClaimJob
      BY <1>5 DEF pollActionJob, pollDuplicateClaimJob
<1>6. CASE \E id \in workers : Worker(id)
      BY <1>6 DEF Worker, screenVars
<1> QED BY <1>1, <1>2, <1>3, <1>4, <1>5, <1>6 DEF UiNext

LEMMA CompletionStep ==
    ASSUME StoreAssumption, UiAssumption, UiInv, Progress, Evidence, [UiNext]_uiVars,
           sampleStatus' = "completed", sampleStatus # "completed"
    PROVE  \E done \in [1 .. Len(sampleSteps) -> DOMAIN jobs] :
             /\ \A i \in DOMAIN done :
                  /\ jobs[done[i]].operation = [name |-> sampleSteps[i], target |-> sample.name]
                  /\ jobs[done[i]].output = Marker
                  /\ \A j \in 1 .. i - 1 : done[j] < done[i]
             /\ Substantiated(done[Len(sampleSteps)])
<1>1. sample # Nothing /\ sample.step > Len(sampleSteps) /\ sample \in Samples
      BY OnlyFinishCompletes DEF finishSample, UiInv, Screen
<1>2. Len(sampleSteps) = 4 /\ sample.step - 1 = 4 /\ sampleSteps[4] = "claim"
      BY <1>1 DEF Samples, sampleSteps
<1>3. PICK done \in [1 .. 4 -> DOMAIN jobs] :
        \A i \in 1 .. 4 :
          /\ jobs[done[i]].operation = [name |-> sampleSteps[i], target |-> sample.name]
          /\ jobs[done[i]].output = Marker
          /\ \A j \in 1 .. i - 1 : done[j] < done[i]
      BY <1>1, <1>2 DEF Progress, Earned
<1> DEFINE id == done[4]
<1>4. id \in DOMAIN jobs /\ jobs[id].operation.name = "claim" /\ jobs[id].output = Marker
      BY <1>2, <1>3
<1>5. id \in 1 .. MaxJobs /\ read[id] # Nothing
  <2>1. Marker # Nothing
        BY DEF UiAssumption, Outputs
  <2>2. id \notin workers
        BY <1>4, <2>1 DEF UiInv, JobTable
  <2>3. id \in 1 .. MaxJobs
        BY <1>4 DEF UiInv, JobTable, StoreAssumption
  <2> QED BY <1>4, <2>2, <2>3 DEF UiInv, Reads
<1>6. read[id].tx \in claimed /\ read[id].tx[1] = read[id].state.airdrop_id
      BY <1>4 DEF Evidence
<1>7. read[id].tx # Nothing
  <2>1. claimed \subseteq Airdrops \X Wallets
        BY DEF UiInv, Screen
  <2> QED BY <1>6, <2>1 DEF UiAssumption
<1>8. Substantiated(id)
      BY <1>5, <1>6, <1>7 DEF Evidence, Proved, Substantiated
<1> HIDE DEF id
<1> QED BY <1>2, <1>3, <1>8 DEF id

\* A pipeline that reports completion has run its four commands in order for the
\* name fixed at the click, each printed its marker, and the claim sent is on the
\* ledger and was proved before, for any number of jobs, names, distributions,
\* keys and failures, and whatever an init makes the name stand for meanwhile
\* (completeSampleStep, finishSample, run_claim).
THEOREM CompletionEarned == UiSpec => CompletionIsEarned
<1>1. UiInit => Progress
      BY ProgressInit
<1>2. StoreAssumption /\ UiAssumption /\ UiInv /\ UiInv' /\ Progress /\ [UiNext]_uiVars => Progress'
      BY ProgressStep
<1>3. UiSpec => []Progress
      BY <1>1, <1>2, StoreAssumption, UiAssumption, UiInvariant, PTL DEF UiSpec
<1>4. UiInit => Evidence
  <2>1. UiInit => claim_tx = Nothing /\ read = [id \in 1 .. MaxJobs |-> Nothing] /\ jobs = << >>
        BY DEF UiInit, StoreInit
  <2>2. DOMAIN << >> = {}
        OBVIOUS
  <2> QED BY <2>1, <2>2 DEF Evidence
<1>5. StoreAssumption /\ UiAssumption /\ UiInv /\ UiInv' /\ Evidence /\ [UiNext]_uiVars => Evidence'
      BY EvidenceStep
<1>6. UiSpec => []Evidence
      BY <1>4, <1>5, StoreAssumption, UiAssumption, UiInvariant, PTL DEF UiSpec
<1>7. StoreAssumption /\ UiAssumption /\ UiInv /\ Progress /\ Evidence /\ [UiNext]_uiVars =>
        [sampleStatus' = "completed" /\ sampleStatus # "completed" =>
           \E done \in [1 .. Len(sampleSteps) -> DOMAIN jobs] :
             /\ \A i \in DOMAIN done :
                  /\ jobs[done[i]].operation = [name |-> sampleSteps[i], target |-> sample.name]
                  /\ jobs[done[i]].output = Marker
                  /\ \A j \in 1 .. i - 1 : done[j] < done[i]
             /\ Substantiated(done[Len(sampleSteps)])]_uiVars
      BY CompletionStep
<1> QED BY <1>3, <1>6, <1>7, StoreAssumption, UiAssumption, UiInvariant, PTL
       DEF UiSpec, CompletionIsEarned

-----------------------------------------------------------------------------
(* The UI becomes idle.  A command ends, its record stays ended, the poll of
   the slot that waits for it sees that, and each poll leaves a pipeline less to
   do.  That these steps can be taken (NoWaitStuck) is a hypothesis, as no
   prover here looks into ENABLED.                                           *)

\* What a step does to a busy slot.
LEMMA SlotStep ==
    ASSUME StoreAssumption, UiAssumption, UiInv, [UiNext]_uiVars
    PROVE  /\ action # Nothing => action' \in {action, Nothing}
           /\ duplicate # Nothing => duplicate' \in {duplicate, Nothing}
           /\ sample # Nothing =>
                sample' = sample \/ pollSampleJob \/ runNextSampleStep
<1>1. CASE User
  <2>1. CASE \/ selectRegistryAirdrop \/ RefreshList
             \/ importClaimantWallet \/ refreshClaimEligibility
        BY <2>1 DEF selectRegistryAirdrop, RefreshList, importClaimantWallet,
             refreshClaimEligibility, slotVars
  <2>2. CASE claimCurrentDistribution
        BY <2>2 DEF claimCurrentDistribution
  <2>3. CASE \E lost \in BOOLEAN : \E kind \in ActionKinds : StartAction(kind, lost)
        BY <2>3 DEF StartAction
  <2>4. CASE \E lost \in BOOLEAN : submitClaimAnyway(lost)
        BY <2>4 DEF submitClaimAnyway
  <2> QED BY <1>1, <2>1, <2>2, <2>3, <2>4 DEF User
<1>2. CASE runNextSampleStep
      BY <1>2 DEF runNextSampleStep, finishSample, startSampleStep
<1>3. CASE pollSampleJob
      BY <1>3 DEF pollSampleJob
<1>4. CASE pollActionJob \/ pollDuplicateClaimJob
      BY <1>4 DEF pollActionJob, pollDuplicateClaimJob
<1>5. CASE \E id \in workers : Worker(id)
      BY <1>5 DEF Worker, slotVars
<1>6. CASE UNCHANGED uiVars
      BY <1>6 DEF uiVars, slotVars
<1> QED BY <1>1, <1>2, <1>3, <1>4, <1>5, <1>6 DEF UiNext

\* The steps a pipeline still takes: for each command a start and a poll.
StepsLeft(s) ==
    IF s = Nothing THEN 0 ELSE 2 * (5 - s.step) + (IF s.job = Nothing THEN 2 ELSE 1)

Left == StepsLeft(sample)

LEMMA LeftTyped ==
    ASSUME UiInv
    PROVE  Left \in 0 .. 10 /\ (Left = 0 <=> sample = Nothing)
<1>1. sample # Nothing => sample.step \in 1 .. 5
      BY DEF UiInv, Screen, Samples, sampleSteps
<1> QED BY <1>1 DEF Left, StepsLeft

LEMMA SampleLowers ==
    ASSUME StoreAssumption, UiAssumption, UiInv, pollSampleJob \/ runNextSampleStep
    PROVE  Left' < Left
<1>1. sample # Nothing /\ sample \in Samples
      BY DEF pollSampleJob, runNextSampleStep, finishSample, startSampleStep, UiInv, Screen
<1>2. sample.step \in 1 .. 5
      BY <1>1 DEF Samples, sampleSteps
<1>3. Left \in 1 .. 10
      BY <1>1, LeftTyped
<1>4. CASE sample' = Nothing
  <2>1. Left' = 0
        BY <1>4 DEF Left, StepsLeft
  <2> QED BY <1>3, <2>1
<1>5. CASE pollSampleJob /\ sample' = [sample EXCEPT !.step = @ + 1, !.job = Nothing]
  <2>1. /\ sample' # Nothing => sample'.step = sample.step + 1 /\ sample'.job = Nothing
        /\ sample.job # Nothing
        BY <1>1, <1>5 DEF Samples, pollSampleJob
  <2>2. CASE sample' # Nothing
    <3>1. Left' = 2 * (5 - (sample.step + 1)) + 2
          BY <2>1, <2>2 DEF Left, StepsLeft
    <3>2. Left = 2 * (5 - sample.step) + 1
          BY <1>1, <2>1 DEF Left, StepsLeft
    <3> QED BY <1>2, <3>1, <3>2
  <2> QED BY <1>4, <2>2
<1>6. ASSUME NEW lost \in BOOLEAN, startSampleStep(lost), ~lost
      PROVE  Left' < Left
  <2>1. nextId' \in 1 .. MaxJobs
        BY <1>6 DEF startSampleStep, CallStart, startJob, UiInv, JobTable, StoreAssumption
  <2>2. nextId' # Nothing
        BY <2>1 DEF UiAssumption
  <2>3. sample' = [sample EXCEPT !.job = nextId'] /\ sample.job = Nothing
        BY <1>6 DEF startSampleStep
  <2>4. sample'.step = sample.step /\ sample'.job = nextId'
        BY <1>1, <2>3 DEF Samples
  <2>5. CASE sample' # Nothing
    <3>1. Left' = 2 * (5 - sample.step) + 1
          BY <2>2, <2>4, <2>5 DEF Left, StepsLeft
    <3>2. Left = 2 * (5 - sample.step) + 2
          BY <1>1, <2>3 DEF Left, StepsLeft
    <3> QED BY <1>2, <3>1, <3>2
  <2> QED BY <1>4, <2>5
<1>7. CASE pollSampleJob
  <2>1. \/ sample' = Nothing
        \/ sample' = [sample EXCEPT !.step = @ + 1, !.job = Nothing]
        BY <1>7 DEF pollSampleJob, failSampleStep
  <2> QED BY <1>4, <1>5, <1>7, <2>1
<1>8. CASE runNextSampleStep
      BY <1>4, <1>6, <1>8 DEF runNextSampleStep, finishSample, startSampleStep, failSampleStep
<1> QED BY <1>7, <1>8

\* A job that has ended stays ended.
LEMMA EndedStays ==
    ASSUME StoreAssumption, UiAssumption, UiInv, UiInv', [UiNext]_uiVars,
           NEW id \in DOMAIN jobs, id \notin workers
    PROVE  id \in DOMAIN jobs' /\ id \notin workers'
<1>1. JobsStay
      BY UiKeepsJobs
<1>2. ~Running(id) /\ jobs[id].status # "JOB_RUNNING"
      BY DEF Running, UiInv, JobTable
<1>3. id \in DOMAIN jobs' /\ jobs'[id] = jobs[id]
      BY <1>1, <1>2 DEF JobsStay
<1>4. workers' = {i \in DOMAIN jobs' : jobs'[i].status = "JOB_RUNNING"}
      BY DEF UiInv, JobTable
<1> QED BY <1>2, <1>3, <1>4

\* A command that runs ends.
JobEnds(id) == id \in workers => <> ~(id \in workers)

\* A command that runs and has read the files, or has not.
Loaded(id) == id \in workers /\ read[id] # Nothing
Fresh(id) == id \in workers /\ read[id] = Nothing

LEMMA ReadingStays ==
    ASSUME StoreAssumption, UiAssumption, UiInv, [UiNext]_uiVars, NEW id \in 1 .. MaxJobs,
           read[id] # Nothing
    PROVE  read'[id] # Nothing
<1>1. CASE JobsKept
      BY <1>1 DEF JobsKept
<1>2. ASSUME NEW job \in workers, LoadFiles(job) PROVE read'[id] # Nothing
      BY <1>2, FilesRead
<1>3. ASSUME NEW job \in workers, RunCli(job) PROVE read'[id] # Nothing
      BY <1>3 DEF RunCli
<1> QED BY <1>1, <1>2, <1>3, UiKeepsJobs DEF Worker

LEMMA EveryJobEnds ==
    ASSUME NEW id \in 1 .. MaxJobs
    PROVE  FairUiSpec /\ []NoWaitStuck => []JobEnds(id)
<1>1. FairUiSpec => RunsOn(id)
      BY DEF FairUiSpec
<1>2. NoWaitStuck /\ id \in workers => ENABLED <<id \in workers /\ Worker(id)>>_uiVars
      BY DEF NoWaitStuck
<1>3. id \in workers <=> Loaded(id) \/ Fresh(id)
      BY DEF Loaded, Fresh
<1>4. UiInv /\ [UiNext]_uiVars /\ Loaded(id) => (Loaded(id) \/ ~(id \in workers))'
  <2> SUFFICES ASSUME UiInv, [UiNext]_uiVars, Loaded(id) PROVE read'[id] # Nothing
      BY DEF Loaded
  <2> QED BY StoreAssumption, UiAssumption, ReadingStays DEF Loaded
<1>5. UiInv /\ Loaded(id) /\ <<id \in workers /\ Worker(id)>>_uiVars => (~(id \in workers))'
  <2> SUFFICES ASSUME UiInv, Loaded(id), Worker(id) PROVE id \notin workers'
      OBVIOUS
  <2>1. RunCli(id)
        BY DEF Worker, LoadFiles, Loaded
  <2>2. PICK output \in Outputs : finishJob(id, output)
        BY <2>1, StoreAssumption, UiAssumption, CommandEnds DEF Files, Loaded
  <2> QED BY <2>2 DEF finishJob
<1>6. UiInv /\ Fresh(id) /\ <<id \in workers /\ Worker(id)>>_uiVars => Loaded(id)'
  <2> SUFFICES ASSUME UiInv, Fresh(id), Worker(id), uiVars' # uiVars PROVE Loaded(id)'
      OBVIOUS
  <2>1. LoadFiles(id)
        BY DEF Worker, RunCli, Fresh
  <2>2. UNCHANGED <<storeVars, cliVars, wallet, screenVars, slotVars, abandoned>>
        BY <2>1 DEF Worker, LoadFiles
  <2>3. read' # read
        BY <2>2 DEF uiVars
  <2>4. read'[id] # Nothing
    <3>1. PICK x : read' = [read EXCEPT ![id] = x]
          BY <2>1 DEF LoadFiles
    <3>2. read[id] = Nothing /\ read = [i \in 1 .. MaxJobs |-> read[i]]
          BY DEF Fresh, UiInv, Reads
    <3>3. CASE x = Nothing
      <4>1. read' = read
            BY <3>1, <3>2, <3>3
      <4> QED BY <4>1, <2>3
    <3>4. CASE x # Nothing
          BY <3>1, <3>2, <3>4
    <3> QED BY <3>3, <3>4
  <2> QED BY <2>2, <2>4 DEF Loaded, Fresh, storeVars
<1>7. FairUiSpec => []UiInv /\ [][UiNext]_uiVars
      BY UiInvariant, PTL DEF FairUiSpec, UiSpec
<1> QED BY <1>1, <1>2, <1>3, <1>4, <1>5, <1>6, <1>7, PTL DEF RunsOn, JobEnds

\* The action that waits for a given job is over.
ActionEnds(id) == action # Nothing /\ action.job = id => <>(action = Nothing)

LEMMA ActionEnded ==
    ASSUME NEW id \in 1 .. MaxJobs
    PROVE  FairUiSpec /\ []NoWaitStuck => []ActionEnds(id)
<1>1. FairUiSpec => PollsAction
      BY DEF FairUiSpec
<1>2. FairUiSpec /\ []NoWaitStuck => []JobEnds(id)
      BY EveryJobEnds
<1>3. UiInv /\ [UiNext]_uiVars /\ action # Nothing /\ action.job = id
        => (action = Nothing \/ (action # Nothing /\ action.job = id))'
      BY StoreAssumption, UiAssumption, SlotStep
<1>4. <<pollActionJob>>_uiVars => (action = Nothing)'
      BY DEF pollActionJob
<1>5. UiInv /\ action # Nothing /\ action.job = id => id \in DOMAIN jobs
      BY DEF UiInv, SlotJobs
<1>6. UiInv /\ UiInv' /\ [UiNext]_uiVars /\ id \in DOMAIN jobs /\ ~(id \in workers)
        => (id \in DOMAIN jobs /\ ~(id \in workers))'
      BY StoreAssumption, UiAssumption, EndedStays
<1>7. NoWaitStuck /\ action # Nothing /\ action.job = id /\ ~(id \in workers)
        => ENABLED <<pollActionJob>>_uiVars
      BY DEF NoWaitStuck
<1>8. FairUiSpec => []UiInv /\ [][UiNext]_uiVars
      BY UiInvariant, PTL DEF FairUiSpec, UiSpec
<1> QED BY <1>1, <1>2, <1>3, <1>4, <1>5, <1>6, <1>7, <1>8, PTL DEF PollsAction, JobEnds, ActionEnds

\* The repeated claim that waits for a given job is over.
DuplicateEnds(id) == duplicate # Nothing /\ duplicate.job = id => <>(duplicate = Nothing)

LEMMA DuplicateEnded ==
    ASSUME NEW id \in 1 .. MaxJobs
    PROVE  FairUiSpec /\ []NoWaitStuck => []DuplicateEnds(id)
<1>1. FairUiSpec => PollsDuplicate
      BY DEF FairUiSpec
<1>2. FairUiSpec /\ []NoWaitStuck => []JobEnds(id)
      BY EveryJobEnds
<1>3. UiInv /\ [UiNext]_uiVars /\ duplicate # Nothing /\ duplicate.job = id
        => (duplicate = Nothing \/ (duplicate # Nothing /\ duplicate.job = id))'
      BY StoreAssumption, UiAssumption, SlotStep
<1>4. <<pollDuplicateClaimJob>>_uiVars => (duplicate = Nothing)'
      BY DEF pollDuplicateClaimJob
<1>5. UiInv /\ duplicate # Nothing /\ duplicate.job = id => id \in DOMAIN jobs
      BY DEF UiInv, SlotJobs
<1>6. UiInv /\ UiInv' /\ [UiNext]_uiVars /\ id \in DOMAIN jobs /\ ~(id \in workers)
        => (id \in DOMAIN jobs /\ ~(id \in workers))'
      BY StoreAssumption, UiAssumption, EndedStays
<1>7. NoWaitStuck /\ duplicate # Nothing /\ duplicate.job = id /\ ~(id \in workers)
        => ENABLED <<pollDuplicateClaimJob>>_uiVars
      BY DEF NoWaitStuck
<1>8. FairUiSpec => []UiInv /\ [][UiNext]_uiVars
      BY UiInvariant, PTL DEF FairUiSpec, UiSpec
<1> QED BY <1>1, <1>2, <1>3, <1>4, <1>5, <1>6, <1>7, <1>8, PTL
       DEF PollsDuplicate, JobEnds, DuplicateEnds

\* A pipeline that is at s moves on.
MovesAt(s, m) == sample = s => <>(Left <= m)
SampleMoves(s, m) == []MovesAt(s, m)

\* What any step does to a pipeline at s, and what its own steps do.
LEMMA SampleAt ==
    ASSUME NEW s \in Samples, NEW m \in 0 .. 9, StepsLeft(s) = m + 1
    PROVE  /\ UiInv /\ UiInv' /\ [UiNext]_uiVars /\ sample = s => (sample = s \/ Left <= m)'
           /\ UiInv /\ UiInv' /\ sample = s /\ (pollSampleJob \/ runNextSampleStep)
                => (Left <= m)'
<1>1. UiInv => Left \in 0 .. 10
      BY LeftTyped
<1>2. UiInv' => (Left \in 0 .. 10)'
      BY <1>1, PTL
<1>3. UiInv /\ UiInv' /\ sample = s /\ (pollSampleJob \/ runNextSampleStep) => (Left <= m)'
  <2> SUFFICES ASSUME UiInv, UiInv', sample = s, pollSampleJob \/ runNextSampleStep
               PROVE  Left' <= m
      OBVIOUS
  <2>1. Left' < Left /\ Left = m + 1 /\ Left' \in 0 .. 10
        BY StoreAssumption, UiAssumption, SampleLowers, <1>2 DEF Left
  <2> QED BY <2>1
<1>4. UiInv /\ UiInv' /\ [UiNext]_uiVars /\ sample = s => (sample = s \/ Left <= m)'
  <2> SUFFICES ASSUME UiInv, UiInv', [UiNext]_uiVars, sample = s
               PROVE  sample' = s \/ Left' <= m
      OBVIOUS
  <2>1. sample # Nothing
        BY UiAssumption DEF UiAssumption
  <2>2. sample' = s \/ pollSampleJob \/ runNextSampleStep
        BY <2>1, StoreAssumption, UiAssumption, SlotStep
  <2> QED BY <1>3, <2>2
<1> QED BY <1>3, <1>4

\* Between two steps.
LEMMA SampleStarts ==
    ASSUME NEW s \in Samples, NEW m \in 0 .. 9, StepsLeft(s) = m + 1, s.job = Nothing
    PROVE  FairUiSpec /\ []NoWaitStuck => SampleMoves(s, m)
<1>1. FairUiSpec => StartsNext
      BY DEF FairUiSpec
<1>2. FairUiSpec => []UiInv /\ [][UiNext]_uiVars
      BY UiInvariant, PTL DEF FairUiSpec, UiSpec
<1>3. UiInv /\ UiInv' /\ [UiNext]_uiVars /\ sample = s => (sample = s \/ Left <= m)'
      BY SampleAt
<1>4. UiInv /\ UiInv' /\ sample = s /\ <<runNextSampleStep>>_uiVars => (Left <= m)'
      BY SampleAt
<1>5. NoWaitStuck /\ UiInv /\ sample = s => ENABLED <<runNextSampleStep>>_uiVars
  <2> SUFFICES ASSUME NoWaitStuck, UiInv, sample = s
               PROVE  ENABLED <<runNextSampleStep>>_uiVars
      OBVIOUS
  <2>1. sample # Nothing /\ sample.job = Nothing
        BY UiAssumption DEF UiAssumption
  <2>2. ~(sample.job \in workers)
        BY <2>1, StoreAssumption, UiAssumption, WorkerIsId
  <2> QED BY <2>1, <2>2 DEF NoWaitStuck
<1> QED BY <1>1, <1>2, <1>3, <1>4, <1>5, PTL
       DEF StartsNext, SampleMoves, MovesAt

\* Waiting for a job.
LEMMA SampleWaits ==
    ASSUME NEW s \in Samples, NEW m \in 0 .. 9, StepsLeft(s) = m + 1,
           NEW id \in 1 .. MaxJobs, s.job = id
    PROVE  FairUiSpec /\ []NoWaitStuck => SampleMoves(s, m)
<1>1. FairUiSpec => PollsSample
      BY DEF FairUiSpec
<1>2. FairUiSpec => []UiInv /\ [][UiNext]_uiVars
      BY UiInvariant, PTL DEF FairUiSpec, UiSpec
<1>3. UiInv /\ UiInv' /\ [UiNext]_uiVars /\ sample = s => (sample = s \/ Left <= m)'
      BY SampleAt
<1>4. UiInv /\ UiInv' /\ sample = s /\ <<pollSampleJob>>_uiVars => (Left <= m)'
      BY SampleAt
<1>5. FairUiSpec /\ []NoWaitStuck => []JobEnds(id)
      BY EveryJobEnds
<1>6. UiInv /\ sample = s => id \in DOMAIN jobs
      BY UiAssumption DEF UiInv, SlotJobs, UiAssumption
<1>7. UiInv /\ UiInv' /\ [UiNext]_uiVars /\ id \in DOMAIN jobs /\ ~(id \in workers)
        => (id \in DOMAIN jobs /\ ~(id \in workers))'
      BY StoreAssumption, UiAssumption, EndedStays
<1>8. NoWaitStuck /\ sample = s /\ ~(id \in workers) => ENABLED <<pollSampleJob>>_uiVars
      BY UiAssumption DEF NoWaitStuck, UiAssumption
<1> QED BY <1>1, <1>2, <1>3, <1>4, <1>5, <1>6, <1>7, <1>8, PTL
       DEF PollsSample, JobEnds, SampleMoves, MovesAt

\* One stage: a pipeline with at most n steps left comes to have at most m, one
\* fewer.
Drops(n, m) == Left <= n ~> Left <= m

LEMMA StageEnds ==
    ASSUME NEW n \in 1 .. 10, NEW m \in 0 .. 9, n = m + 1
    PROVE  FairUiSpec /\ []NoWaitStuck => Drops(n, m)
<1> DEFINE Stage == {s \in Samples : StepsLeft(s) = n}
<1>1. ASSUME NEW s \in Stage
      PROVE  FairUiSpec /\ []NoWaitStuck => SampleMoves(s, m)
  <2>0. s \in Samples /\ StepsLeft(s) = m + 1
        OBVIOUS
  <2>1. CASE s.job = Nothing
        BY <2>0, <2>1, SampleStarts
  <2>2. ASSUME NEW id \in 1 .. MaxJobs, s.job = id
        PROVE  FairUiSpec /\ []NoWaitStuck => SampleMoves(s, m)
        BY <2>0, <2>2, SampleWaits
  <2> QED BY <2>0, <2>1, <2>2 DEF Samples
<1> HIDE DEF Stage
<1>2. FairUiSpec /\ []NoWaitStuck => \A s \in Stage : SampleMoves(s, m)
      BY <1>1
<1>3. (\A s \in Stage : SampleMoves(s, m)) => [](\A s \in Stage : MovesAt(s, m))
      BY DEF SampleMoves
<1>4. (\A s \in Stage : MovesAt(s, m)) => (sample \in Stage => <>(Left <= m))
      BY DEF MovesAt
<1>5. UiInv /\ Left <= n => Left <= m \/ sample \in Stage
  <2> SUFFICES ASSUME UiInv, Left <= n, ~(Left <= m) PROVE sample \in Stage
      OBVIOUS
  <2>1. Left \in 0 .. 10 /\ Left = n /\ sample # Nothing
        BY LeftTyped
  <2> QED BY <2>1 DEF Stage, Left, UiInv, Screen
<1>6. FairUiSpec => []UiInv
      BY UiInvariant, PTL DEF FairUiSpec
<1> QED BY <1>2, <1>3, <1>4, <1>5, <1>6, PTL DEF Drops

\* The UI never stays busy: every pipeline, action and repeated claim comes to an
\* end, whatever its commands answer, the bridge loses and the user does meanwhile
\* (the polls, failSampleStep, finishSample).
THEOREM UiEndsItsWork == FairUiSpec /\ []NoWaitStuck => UiBecomesIdle
<1> DEFINE Live == FairUiSpec /\ []NoWaitStuck
<1>1. Live => []UiInv
      BY UiInvariant, PTL DEF FairUiSpec
<1>2. Live => (sample # Nothing ~> sample = Nothing)
  <2>1. Live => Drops(10, 9) /\ Drops(9, 8) /\ Drops(8, 7) /\ Drops(7, 6) /\ Drops(6, 5)
        BY StageEnds
  <2>2. Live => Drops(5, 4) /\ Drops(4, 3) /\ Drops(3, 2) /\ Drops(2, 1) /\ Drops(1, 0)
        BY StageEnds
  <2>3. UiInv => Left <= 10 /\ (Left <= 0 => sample = Nothing)
        BY LeftTyped
  <2> QED BY <1>1, <2>1, <2>2, <2>3, PTL DEF Drops
<1>3. Live => (action # Nothing ~> action = Nothing)
  <2>1. Live => \A id \in 1 .. MaxJobs : []ActionEnds(id)
        BY ActionEnded
  <2>2. (\A id \in 1 .. MaxJobs : []ActionEnds(id))
          => [](\A id \in 1 .. MaxJobs : ActionEnds(id))
        OBVIOUS
  <2>3. (\A id \in 1 .. MaxJobs : ActionEnds(id))
          => (action # Nothing /\ action.job \in 1 .. MaxJobs => <>(action = Nothing))
        BY DEF ActionEnds
  <2>4. UiInv /\ action # Nothing => action.job \in 1 .. MaxJobs
        BY DEF UiInv, Screen, Actions
  <2> QED BY <1>1, <2>1, <2>2, <2>3, <2>4, PTL
<1>4. Live => (duplicate # Nothing ~> duplicate = Nothing)
  <2>1. Live => \A id \in 1 .. MaxJobs : []DuplicateEnds(id)
        BY DuplicateEnded
  <2>2. (\A id \in 1 .. MaxJobs : []DuplicateEnds(id))
          => [](\A id \in 1 .. MaxJobs : DuplicateEnds(id))
        OBVIOUS
  <2>3. (\A id \in 1 .. MaxJobs : DuplicateEnds(id))
          => (duplicate # Nothing /\ duplicate.job \in 1 .. MaxJobs => <>(duplicate = Nothing))
        BY DEF DuplicateEnds
  <2>4. UiInv /\ duplicate # Nothing => duplicate.job \in 1 .. MaxJobs
        BY DEF UiInv, Screen, Duplicates
  <2> QED BY <1>1, <2>1, <2>2, <2>3, <2>4, PTL
<1>5. /\ sample # Nothing \/ sample = Nothing
      /\ action # Nothing \/ action = Nothing
      /\ duplicate # Nothing \/ duplicate = Nothing
      OBVIOUS
<1> QED BY <1>2, <1>3, <1>4, <1>5, PTL DEF UiBecomesIdle

=============================================================================
