------------------------------ MODULE JobStore ------------------------------
(***************************************************************************)
(* The job table of the Logos client module                                 *)
(* (distributionx_client_impl.cpp, DistributionxClientImpl::JobStore):       *)
(* start* calls hand a CLI command line to a detached thread and return an  *)
(* id; jobStatus looks the id up.  Drawing an id and inserting under it are  *)
(* two steps of one action, as no other call shares the id and every access  *)
(* to the table is one critical section.  Jobs are never removed.            *)
(***************************************************************************)
EXTENDS Naturals, FiniteSets

CONSTANTS
    MaxJobs,    \* bound on the jobs started, for model checking
    Nothing     \* no value

VARIABLES
    jobs,       \* JobStore::jobs: what is known of each inserted job
    nextId,     \* JobStore::nextId
    workers     \* jobs whose thread has not finished

storeVars == <<jobs, nextId, workers>>

ASSUME StoreAssumption == MaxJobs \in Nat

StoreInit ==
    /\ jobs = << >>
    /\ nextId = 0
    /\ workers = {}

\* Insert under the next id and start the thread.
startJob(operation) ==
    /\ nextId < MaxJobs
    /\ nextId' = nextId + 1
    /\ jobs' = [id \in DOMAIN jobs \cup {nextId'} |->
                  IF id \in DOMAIN jobs THEN jobs[id]
                  ELSE [operation |-> operation, status |-> "JOB_RUNNING", output |-> Nothing]]
    /\ workers' = workers \cup {nextId'}

\* Faulty variant: the thread files its output under the id drawn last.
finishJob_NewestJob(id, output) ==
    /\ id \in workers
    /\ workers' = workers \ {id}
    /\ jobs' = [jobs EXCEPT ![nextId] = [@ EXCEPT !.output = output, !.status = "JOB_OK"]]
    /\ UNCHANGED nextId

\* Faulty variant: the status is filed, the text is not.
finishJob_NoOutput(id, output) ==
    /\ id \in workers
    /\ workers' = workers \ {id}
    /\ jobs' = [jobs EXCEPT ![id].status = IF output.exit = 0 THEN "JOB_OK" ELSE "JOB_ERROR"]
    /\ UNCHANGED nextId

\* Faulty variant: the thread of a command that fails ends without filing it.
finishJob_NotOnError(id, output) ==
    /\ id \in workers
    /\ workers' = workers \ {id}
    /\ jobs' = IF output.exit = 0
                 THEN [jobs EXCEPT ![id] = [@ EXCEPT !.output = output, !.status = "JOB_OK"]]
                 ELSE jobs
    /\ UNCHANGED nextId

\* The worker: the CLI has ended, its text is filed.  A command that exits with
\* an error is marked; one that prints a refusal and exits with 0 is not.
finishJob(id, output) ==
    /\ id \in workers
    /\ workers' = workers \ {id}
    /\ jobs' = [jobs EXCEPT ![id] =
                   [@ EXCEPT !.output = output,
                             !.status = IF output.exit = 0 THEN "JOB_OK" ELSE "JOB_ERROR"]]
    /\ UNCHANGED nextId

Running(id) == id \in DOMAIN jobs /\ jobs[id].status = "JOB_RUNNING"

\* Once a job is finished its result never changes, whoever starts and finishes
\* what meanwhile (startJob, the detached workers).
ResultsAreFinal ==
    [][\A id \in DOMAIN jobs : ~Running(id) => id \in DOMAIN jobs' /\ jobs'[id] = jobs[id]]_storeVars
=============================================================================
