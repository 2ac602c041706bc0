------------------------------- MODULE EvalRun -------------------------------
(***************************************************************************)
(* One eval run, from the API request that creates it to the worker        *)
(* attempts that execute it: the create handler flushes the row, enqueues  *)
(* the job, answers and commits; arq delivers the job again, up to         *)
(* MaxTries times, when its worker died, and finishes it when it raised;   *)
(* every attempt resumes from the results already in the database; the     *)
(* cancel endpoint reads and writes the same row; transactions fail.       *)
(* Each action is one segment between two points at which the code awaits  *)
(* a commit, so a crash or another actor can come between any two.         *)
(***************************************************************************)
EXTENDS Naturals, FiniteSets

CONSTANTS
    Items,            \* rows of the pinned dataset version
    Evaluators,       \* evaluators the run was created with
    MaxTries,         \* WorkerSettings.max_tries, and MAX_TRIES of the task
    Concurrency,      \* provider_config["concurrency"], the semaphore's size
    EarlyDeliveries,  \* attempts up to this one may begin before the API commits
    CrashLimit,       \* attempts up to this one may lose their worker
    TimeOuts,         \* whether an attempt may exceed job_timeout
    DbFaults          \* whether a transaction of the worker may fail

ASSUME EvalRunAssumption ==
    /\ IsFiniteSet(Items)
    /\ Evaluators # {}
    /\ MaxTries \in Nat \ {0}
    /\ Concurrency \in Nat \ {0}
    /\ EarlyDeliveries \in Nat
    /\ CrashLimit \in Nat
    /\ TimeOuts \in BOOLEAN
    /\ DbFaults \in BOOLEAN

VARIABLES
    api,         \* the create request: its transaction and its commit
    run,         \* the eval_runs row; other sessions see it once api = "committed"
    result,      \* eval_results, by item: no row, an errored row, an output
    scores,      \* eval_scores, by item and evaluator
    deadLetter,  \* whether a dead_letter_jobs row exists
    job,         \* the arq job
    tries,       \* job_try of the latest delivery
    wpc,         \* where the current attempt stands
    seen,        \* the status the current attempt read
    phase,       \* the task of each item in the current attempt
    cpc          \* the cancel request: idle, or past its status check

vars == <<api, run, result, scores, deadLetter, job, tries, wpc, seen, phase, cpc>>
dbVars == <<run, result, scores, deadLetter>>
workerVars == <<wpc, seen, phase>>
jobVars == <<job, tries>>

RunStatus == {"pending", "running", "succeeded", "partial", "failed", "cancelled"}
TERMINAL_STATUSES == {"succeeded", "partial", "failed", "cancelled"}

\* Mutants of the early return: a terminal status is missing from it.
ReturnedEarly_only_cancelled == {"cancelled"}
ReturnedEarly_not_cancelled == {"succeeded", "failed"}

\* The statuses for which execute_run returns without doing anything.
ReturnedEarly == {"succeeded", "failed", "cancelled"}

NoScores == [e \in Evaluators |-> "none"]
Verdicts == [Evaluators -> {"scored", "gap"}]

-----------------------------------------------------------------------------
(* What the final transaction reads.                                       *)

\* Items with an output, whatever attempt produced it.
Completed(res) == {i \in Items : res[i] = "output"}

\* The mean, minimum, maximum and pass rate of an evaluator are functions of
\* the items it scored; rows with a null score count as unscoreable.
compute_aggregates(sc) ==
    [e \in Evaluators |-> [scored      |-> {i \in Items : sc[i][e] = "scored"},
                           unscoreable |-> {i \in Items : sc[i][e] = "gap"}]]

NoAggregates == [e \in Evaluators |-> [scored |-> {}, unscoreable |-> {}]]

FinalStatus(failures, completed) ==
    IF failures = {} THEN "succeeded"
    ELSE IF completed # {} THEN "partial" ELSE "failed"

-----------------------------------------------------------------------------

Init ==
    /\ api = "new"
    /\ run = [status |-> "pending", error |-> FALSE, completed |-> 0,
              failed |-> 0, aggregates |-> NoAggregates]
    /\ result = [i \in Items |-> "none"]
    /\ scores = [i \in Items |-> NoScores]
    /\ deadLetter = FALSE
    /\ job = "none"
    /\ tries = 0
    /\ wpc = "idle"
    /\ seen = "pending"
    /\ phase = [i \in Items |-> "none"]
    /\ cpc = "idle"

-----------------------------------------------------------------------------
(* The create request.                                                     *)

\* The request is validated and the row flushed: nobody else sees it yet.
CreateRun ==
    /\ api = "new"
    /\ api' = "flushed"
    /\ UNCHANGED <<dbVars, jobVars, workerVars, cpc>>

Enqueue ==
    /\ api = "flushed"
    /\ api' = "enqueued"
    /\ job' = "queued"
    /\ UNCHANGED <<dbVars, tries, workerVars, cpc>>

\* db_session commits when the handler has returned and the answer is sent.
Commit ==
    /\ api = "enqueued"
    /\ api' = "committed"
    /\ UNCHANGED <<dbVars, jobVars, workerVars, cpc>>

\* The enqueue or the commit fails. A job already in Redis stays there.
Rollback ==
    /\ api \in {"flushed", "enqueued"}
    /\ api' = "rolledback"
    /\ UNCHANGED <<dbVars, jobVars, workerVars, cpc>>

-----------------------------------------------------------------------------
(* The cancel request: get_run, the status check, then the write.          *)

CancelCheck ==
    /\ api = "committed"
    /\ cpc = "idle"
    /\ run.status \notin TERMINAL_STATUSES
    /\ cpc' = "checked"
    /\ UNCHANGED <<api, dbVars, jobVars, workerVars>>

CancelCommit ==
    /\ cpc = "checked"
    /\ run' = [run EXCEPT !.status = "cancelled"]
    /\ cpc' = "idle"
    /\ UNCHANGED <<api, result, scores, deadLetter, jobVars, workerVars>>

CancelAbort ==
    /\ cpc = "checked"
    /\ cpc' = "idle"
    /\ UNCHANGED <<api, dbVars, jobVars, workerVars>>

-----------------------------------------------------------------------------
(* arq: delivers a queued job, counting the tries; gives up after MaxTries. *)
(* Only a job whose worker went away stays in the queue: one whose          *)
(* coroutine returned, raised or ran out of time is finished.               *)

Deliver ==
    /\ job = "queued"
    /\ api = "committed" \/ tries < EarlyDeliveries
    /\ job' = "active"
    /\ tries' = tries + 1
    /\ wpc' = "reading"
    /\ UNCHANGED <<api, dbVars, seen, phase, cpc>>

FinishFailed ==
    /\ wpc' = "idle"
    /\ job' = "failed"

Acknowledge ==
    /\ wpc = "returned"
    /\ wpc' = "idle"
    /\ job' = "done"
    /\ UNCHANGED <<api, dbVars, tries, seen, phase, cpc>>

\* The worker process dies, or its shutdown cancels the attempt: CancelledError
\* is no Exception, so no handler of the task runs.
Crash ==
    /\ wpc # "idle"
    /\ tries <= CrashLimit
    /\ wpc' = "idle"
    /\ job' = IF tries < MaxTries THEN "queued" ELSE "dropped"
    /\ UNCHANGED <<api, dbVars, tries, seen, phase, cpc>>

\* job_timeout cancels the attempt in the same way, but arq has a TimeoutError.
TimeOut ==
    /\ TimeOuts
    /\ wpc \notin {"idle", "returned"}
    /\ FinishFailed
    /\ UNCHANGED <<api, dbVars, tries, seen, phase, cpc>>

-----------------------------------------------------------------------------
(* execute_run: read the row, mark it running, build the evaluators.       *)

ReadMissing ==
    /\ wpc = "reading"
    /\ api # "committed"
    /\ wpc' = "raised"
    /\ UNCHANGED <<api, dbVars, jobVars, seen, phase, cpc>>

ReadFinished ==
    /\ wpc = "reading"
    /\ api = "committed"
    /\ run.status \in ReturnedEarly
    /\ wpc' = "returned"
    /\ UNCHANGED <<api, dbVars, jobVars, seen, phase, cpc>>

ReadLive ==
    /\ wpc = "reading"
    /\ api = "committed"
    /\ run.status \notin ReturnedEarly
    /\ seen' = run.status
    /\ wpc' = "starting"
    /\ UNCHANGED <<api, dbVars, jobVars, phase, cpc>>

\* The unit of work writes a column only if its value changed since the read,
\* and then unconditionally.
CommitRunning ==
    /\ wpc = "starting"
    /\ run' = IF seen = "running" THEN run ELSE [run EXCEPT !.status = "running"]
    /\ wpc' = "building"
    /\ UNCHANGED <<api, result, scores, deadLetter, jobVars, seen, phase, cpc>>

StartFails ==
    /\ DbFaults
    /\ wpc \in {"reading", "starting"}
    /\ wpc' = "raised"
    /\ UNCHANGED <<api, dbVars, jobVars, seen, phase, cpc>>

\* A provider or an evaluator cannot be constructed. This is outside the try.
BuildFails ==
    /\ wpc = "building"
    /\ wpc' = "raised"
    /\ UNCHANGED <<api, dbVars, jobVars, seen, phase, cpc>>

-----------------------------------------------------------------------------
(* _run_items: the resume set, one task per pending item, the summary.     *)

\* Mutants: the resume set includes errored rows, or there is none.
LoadItems_errored_done ==
    /\ wpc = "building"
    /\ phase' = [i \in Items |-> IF result[i] = "none" THEN "waiting" ELSE "skipped"]
    /\ wpc' = "running"
    /\ UNCHANGED <<api, dbVars, jobVars, seen, cpc>>
LoadItems_no_resume ==
    /\ wpc = "building"
    /\ phase' = [i \in Items |-> "waiting"]
    /\ wpc' = "running"
    /\ UNCHANGED <<api, dbVars, jobVars, seen, cpc>>

LoadItems ==
    LET already_done == Completed(result) IN
    /\ wpc = "building"
    /\ phase' = [i \in Items |-> IF i \in already_done THEN "skipped" ELSE "waiting"]
    /\ wpc' = "running"
    /\ UNCHANGED <<api, dbVars, jobVars, seen, cpc>>

LoadFails ==
    /\ DbFaults
    /\ wpc = "building"
    /\ wpc' = "failing"
    /\ UNCHANGED <<api, dbVars, jobVars, seen, phase, cpc>>

\* One step of item i's task, from one phase to the next.
ItemStep(i, from, to) ==
    /\ wpc = "running"
    /\ phase[i] = from
    /\ phase' = [phase EXCEPT ![i] = to]
    /\ UNCHANGED <<api, run, deadLetter, jobVars, wpc, seen, cpc>>

AcquireSemaphore(i) ==
    /\ Cardinality({j \in Items : phase[j] \in {"generating", "generated"}}) < Concurrency
    /\ ItemStep(i, "waiting", "generating")
    /\ UNCHANGED <<result, scores>>

GenerateOutput(i) ==
    /\ ItemStep(i, "generating", "generated")
    /\ result' = [result EXCEPT ![i] = "output"]
    /\ UNCHANGED scores

GenerateError(i) ==
    /\ ItemStep(i, "generating", "failed")
    /\ result' = [result EXCEPT ![i] = "error"]
    /\ UNCHANGED scores

WriteResultFails(i) ==
    /\ DbFaults
    /\ ItemStep(i, "generating", "failed")
    /\ UNCHANGED <<result, scores>>

WriteScores(i) ==
    /\ ItemStep(i, "generated", "scored")
    /\ \E v \in Verdicts : scores' = [scores EXCEPT ![i] = v]
    /\ UNCHANGED result

WriteScoresFails(i) ==
    /\ DbFaults
    /\ ItemStep(i, "generated", "failed")
    /\ UNCHANGED <<result, scores>>

AllTasksEnded == \A i \in Items : phase[i] \in {"skipped", "scored", "failed"}

\* Mutant: the summary counts the outcomes of this attempt, not the rows.
FinishRun_this_attempt ==
    LET failures == {i \in Items : phase[i] = "failed"}
        total_completed == {i \in Items : phase[i] = "scored"}
    IN
    /\ wpc = "running"
    /\ AllTasksEnded
    /\ run' = [run EXCEPT
                !.status     = FinalStatus(failures, total_completed),
                !.completed  = Cardinality(total_completed),
                !.failed     = Cardinality(failures),
                !.aggregates = compute_aggregates(scores)]
    /\ wpc' = "returned"
    /\ UNCHANGED <<api, result, scores, deadLetter, jobVars, seen, phase, cpc>>

FinishRun ==
    LET failures == {i \in Items : phase[i] = "failed"}
        total_completed == Completed(result)
    IN
    /\ wpc = "running"
    /\ AllTasksEnded
    /\ run' = [run EXCEPT
                !.status     = FinalStatus(failures, total_completed),
                !.completed  = Cardinality(total_completed),
                !.failed     = Cardinality(failures),
                !.aggregates = compute_aggregates(scores)]
    /\ wpc' = "returned"
    /\ UNCHANGED <<api, result, scores, deadLetter, jobVars, seen, phase, cpc>>

FinishFails ==
    /\ DbFaults
    /\ wpc = "running"
    /\ AllTasksEnded
    /\ wpc' = "failing"
    /\ UNCHANGED <<api, dbVars, jobVars, seen, phase, cpc>>

-----------------------------------------------------------------------------
(* Run-level failure: mark the row, raise, and on the last try dead-letter. *)

MarkFailed ==
    /\ wpc = "failing"
    /\ run' = [run EXCEPT !.status = "failed", !.error = TRUE]
    /\ wpc' = "raised"
    /\ UNCHANGED <<api, result, scores, deadLetter, jobVars, seen, phase, cpc>>

MarkFailedFails ==
    /\ DbFaults
    /\ wpc = "failing"
    /\ wpc' = "raised"
    /\ UNCHANGED <<api, dbVars, jobVars, seen, phase, cpc>>

Reraise ==
    /\ wpc = "raised"
    /\ tries < MaxTries
    /\ FinishFailed
    /\ UNCHANGED <<api, dbVars, tries, seen, phase, cpc>>

\* Mutants: MAX_TRIES of the task differs from max_tries of the worker; the
\* last exception is swallowed without a record.
RecordDeadLetter_early ==
    /\ wpc = "raised"
    /\ tries >= MaxTries - 1
    /\ api = "committed"
    /\ deadLetter' = TRUE
    /\ wpc' = "returned"
    /\ UNCHANGED <<api, run, result, scores, jobVars, seen, phase, cpc>>
RecordDeadLetter_swallowed ==
    /\ wpc = "raised"
    /\ tries >= MaxTries
    /\ wpc' = "returned"
    /\ UNCHANGED <<api, dbVars, jobVars, seen, phase, cpc>>

\* The row of the dead letter references the run's row.
RecordDeadLetter ==
    /\ wpc = "raised"
    /\ tries >= MaxTries
    /\ api = "committed"
    /\ deadLetter' = TRUE
    /\ wpc' = "returned"
    /\ UNCHANGED <<api, run, result, scores, jobVars, seen, phase, cpc>>

RecordDeadLetterFails ==
    /\ wpc = "raised"
    /\ tries >= MaxTries
    /\ DbFaults \/ api # "committed"
    /\ FinishFailed
    /\ UNCHANGED <<api, dbVars, tries, seen, phase, cpc>>

-----------------------------------------------------------------------------

ItemTask(i) ==
    \/ AcquireSemaphore(i)
    \/ GenerateOutput(i) \/ GenerateError(i) \/ WriteResultFails(i)
    \/ WriteScores(i) \/ WriteScoresFails(i)

Attempt ==
    \/ ReadMissing \/ ReadFinished \/ ReadLive
    \/ CommitRunning \/ StartFails
    \/ BuildFails \/ LoadItems \/ LoadFails
    \/ \E i \in Items : ItemTask(i)
    \/ FinishRun \/ FinishFails
    \/ MarkFailed \/ MarkFailedFails
    \/ Reraise \/ RecordDeadLetter \/ RecordDeadLetterFails

CreateRequest == CreateRun \/ Enqueue \/ Commit \/ Rollback
CancelRequest == CancelCheck \/ CancelCommit \/ CancelAbort

Next ==
    \/ CreateRequest \/ CancelRequest
    \/ Deliver \/ Acknowledge \/ Crash \/ TimeOut
    \/ Attempt

Spec == Init /\ [][Next]_vars

\* The API's event loop runs the request to its end, arq polls its queue and
\* the worker's event loop runs the attempt. Nobody has to cancel or crash.
FairSpec ==
    /\ Spec
    /\ WF_vars(CreateRequest)
    /\ WF_vars(Deliver)
    /\ WF_vars(Attempt)
    /\ WF_vars(Acknowledge)
-----------------------------------------------------------------------------
(* Properties.                                                             *)

\* Every variable holds a value of its column or of its local variable.
TypeOK ==
    /\ api \in {"new", "flushed", "enqueued", "committed", "rolledback"}
    /\ run \in [status : RunStatus, error : BOOLEAN, completed : Nat, failed : Nat,
                aggregates : [Evaluators -> [scored      : SUBSET Items,
                                             unscoreable : SUBSET Items]]]
    /\ result \in [Items -> {"none", "error", "output"}]
    /\ scores \in [Items -> [Evaluators -> {"none", "scored", "gap"}]]
    /\ deadLetter \in BOOLEAN
    /\ job \in {"none", "queued", "active", "done", "failed", "dropped"}
    /\ tries \in Nat
    /\ wpc \in {"idle", "reading", "starting", "building", "running", "failing",
                "raised", "returned"}
    /\ seen \in RunStatus
    /\ phase \in [Items -> {"none", "skipped", "waiting", "generating", "generated",
                            "scored", "failed"}]
    /\ cpc \in {"idle", "checked"}

\* A run that reads "succeeded" has an output for every item of the pinned
\* dataset version, over however many attempts they were produced.
SucceededIsComplete == run.status = "succeeded" => Completed(result) = Items

\* The summary on a finished run is the summary of the rows it has now: what
\* an earlier attempt wrote is in it, and nothing is written after it.
SummaryIsCurrent ==
    run.status \in {"succeeded", "partial"} =>
        /\ run.completed = Cardinality(Completed(result))
        /\ run.aggregates = compute_aggregates(scores)

\* A dead letter is written only when the tries are used up, and nothing of
\* the job runs after it.
DeadLetterIsLast ==
    deadLetter => /\ tries >= MaxTries
                  /\ job # "queued"
                  /\ wpc \in {"idle", "returned"}

\* Resuming never pays twice: an item whose output is stored is not sent to
\* the provider again, by this attempt or a later one.
PaidOnce ==
    [][\A i \in Items : result[i] = "output" =>
            /\ result'[i] = "output"
            /\ phase'[i] = "generating" => phase[i] = "generating"]_vars

\* A redelivered job leaves a succeeded or failed run as it is. Only a cancel
\* request that had read the row before can still change it.
FinishedStays ==
    [][run.status \in {"succeeded", "failed"} /\ run' # run =>
            cpc = "checked" /\ run'.status = "cancelled"]_vars

\* A run cancelled while no attempt is in flight stays cancelled: no later
\* delivery of its job restarts it.
CancelHolds ==
    [](run.status = "cancelled" /\ wpc = "idle" => [](run.status = "cancelled"))

\* Whatever is known of a run that nobody works on any more.
Accounted == run.status \in TERMINAL_STATUSES \/ deadLetter

\* A committed run comes to rest for good with a terminal status or a dead
\* letter, whoever died in between, or else arq has ended its job another way
\* than by its return: the last attempt lost its worker, or an attempt ran out
\* of time or raised an exception that left no mark on the row. A job that
\* returns, on its last try without a result, always leaves the run accounted
\* for, and no run waits for a job that is neither queued nor ended.
RunSettles ==
    api = "committed" ~> \/ []Accounted
                         \/ job \in {"failed", "dropped"} /\ ~Accounted
=============================================================================
