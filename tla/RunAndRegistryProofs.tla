------------------------ MODULE RunAndRegistryProofs ------------------------
(***************************************************************************)
(* Proofs about EvalRun, for every set of items and evaluators, every      *)
(* number of tries and every combination of faults; and about              *)
(* PromptRegistry, which keeps the version that a run pins, for every set  *)
(* of requests and labels.                                                 *)
(***************************************************************************)
EXTENDS EvalRun, PromptRegistry, FiniteSetTheorems, TLAPS

(* The strengthening: what the position of the attempt says of the job, of *)
(* the run's row and of the item rows.                                     *)

\* The attempt exists exactly while arq considers the job active, and the
\* job exists only after the enqueue.
JobInv ==
    /\ wpc # "idle" <=> job = "active"
    /\ api \in {"new", "flushed"} => job = "none" /\ wpc = "idle"
    /\ wpc \in {"starting", "building", "running", "failing"} => api = "committed"
    /\ deadLetter => api = "committed"

\* While an attempt works, the row says running or cancelled; before it has
\* said so, the row holds what the attempt read unless it was cancelled.
StatusInv ==
    /\ wpc = "starting" =>
        /\ seen \in {"pending", "running", "partial"}
        /\ run.status \in {seen, "cancelled"}
    /\ wpc \in {"building", "running", "failing"} => run.status \in {"running", "cancelled"}

\* The tasks of the attempt agree with the result rows.
PhaseInv ==
    wpc = "running" =>
        \A i \in Items :
            /\ phase[i] \in {"skipped", "generated", "scored"} => result[i] = "output"
            /\ phase[i] \in {"waiting", "generating"} => result[i] # "output"

\* completed_items and failed_items together leave out no item: the failures
\* of the last attempt are all that earlier attempts had not completed.
EveryItemCounted ==
    run.status \in {"succeeded", "partial"} =>
        run.completed + run.failed >= Cardinality(Items)

\* Scores are only ever kept for an item that has an output: no later attempt
\* turns a scored result into an errored one.
ScoresHaveOutput ==
    \A i \in Items : scores[i] # NoScores => result[i] = "output"

IInv ==
    /\ TypeOK
    /\ JobInv
    /\ StatusInv
    /\ PhaseInv
    /\ SucceededIsComplete
    /\ SummaryIsCurrent
    /\ EveryItemCounted
    /\ ScoresHaveOutput
    /\ DeadLetterIsLast

-----------------------------------------------------------------------------

\* The number of items with some feature, of any feature, is a number.
LEMMA CountIsNat ==
    ASSUME NEW S \in SUBSET Items
    PROVE  IsFiniteSet(S) /\ Cardinality(S) \in Nat
  BY EvalRunAssumption, FS_Subset, FS_CardinalityType

\* Two sets that cover the items have together at least as many members.
LEMMA CoverCounts ==
    ASSUME NEW S \in SUBSET Items, NEW T \in SUBSET Items, S \cup T = Items
    PROVE  Cardinality(S) + Cardinality(T) >= Cardinality(Items)
<1>1. IsFiniteSet(S) /\ IsFiniteSet(T) /\ Cardinality(S) \in Nat /\ Cardinality(T) \in Nat
  BY CountIsNat
<1>2. Cardinality(S \cap T) \in Nat
  BY CountIsNat
<1>3. Cardinality(S \cup T) = Cardinality(S) + Cardinality(T) - Cardinality(S \cap T)
  BY <1>1, FS_Union
<1>4. Cardinality(Items) = Cardinality(S) + Cardinality(T) - Cardinality(S \cap T)
  BY <1>3, Zenon
<1> QED
  BY <1>1, <1>2, <1>4

\* What the final transaction computes has the type of its columns.
LEMMA SummaryType ==
    ASSUME TypeOK
    PROVE  /\ Completed(result) \in SUBSET Items
           /\ Cardinality(Completed(result)) \in Nat
           /\ compute_aggregates(scores) \in
                [Evaluators -> [scored : SUBSET Items, unscoreable : SUBSET Items]]
<1>1. Completed(result) \in SUBSET Items
  BY DEF Completed
<1> QED
  BY <1>1, CountIsNat DEF compute_aggregates

-----------------------------------------------------------------------------

LEMMA InitIInv == Init => IInv
<1> SUFFICES ASSUME Init PROVE IInv
  OBVIOUS
<1>1. TypeOK
  BY DEF Init, TypeOK, RunStatus, NoScores, NoAggregates
<1> QED
  BY <1>1, EvalRunAssumption
     DEF Init, IInv, JobInv, StatusInv, PhaseInv, SucceededIsComplete, SummaryIsCurrent,
         EveryItemCounted, ScoresHaveOutput, DeadLetterIsLast

\* Every action keeps the types.
LEMMA TypeStep == TypeOK /\ [Next]_vars => TypeOK'
<1> SUFFICES ASSUME TypeOK, [Next]_vars PROVE TypeOK'
  OBVIOUS
<1> USE DEF TypeOK, dbVars, jobVars, workerVars, RunStatus
<1>1. CASE CreateRequest \/ CancelRequest
  BY <1>1 DEF CreateRequest, CreateRun, Enqueue, Commit, Rollback,
              CancelRequest, CancelCheck, CancelCommit, CancelAbort
<1>2. CASE Deliver \/ Acknowledge \/ Crash \/ TimeOut
  BY <1>2 DEF Deliver, Acknowledge, Crash, TimeOut, FinishFailed
<1>3. CASE ReadMissing \/ ReadFinished \/ ReadLive \/ StartFails \/ BuildFails
  BY <1>3 DEF ReadMissing, ReadFinished, ReadLive, StartFails, BuildFails
<1>4. CASE CommitRunning
  BY <1>4 DEF CommitRunning
<1>5. CASE LoadItems \/ LoadFails \/ FinishFails
  BY <1>5 DEF LoadItems, LoadFails, FinishFails
<1>6. ASSUME NEW i \in Items, ItemTask(i) PROVE TypeOK'
  <2>1. CASE AcquireSemaphore(i) \/ WriteResultFails(i) \/ WriteScoresFails(i)
    <3>1. phase' \in [Items -> {"none", "skipped", "waiting", "generating", "generated",
                               "scored", "failed"}]
      BY <2>1 DEF AcquireSemaphore, WriteResultFails, WriteScoresFails, ItemStep
    <3> QED
      BY <2>1, <3>1 DEF AcquireSemaphore, WriteResultFails, WriteScoresFails, ItemStep
  <2>2. CASE GenerateOutput(i) \/ GenerateError(i)
    <3>1. result' \in [Items -> {"none", "error", "output"}]
      BY <2>2 DEF GenerateOutput, GenerateError
    <3>2. phase' \in [Items -> {"none", "skipped", "waiting", "generating", "generated",
                               "scored", "failed"}]
      BY <2>2 DEF GenerateOutput, GenerateError, ItemStep
    <3> QED
      BY <2>2, <3>1, <3>2 DEF GenerateOutput, GenerateError, ItemStep
  <2>3. CASE WriteScores(i)
    <3>1. scores' \in [Items -> [Evaluators -> {"none", "scored", "gap"}]]
      BY <2>3 DEF WriteScores, Verdicts
    <3>2. phase' \in [Items -> {"none", "skipped", "waiting", "generating", "generated",
                               "scored", "failed"}]
      BY <2>3 DEF WriteScores, ItemStep
    <3> QED
      BY <2>3, <3>1, <3>2 DEF WriteScores, ItemStep
  <2> QED
    BY <1>6, <2>1, <2>2, <2>3 DEF ItemTask
<1>7. CASE FinishRun
  <2> DEFINE failures == {i \in Items : phase[i] = "failed"}
             total == Completed(result)
  <2>1. Cardinality(failures) \in Nat /\ Cardinality(total) \in Nat
    BY CountIsNat, SummaryType
  <2>2. FinalStatus(failures, total) \in RunStatus
    BY DEF FinalStatus
  <2>3. run' = [run EXCEPT !.status = FinalStatus(failures, total),
                           !.completed = Cardinality(total),
                           !.failed = Cardinality(failures),
                           !.aggregates = compute_aggregates(scores)]
    BY <1>7 DEF FinishRun
  <2>4. run' \in [status : RunStatus, error : BOOLEAN, completed : Nat, failed : Nat,
                  aggregates : [Evaluators -> [scored : SUBSET Items,
                                               unscoreable : SUBSET Items]]]
    BY <2>1, <2>2, <2>3, SummaryType
  <2> QED
    BY <1>7, <2>4 DEF FinishRun
<1>8. CASE MarkFailed \/ MarkFailedFails
  <2>1. run' \in [status : RunStatus, error : BOOLEAN, completed : Nat, failed : Nat,
                  aggregates : [Evaluators -> [scored : SUBSET Items,
                                               unscoreable : SUBSET Items]]]
    BY <1>8 DEF MarkFailed, MarkFailedFails
  <2> QED
    BY <1>8, <2>1 DEF MarkFailed, MarkFailedFails
<1>9. CASE Reraise \/ RecordDeadLetter \/ RecordDeadLetterFails
  BY <1>9 DEF Reraise, RecordDeadLetter, RecordDeadLetterFails, FinishFailed
<1>10. CASE UNCHANGED vars
  BY <1>10 DEF vars
<1> QED
  BY <1>1, <1>2, <1>3, <1>4, <1>5, <1>6, <1>7, <1>8, <1>9, <1>10 DEF Next, Attempt

\* Every variable has its type in every state of every behaviour.
THEOREM TypeCorrect == Spec => []TypeOK
<1>1. Init => TypeOK
  BY InitIInv DEF IInv
<1> QED
  BY <1>1, TypeStep, PTL DEF Spec
-----------------------------------------------------------------------------

\* The job, the attempt and the dead letter stay in step. No action of a task
\* or of the cancel request touches them.
LEMMA JobStep ==
    ASSUME TypeOK, JobInv, DeadLetterIsLast, [Next]_vars
    PROVE  JobInv' /\ DeadLetterIsLast'
<1> USE DEF TypeOK, JobInv, DeadLetterIsLast, dbVars, jobVars, workerVars
<1>1. CASE CreateRequest \/ CancelRequest
  BY <1>1 DEF CreateRequest, CreateRun, Enqueue, Commit, Rollback,
              CancelRequest, CancelCheck, CancelCommit, CancelAbort
<1>2. CASE Deliver \/ Acknowledge
  BY <1>2, EvalRunAssumption DEF Deliver, Acknowledge, EvalRunAssumption
<1>3. CASE Crash \/ TimeOut \/ Reraise \/ RecordDeadLetterFails
  BY <1>3, EvalRunAssumption DEF Crash, TimeOut, Reraise, RecordDeadLetterFails, FinishFailed
<1>4. CASE ReadMissing \/ ReadFinished \/ ReadLive \/ StartFails \/ BuildFails
  BY <1>4 DEF ReadMissing, ReadFinished, ReadLive, StartFails, BuildFails
<1>5. CASE CommitRunning \/ LoadItems \/ LoadFails \/ FinishRun \/ FinishFails
  BY <1>5 DEF CommitRunning, LoadItems, LoadFails, FinishRun, FinishFails
<1>6. ASSUME NEW i \in Items, ItemTask(i) PROVE JobInv' /\ DeadLetterIsLast'
  BY <1>6 DEF ItemTask, AcquireSemaphore, GenerateOutput, GenerateError, WriteResultFails,
              WriteScores, WriteScoresFails, ItemStep
<1>7. CASE MarkFailed \/ MarkFailedFails
  BY <1>7 DEF MarkFailed, MarkFailedFails
<1>8. CASE RecordDeadLetter
  BY <1>8 DEF RecordDeadLetter
<1>9. CASE UNCHANGED vars
  BY <1>9 DEF vars
<1> QED
  BY <1>1, <1>2, <1>3, <1>4, <1>5, <1>6, <1>7, <1>8, <1>9 DEF Next, Attempt

\* The row's status follows the attempt: only a cancel interferes.
LEMMA StatusStep ==
    ASSUME TypeOK, StatusInv, [Next]_vars
    PROVE  StatusInv'
<1> USE DEF TypeOK, StatusInv, dbVars, jobVars, workerVars, RunStatus
<1>1. CASE CreateRequest
  BY <1>1 DEF CreateRequest, CreateRun, Enqueue, Commit, Rollback
<1>2. CASE CancelRequest
  BY <1>2 DEF CancelRequest, CancelCheck, CancelCommit, CancelAbort
<1>3. CASE Deliver \/ Acknowledge \/ Crash \/ TimeOut
  BY <1>3 DEF Deliver, Acknowledge, Crash, TimeOut, FinishFailed
<1>4. CASE ReadMissing \/ ReadFinished \/ ReadLive \/ StartFails \/ BuildFails
  BY <1>4 DEF ReadMissing, ReadFinished, ReadLive, StartFails, BuildFails, ReturnedEarly
<1>5. CASE CommitRunning
  BY <1>5 DEF CommitRunning
<1>6. CASE LoadItems \/ LoadFails \/ FinishRun \/ FinishFails
  BY <1>6 DEF LoadItems, LoadFails, FinishRun, FinishFails
<1>7. ASSUME NEW i \in Items, ItemTask(i) PROVE StatusInv'
  BY <1>7 DEF ItemTask, AcquireSemaphore, GenerateOutput, GenerateError, WriteResultFails,
              WriteScores, WriteScoresFails, ItemStep
<1>8. CASE MarkFailed \/ MarkFailedFails
  BY <1>8 DEF MarkFailed, MarkFailedFails
<1>9. CASE Reraise \/ RecordDeadLetter \/ RecordDeadLetterFails
  BY <1>9 DEF Reraise, RecordDeadLetter, RecordDeadLetterFails, FinishFailed
<1>10. CASE UNCHANGED vars
  BY <1>10 DEF vars
<1> QED
  BY <1>1, <1>2, <1>3, <1>4, <1>5, <1>6, <1>7, <1>8, <1>9, <1>10 DEF Next, Attempt

\* One step of one task keeps its phase in agreement with its rows.
LEMMA TaskStep ==
    ASSUME TypeOK, PhaseInv, ScoresHaveOutput, NEW i \in Items, ItemTask(i)
    PROVE  PhaseInv' /\ ScoresHaveOutput'
<1> USE DEF TypeOK, PhaseInv, ScoresHaveOutput, ItemStep
<1>1. CASE AcquireSemaphore(i) \/ WriteResultFails(i) \/ WriteScoresFails(i)
  BY <1>1 DEF AcquireSemaphore, WriteResultFails, WriteScoresFails
<1>2. CASE GenerateOutput(i) \/ GenerateError(i)
  BY <1>2 DEF GenerateOutput, GenerateError
<1>3. CASE WriteScores(i)
  BY <1>3 DEF WriteScores
<1> QED
  BY <1>1, <1>2, <1>3 DEF ItemTask

\* The other steps leave the rows alone; LoadItems sets the phases from them.
LEMMA PhaseStep ==
    ASSUME TypeOK, PhaseInv, ScoresHaveOutput, [Next]_vars
    PROVE  PhaseInv' /\ ScoresHaveOutput'
<1> USE DEF TypeOK, PhaseInv, ScoresHaveOutput, dbVars, jobVars, workerVars
<1>1. CASE CreateRequest \/ CancelRequest
  BY <1>1 DEF CreateRequest, CreateRun, Enqueue, Commit, Rollback,
              CancelRequest, CancelCheck, CancelCommit, CancelAbort
<1>2. CASE Deliver \/ Acknowledge \/ Crash \/ TimeOut
  BY <1>2 DEF Deliver, Acknowledge, Crash, TimeOut, FinishFailed
<1>3. CASE ReadMissing \/ ReadFinished \/ ReadLive \/ StartFails \/ BuildFails
  BY <1>3 DEF ReadMissing, ReadFinished, ReadLive, StartFails, BuildFails
<1>4. CASE LoadItems
  BY <1>4 DEF LoadItems, Completed
<1>5. CASE CommitRunning \/ LoadFails \/ FinishRun \/ FinishFails
  BY <1>5 DEF CommitRunning, LoadFails, FinishRun, FinishFails
<1>6. CASE MarkFailed \/ MarkFailedFails
  BY <1>6 DEF MarkFailed, MarkFailedFails
<1>7. CASE Reraise \/ RecordDeadLetter \/ RecordDeadLetterFails
  BY <1>7 DEF Reraise, RecordDeadLetter, RecordDeadLetterFails, FinishFailed
<1>8. CASE UNCHANGED vars
  BY <1>8 DEF vars
<1> QED
  BY TaskStep, <1>1, <1>2, <1>3, <1>4, <1>5, <1>6, <1>7, <1>8 DEF Next, Attempt
Summary == SucceededIsComplete /\ SummaryIsCurrent /\ EveryItemCounted

\* The final transaction writes the summary of the rows it reads.
LEMMA FinishStep ==
    ASSUME TypeOK, PhaseInv, FinishRun
    PROVE  Summary'
<1> DEFINE failures == {i \in Items : phase[i] = "failed"}
           total == Completed(result)
<1>1. /\ run'.status = FinalStatus(failures, total)
      /\ run'.completed = Cardinality(total)
      /\ run'.failed = Cardinality(failures)
      /\ run'.aggregates = compute_aggregates(scores)
  BY DEF FinishRun, TypeOK
<1>2. UNCHANGED <<result, scores>>
  BY DEF FinishRun
<1>3. total \cup failures = Items
  BY DEF FinishRun, AllTasksEnded, PhaseInv, Completed
<1>4. total \in SUBSET Items /\ failures \in SUBSET Items
  BY DEF Completed
<1>5. EveryItemCounted'
  BY <1>1, <1>3, <1>4, CoverCounts DEF EveryItemCounted
<1>6. SummaryIsCurrent'
  <2>1. Completed(result)' = total /\ compute_aggregates(scores)' = compute_aggregates(scores)
    BY <1>2 DEF Completed, compute_aggregates
  <2> QED
    BY <1>1, <2>1 DEF SummaryIsCurrent
<1>7. SucceededIsComplete'
  <2>1. run'.status = "succeeded" => failures = {}
    BY <1>1 DEF FinalStatus
  <2>2. Completed(result)' = total
    BY <1>2 DEF Completed
  <2> QED
    BY <1>3, <2>1, <2>2 DEF SucceededIsComplete
<1> QED
  BY <1>5, <1>6, <1>7 DEF Summary

\* A step that changes neither the row nor the rows behind it.
LEMMA SummaryStutter ==
    ASSUME Summary, UNCHANGED <<run, result, scores>>
    PROVE  Summary'
  BY DEF Summary, SucceededIsComplete, SummaryIsCurrent, EveryItemCounted, Completed,
         compute_aggregates

\* A row that says neither succeeded nor partial promises no summary.
LEMMA SummaryVacuous ==
    ASSUME run'.status \notin {"succeeded", "partial"}
    PROVE  Summary'
  BY DEF Summary, SucceededIsComplete, SummaryIsCurrent, EveryItemCounted

LEMMA SummaryStep ==
    ASSUME TypeOK, StatusInv, PhaseInv, Summary, [Next]_vars
    PROVE  Summary'
<1> USE DEF dbVars, jobVars, workerVars
<1>1. CASE CreateRequest \/ CancelCheck \/ CancelAbort
  BY <1>1, SummaryStutter
     DEF CreateRequest, CreateRun, Enqueue, Commit, Rollback, CancelCheck, CancelAbort
<1>2. CASE CancelCommit
  BY <1>2, SummaryVacuous DEF CancelCommit, TypeOK
<1>3. CASE Deliver \/ Acknowledge \/ Crash \/ TimeOut
  BY <1>3, SummaryStutter DEF Deliver, Acknowledge, Crash, TimeOut
<1>4. CASE ReadMissing \/ ReadFinished \/ ReadLive \/ StartFails \/ BuildFails
  BY <1>4, SummaryStutter DEF ReadMissing, ReadFinished, ReadLive, StartFails, BuildFails
<1>5. CASE CommitRunning
  <2>1. CASE seen = "running"
    BY <1>5, <2>1, SummaryStutter DEF CommitRunning
  <2>2. CASE seen # "running"
    BY <1>5, <2>2, SummaryVacuous DEF CommitRunning, TypeOK
  <2> QED
    BY <2>1, <2>2
<1>6. CASE LoadItems \/ LoadFails \/ FinishFails \/ MarkFailedFails
  BY <1>6, SummaryStutter DEF LoadItems, LoadFails, FinishFails, MarkFailedFails
<1>7. ASSUME NEW i \in Items, ItemTask(i) PROVE Summary'
  <2>1. wpc = "running" /\ run' = run
    BY <1>7 DEF ItemTask, AcquireSemaphore, GenerateOutput, GenerateError, WriteResultFails,
                WriteScores, WriteScoresFails, ItemStep
  <2> QED
    BY <2>1, SummaryVacuous DEF StatusInv
<1>8. CASE FinishRun
  BY <1>8, FinishStep
<1>9. CASE MarkFailed
  BY <1>9, SummaryVacuous DEF MarkFailed, TypeOK
<1>10. CASE Reraise \/ RecordDeadLetter \/ RecordDeadLetterFails
  BY <1>10, SummaryStutter DEF Reraise, RecordDeadLetter, RecordDeadLetterFails
<1>11. CASE UNCHANGED vars
  BY <1>11, SummaryStutter DEF vars
<1> QED
  BY <1>1, <1>2, <1>3, <1>4, <1>5, <1>6, <1>7, <1>8, <1>9, <1>10, <1>11
     DEF Next, Attempt, CancelRequest

-----------------------------------------------------------------------------

LEMMA IInvStep == IInv /\ [Next]_vars => IInv'
  BY TypeStep, JobStep, StatusStep, PhaseStep, SummaryStep DEF IInv, Summary

\* The inductive invariant holds throughout.
THEOREM Inductive == Spec => []IInv
  BY InitIInv, IInvStep, PTL DEF Spec

\* A succeeded run has an output for every item, whatever crashed on the way.
THEOREM SucceededRunsAreComplete == Spec => []SucceededIsComplete
<1>1. IInv => SucceededIsComplete
  BY DEF IInv
<1> QED
  BY <1>1, Inductive, PTL

\* The stored summary of a finished run is the summary of its rows.
THEOREM SummariesAreCurrent == Spec => [](SummaryIsCurrent /\ EveryItemCounted)
<1>1. IInv => SummaryIsCurrent /\ EveryItemCounted
  BY DEF IInv
<1> QED
  BY <1>1, Inductive, PTL

\* Scores belong to outputs, and a dead letter ends its job.
THEOREM ScoresAndDeadLetters == Spec => [](ScoresHaveOutput /\ DeadLetterIsLast)
<1>1. IInv => ScoresHaveOutput /\ DeadLetterIsLast
  BY DEF IInv
<1> QED
  BY <1>1, Inductive, PTL

\* No item with a stored output is sent to the provider again.
THEOREM NothingPaidTwice == Spec => PaidOnce
<1> DEFINE Once == \A i \in Items : result[i] = "output" =>
                        /\ result'[i] = "output"
                        /\ phase'[i] = "generating" => phase[i] = "generating"
<1>1. IInv /\ [Next]_vars => [Once]_vars
  <2> SUFFICES ASSUME IInv, Next PROVE Once
    OBVIOUS
  <2> USE DEF dbVars, jobVars, workerVars
  <2>1. CASE \E j \in Items : ItemTask(j)
    <3> PICK j \in Items : ItemTask(j)
      BY <2>1
    <3> QED
      BY DEF IInv, TypeOK, PhaseInv, ItemTask, AcquireSemaphore, GenerateOutput,
             GenerateError, WriteResultFails, WriteScores, WriteScoresFails, ItemStep
  <2>2. CASE LoadItems
    BY <2>2 DEF LoadItems, IInv, TypeOK
  <2>3. ASSUME UNCHANGED <<result, phase>> PROVE Once
    BY <2>3
  <2>4. CASE CreateRequest \/ CancelRequest \/ Deliver \/ Acknowledge \/ Crash \/ TimeOut
    BY <2>3, <2>4 DEF CreateRequest, CreateRun, Enqueue, Commit, Rollback, CancelRequest,
              CancelCheck, CancelCommit, CancelAbort, Deliver, Acknowledge, Crash,
              TimeOut
  <2>5. CASE ReadMissing \/ ReadFinished \/ ReadLive \/ CommitRunning \/ StartFails
             \/ BuildFails \/ LoadFails \/ FinishRun \/ FinishFails
    BY <2>3, <2>5 DEF ReadMissing, ReadFinished, ReadLive, CommitRunning, StartFails,
              BuildFails, LoadFails, FinishRun, FinishFails
  <2>6. CASE MarkFailed \/ MarkFailedFails \/ Reraise \/ RecordDeadLetter
             \/ RecordDeadLetterFails
    BY <2>3, <2>6 DEF MarkFailed, MarkFailedFails, Reraise, RecordDeadLetter,
              RecordDeadLetterFails
  <2> QED
    BY <2>1, <2>2, <2>4, <2>5, <2>6 DEF Next, Attempt
<1> QED
  BY <1>1, Inductive, PTL DEF Spec, PaidOnce

\* A run cancelled while no attempt works is cancelled for good. Rest is the
\* closed set of states it can then be in.
Rest == run.status = "cancelled" /\ wpc \in {"idle", "reading", "raised", "returned"}

THEOREM CancelIsKept == Spec => CancelHolds
<1>1. IInv /\ Rest /\ [Next]_vars => Rest'
  <2> SUFFICES ASSUME IInv, Rest, [Next]_vars PROVE Rest'
    OBVIOUS
  <2> USE DEF IInv, TypeOK, Rest, dbVars, jobVars, workerVars
  <2>1. CASE CreateRequest \/ CancelRequest
    BY <2>1 DEF CreateRequest, CreateRun, Enqueue, Commit, Rollback,
                CancelRequest, CancelCheck, CancelCommit, CancelAbort
  <2>2. CASE Deliver \/ Acknowledge \/ Crash \/ TimeOut
    BY <2>2 DEF Deliver, Acknowledge, Crash, TimeOut, FinishFailed
  <2>3. CASE Attempt
    BY <2>3 DEF Attempt, ReadMissing, ReadFinished, ReadLive, ReturnedEarly, CommitRunning,
                StartFails, BuildFails, LoadItems, LoadFails, ItemTask, AcquireSemaphore,
                GenerateOutput, GenerateError, WriteResultFails, WriteScores,
                WriteScoresFails, ItemStep, FinishRun, FinishFails, MarkFailed,
                MarkFailedFails, Reraise, RecordDeadLetter, RecordDeadLetterFails, FinishFailed
  <2>4. CASE UNCHANGED vars
    BY <2>4 DEF vars
  <2> QED
    BY <2>1, <2>2, <2>3, <2>4 DEF Next
<1>2. run.status = "cancelled" /\ wpc = "idle" => Rest
  BY DEF Rest
<1>3. Rest => run.status = "cancelled"
  BY DEF Rest
<1> QED
  BY <1>1, <1>2, <1>3, Inductive, PTL DEF Spec, CancelHolds
\* No redelivery changes the row of a succeeded or failed run: only a cancel
\* request that had read it before.
THEOREM FinishedIsKept == Spec => FinishedStays
<1> DEFINE Kept == run.status \in {"succeeded", "failed"} /\ run' # run =>
                        cpc = "checked" /\ run'.status = "cancelled"
<1>1. IInv /\ [Next]_vars => [Kept]_vars
  <2> SUFFICES ASSUME IInv, Next PROVE Kept
    OBVIOUS
  <2> USE DEF IInv, StatusInv, dbVars
  <2>1. CASE CreateRequest \/ CancelRequest
    BY <2>1 DEF CreateRequest, CreateRun, Enqueue, Commit, Rollback, TypeOK,
                CancelRequest, CancelCheck, CancelCommit, CancelAbort
  <2>2. CASE Deliver \/ Acknowledge \/ Crash \/ TimeOut
    BY <2>2 DEF Deliver, Acknowledge, Crash, TimeOut
  <2>3. CASE CommitRunning \/ FinishRun \/ MarkFailed
    BY <2>3 DEF CommitRunning, FinishRun, MarkFailed
  <2>4. CASE Attempt /\ ~(CommitRunning \/ FinishRun \/ MarkFailed)
    BY <2>4 DEF Attempt, ReadMissing, ReadFinished, ReadLive, StartFails, BuildFails,
                LoadItems, LoadFails, ItemTask, AcquireSemaphore, GenerateOutput,
                GenerateError, WriteResultFails, WriteScores, WriteScoresFails, ItemStep,
                FinishFails, MarkFailedFails, Reraise, RecordDeadLetter,
                RecordDeadLetterFails
  <2> QED
    BY <2>1, <2>2, <2>3, <2>4 DEF Next
<1> QED
  BY <1>1, Inductive, PTL DEF Spec, FinishedStays
-----------------------------------------------------------------------------
(* PromptRegistry implements VersionLog, for every set of requests and     *)
(* labels. The argument: whoever holds the row lock is the only request    *)
(* that has read the maximum, so its number is one above it when it        *)
(* commits.                                                                *)

\* A request past the lock holds it, and a locked prompt is not deleted.
LockInv ==
    /\ \A c \in Creators : pc[c] \in {"locked", "numbered", "inserted"} <=> lock = c
    /\ lock # NoOne => exists

\* The numbers in use are 1 up to the number of versions.
Dense ==
    /\ IsFiniteSet(versions)
    /\ Numbers = 1 .. Cardinality(versions)
    /\ ~exists => versions = {}

\* Nobody can have appended since the holder of the lock read the maximum.
NumberInv ==
    \A c \in Creators :
        pc[c] \in {"numbered", "inserted"} => number[c] = Cardinality(versions) + 1

RegistryInv == RegistryTypeOK /\ LockInv /\ Dense /\ NumberInv /\ NoSpuriousConflict /\ ReferencesResolve

Creating(c) == Create(c) \/ AbortVersion(c)
Others ==
    \/ \E m \in Movers : Move(m)
    \/ \E p \in Pinners : Pin(p)
    \/ DeletePrompt

-----------------------------------------------------------------------------

\* The maximum of a densely numbered prompt is the number of its versions.
LEMMA MaxIsCount ==
    ASSUME Dense
    PROVE  current_max = Cardinality(versions) /\ Cardinality(versions) \in Nat
<1>1. Cardinality(versions) \in Nat
  BY FS_CardinalityType DEF Dense
<1>2. CASE versions = {}
  BY <1>2, FS_EmptySet DEF current_max
<1>3. CASE versions # {}
  <2>1. Cardinality(versions) # 0
    BY <1>3, FS_EmptySet DEF Dense
  <2>2. Cardinality(versions) \in Numbers /\ \A m \in Numbers : m <= Cardinality(versions)
    BY <1>1, <2>1 DEF Dense
  <2>3. current_max \in Numbers /\ \A m \in Numbers : m <= current_max
    BY <1>3, <2>2 DEF current_max
  <2> QED
    BY <1>1, <2>2, <2>3 DEF Dense
<1> QED
  BY <1>1, <1>2, <1>3

\* A row with the next number extends the dense numbering by one.
LEMMA AppendIsDense ==
    ASSUME Dense, NEW c \in Creators, RegistryTypeOK,
           versions' = versions \cup {[n |-> Cardinality(versions) + 1, by |-> c]}, exists'
    PROVE  Dense' /\ Cardinality(versions)' = Cardinality(versions) + 1
<1> DEFINE new == [n |-> Cardinality(versions) + 1, by |-> c]
<1>1. Cardinality(versions) \in Nat
  BY FS_CardinalityType DEF Dense
<1>2. new \notin versions
  <2>1. new.n \notin Numbers
    BY <1>1 DEF Dense
  <2> QED
    BY <2>1 DEF Numbers
<1>3. IsFiniteSet(versions') /\ Cardinality(versions') = Cardinality(versions) + 1
  BY <1>2, FS_AddElement DEF Dense
<1>4. Numbers' = Numbers \cup {Cardinality(versions) + 1}
  <2>1. ASSUME NEW k PROVE k \in Numbers' <=> \E v \in versions \cup {new} : v.n = k
    BY DEF Numbers
  <2>2. ASSUME NEW k PROVE k \in Numbers <=> \E v \in versions : v.n = k
    BY DEF Numbers
  <2>3. new.n = Cardinality(versions) + 1
    OBVIOUS
  <2> HIDE DEF new
  <2>4. ASSUME NEW k
        PROVE  k \in Numbers' <=> k \in Numbers \/ k = Cardinality(versions) + 1
    BY <2>1, <2>2, <2>3
  <2> QED
    BY <2>4
<1>5. Numbers' = 1 .. (Cardinality(versions) + 1)
  BY <1>1, <1>4 DEF Dense
<1> QED
  BY <1>3, <1>5 DEF Dense

-----------------------------------------------------------------------------

LEMMA RegistryStart == RegistryInit => RegistryInv
<1> SUFFICES ASSUME RegistryInit PROVE RegistryInv
  OBVIOUS
<1>1. RegistryTypeOK
  BY DEF RegistryInit, RegistryTypeOK, Requests, Ended, Target, NoLabel, NoTarget
<1>2. Dense
  <2>1. Numbers = {} /\ Cardinality(versions) = 0 /\ IsFiniteSet(versions)
    BY FS_EmptySet DEF RegistryInit, Numbers
  <2> QED
    BY <2>1 DEF Dense, RegistryInit
<1> QED
  BY <1>1, <1>2, RegistryAssumption
     DEF RegistryInit, RegistryInv, LockInv, NumberInv, NoSpuriousConflict, ReferencesResolve, Requests

LEMMA RegistryTypeStep == RegistryTypeOK /\ Dense /\ NumberInv /\ [RegistryNext]_registryVars => RegistryTypeOK'
<1> SUFFICES ASSUME RegistryTypeOK, Dense, NumberInv, [RegistryNext]_registryVars PROVE RegistryTypeOK'
  OBVIOUS
<1> USE DEF RegistryTypeOK, Requests, Ended, prompt, Goto
<1>1. ASSUME NEW c \in Creators, Creating(c) PROVE RegistryTypeOK'
  <2>1. CASE LockPrompt(c) \/ LockMissing(c)
    BY <2>1 DEF LockPrompt, LockMissing
  <2>2. CASE ReadMax(c)
    <3>1. current_max \in Nat
      BY MaxIsCount
    <3> QED
      BY <2>2, <3>1 DEF ReadMax
  <2>3. CASE InsertVersion(c)
    BY <2>3 DEF InsertVersion
  <2>4. CASE CommitVersion(c)
    <3>1. number[c] \in Nat \ {0}
      BY <2>4, MaxIsCount DEF CommitVersion, NumberInv
    <3>2. [n |-> number[c], by |-> c] \in [n : Nat \ {0}, by : Creators]
      BY <3>1
    <3>3. versions' \in SUBSET [n : Nat \ {0}, by : Creators]
      BY <2>4, <3>2 DEF CommitVersion
    <3> QED
      BY <2>4, <3>3 DEF CommitVersion, Unlock
  <2>5. CASE AbortVersion(c)
    BY <2>5 DEF AbortVersion, Unlock
  <2> QED
    BY <1>1, <2>1, <2>2, <2>3, <2>4, <2>5 DEF Creating, Create
<1>2. ASSUME NEW m \in Movers, Move(m) PROVE RegistryTypeOK'
  <2>1. ASSUME NEW l \in Labels, AssignRead(m, l) PROVE RegistryTypeOK'
    <3> PICK k \in Numbers :
              target' = [target EXCEPT ![m] = [label |-> l, version |-> k, row |-> NoOne]]
      BY <2>1 DEF AssignRead
    <3>1. k \in Nat
      BY DEF Numbers
    <3>2. [label |-> l, version |-> k, row |-> NoOne] \in Target
      BY <3>1 DEF Target
    <3> QED
      BY <2>1, <3>2 DEF AssignRead
  <2>2. ASSUME NEW l \in Labels, RemoveRead(m, l) PROVE RegistryTypeOK'
    <3>1. [label |-> l, version |-> 0, row |-> labels[l].row] \in Target
      BY DEF Target
    <3> QED
      BY <2>2, <3>1 DEF RemoveRead
  <2>3. CASE AssignCommit(m)
    <3>1. labels' \in [Labels -> [version : Nat, row : Movers \cup {NoOne}]]
      BY <2>3 DEF AssignCommit, Target
    <3> QED
      BY <2>3, <3>1 DEF AssignCommit
  <2>4. CASE AssignFails(m)
    BY <2>4 DEF AssignFails
  <2>5. CASE RemoveCommit(m)
    <3>1. NoLabel \in [version : Nat, row : Movers \cup {NoOne}]
      BY DEF NoLabel
    <3>2. labels' \in [Labels -> [version : Nat, row : Movers \cup {NoOne}]]
      BY <2>5, <3>1 DEF RemoveCommit
    <3> QED
      BY <2>5, <3>2 DEF RemoveCommit
  <2> QED
    BY <1>2, <2>1, <2>2, <2>3, <2>4, <2>5 DEF Move
<1>3. ASSUME NEW p \in Pinners, Pin(p) PROVE RegistryTypeOK'
  BY <1>3 DEF Pin, PinRead, PinCommit, PinFails, Numbers, Target
<1>4. CASE DeletePrompt
  BY <1>4 DEF DeletePrompt, NoLabel
<1>5. CASE UNCHANGED registryVars
  BY <1>5 DEF registryVars
<1> QED
  BY <1>1, <1>2, <1>3, <1>4, <1>5 DEF RegistryNext, Creating
-----------------------------------------------------------------------------

\* Requests other than create_version never touch the lock or a number, and
\* leave the versions alone unless they delete them all while nobody creates.
LEMMA OthersStep ==
    ASSUME RegistryTypeOK, Others
    PROVE  /\ UNCHANGED <<lock, number>>
           /\ \A c \in Creators : pc'[c] = pc[c]
           /\ \/ UNCHANGED <<exists, versions>>
              \/ lock = NoOne /\ ~exists' /\ versions' = {} /\ pinned' = {}
<1> USE RegistryAssumption DEF RegistryTypeOK, prompt, Goto, RegistryAssumption
<1>1. ASSUME NEW m \in Movers, Move(m)
      PROVE  /\ UNCHANGED <<lock, number, exists, versions>>
             /\ \A c \in Creators : pc'[c] = pc[c]
  <2>1. UNCHANGED <<lock, number, exists, versions>>
    BY <1>1 DEF Move, AssignRead, AssignCommit, AssignFails, RemoveRead, RemoveCommit
  <2>2. \E to : pc' = [pc EXCEPT ![m] = to]
    BY <1>1 DEF Move, AssignRead, AssignCommit, AssignFails, RemoveRead, RemoveCommit
  <2> QED
    BY <2>1, <2>2
<1>2. ASSUME NEW p \in Pinners, Pin(p)
      PROVE  /\ UNCHANGED <<lock, number, exists, versions>>
             /\ \A c \in Creators : pc'[c] = pc[c]
  <2>1. UNCHANGED <<lock, number, exists, versions>>
    BY <1>2 DEF Pin, PinRead, PinCommit, PinFails
  <2>2. \E to : pc' = [pc EXCEPT ![p] = to]
    BY <1>2 DEF Pin, PinRead, PinCommit, PinFails
  <2> QED
    BY <2>1, <2>2
<1>3. CASE DeletePrompt
  BY <1>3 DEF DeletePrompt
<1> QED
  BY <1>1, <1>2, <1>3 DEF Others

\* The steps of create_version that leave the versions as they are.
LEMMA WaitingStep ==
    ASSUME RegistryTypeOK, NEW c \in Creators, Creating(c), ~CommitVersion(c)
    PROVE  UNCHANGED <<prompt, target>>
  BY DEF Creating, Create, LockPrompt, LockMissing, ReadMax, InsertVersion,
         AbortVersion, prompt

LEMMA LockStep ==
    ASSUME RegistryTypeOK, LockInv, [RegistryNext]_registryVars
    PROVE  LockInv'
<1>1. ASSUME NEW c \in Creators, Creating(c) PROVE LockInv'
  <2> USE RegistryAssumption
      DEF RegistryTypeOK, LockInv, Goto, Requests, prompt, RegistryAssumption, Unlock
  <2>1. CASE LockPrompt(c) \/ LockMissing(c) \/ ReadMax(c)
    BY <2>1 DEF LockPrompt, LockMissing, ReadMax
  <2>2. CASE InsertVersion(c) \/ AbortVersion(c)
    BY <2>2 DEF InsertVersion, AbortVersion
  <2>3. CASE CommitVersion(c)
    BY <2>3 DEF CommitVersion
  <2> QED
    BY <1>1, <2>1, <2>2, <2>3 DEF Creating, Create
<1>2. CASE Others
  <2>1. lock' # NoOne => exists'
    BY <1>2, OthersStep DEF LockInv
  <2> QED
    BY <1>2, <2>1, OthersStep DEF LockInv
<1>3. CASE UNCHANGED registryVars
  BY <1>3 DEF registryVars, LockInv
<1> QED
  BY <1>1, <1>2, <1>3 DEF RegistryNext, Creating, Others

\* Only the holder of the lock can have a number, so at most one request has.
LEMMA NumberStep ==
    ASSUME RegistryTypeOK, LockInv, Dense, NumberInv, [RegistryNext]_registryVars
    PROVE  NumberInv' /\ Dense'
<1>1. ASSUME NEW c \in Creators, Creating(c) PROVE NumberInv' /\ Dense'
  <2>1. CASE CommitVersion(c)
    <3>1. /\ versions' = versions \cup {[n |-> Cardinality(versions) + 1, by |-> c]}
          /\ exists' /\ number' = number
      BY <2>1, RegistryAssumption
         DEF CommitVersion, NumberInv, LockInv, Goto, RegistryAssumption
    <3>2. Dense'
      BY <3>1, AppendIsDense
    <3>3. \A d \in Creators : pc'[d] \notin {"numbered", "inserted"}
      BY <2>1 DEF CommitVersion, LockInv, Goto, RegistryTypeOK, Requests
    <3> QED
      BY <3>2, <3>3 DEF NumberInv
  <2>2. CASE ~CommitVersion(c)
    <3>1. UNCHANGED <<exists, versions>>
      BY <1>1, <2>2, WaitingStep DEF prompt
    <3>2. Dense'
      BY <3>1 DEF Dense, Numbers
    <3>3. CASE ReadMax(c)
      BY <3>1, <3>2, <3>3, MaxIsCount DEF ReadMax, NumberInv, Goto, RegistryTypeOK, Requests
    <3>4. CASE ~ReadMax(c)
      BY <1>1, <2>2, <3>1, <3>2, <3>4
         DEF Creating, Create, LockPrompt, LockMissing, InsertVersion,
             AbortVersion, NumberInv, Goto, RegistryTypeOK, Requests
    <3> QED
      BY <3>2, <3>3, <3>4
  <2> QED
    BY <2>1, <2>2
<1>2. CASE Others
  <2>1. CASE UNCHANGED <<exists, versions>>
    BY <1>2, <2>1, OthersStep DEF NumberInv, Dense, Numbers
  <2>2. CASE lock = NoOne /\ ~exists' /\ versions' = {}
    <3>1. Dense'
      <4>1. Numbers' = {} /\ Cardinality(versions') = 0 /\ IsFiniteSet(versions')
        BY <2>2, FS_EmptySet DEF Numbers
      <4> QED
        BY <2>2, <4>1 DEF Dense
    <3>2. NumberInv'
      BY <1>2, <2>2, OthersStep, RegistryAssumption
         DEF NumberInv, LockInv, RegistryAssumption
    <3> QED
      BY <3>1, <3>2
  <2> QED
    BY <1>2, <2>1, <2>2, OthersStep
<1>3. CASE UNCHANGED registryVars
  BY <1>3 DEF registryVars, NumberInv, Dense, Numbers
<1> QED
  BY <1>1, <1>2, <1>3 DEF RegistryNext, Creating, Others
\* The holder of the lock inserts a number nobody has: it cannot conflict.
LEMMA ConflictStep ==
    ASSUME RegistryTypeOK, LockInv, Dense, NumberInv, NoSpuriousConflict, [RegistryNext]_registryVars
    PROVE  NoSpuriousConflict'
<1>1. ASSUME NEW c \in Creators, Creating(c) PROVE NoSpuriousConflict'
  <2>1. pc[c] = "numbered" => number[c] \notin Numbers
    BY MaxIsCount DEF NumberInv, Dense
  <2>2. UNCHANGED exists
    BY <1>1 DEF Creating, Create, LockPrompt, LockMissing, ReadMax, InsertVersion,
                CommitVersion, AbortVersion, prompt
  <2>3. pc'[c] = "conflict" => ~exists
    BY <1>1, <2>1 DEF Creating, Create, LockPrompt, LockMissing, ReadMax, InsertVersion,
                CommitVersion, AbortVersion, Goto, RegistryTypeOK, Requests
  <2>4. \E to : pc' = [pc EXCEPT ![c] = to]
    BY <1>1 DEF Creating, Create, LockPrompt, LockMissing, ReadMax, InsertVersion,
                CommitVersion, AbortVersion, Goto
  <2> QED
    BY <2>2, <2>3, <2>4 DEF NoSpuriousConflict, RegistryTypeOK, Requests
<1>2. CASE Others
  BY <1>2, OthersStep DEF NoSpuriousConflict
<1>3. CASE UNCHANGED registryVars
  BY <1>3 DEF registryVars, NoSpuriousConflict
<1> QED
  BY <1>1, <1>2, <1>3 DEF RegistryNext, Creating, Others

\* Versions in use only ever grow, unless the prompt goes with its labels.
LEMMA ReferencesStep ==
    ASSUME RegistryTypeOK, ReferencesResolve, [RegistryNext]_registryVars
    PROVE  ReferencesResolve'
<1> USE DEF ReferencesResolve
<1>1. ASSUME NEW c \in Creators, Creating(c) PROVE ReferencesResolve'
  <2>1. UNCHANGED <<labels, pinned>> /\ versions \subseteq versions'
    BY <1>1 DEF Creating, Create, LockPrompt, LockMissing, ReadMax, InsertVersion,
                CommitVersion, AbortVersion, prompt
  <2>2. Numbers \subseteq Numbers'
    BY <2>1 DEF Numbers
  <2> QED
    BY <2>1, <2>2
<1>2. ASSUME NEW m \in Movers, Move(m) PROVE ReferencesResolve'
  <2>1. UNCHANGED <<versions, pinned>> /\ Numbers' = Numbers
    BY <1>2 DEF Move, AssignRead, AssignCommit, AssignFails, RemoveRead, RemoveCommit,
                prompt, Numbers
  <2>2. CASE AssignCommit(m)
    BY <2>1, <2>2 DEF AssignCommit, RegistryTypeOK
  <2>3. CASE RemoveCommit(m)
    BY <2>1, <2>3 DEF RemoveCommit, RegistryTypeOK
  <2>4. CASE UNCHANGED labels
    BY <2>1, <2>4
  <2> QED
    BY <1>2, <2>2, <2>3, <2>4 DEF Move, AssignRead, AssignFails, RemoveRead, prompt
<1>3. ASSUME NEW p \in Pinners, Pin(p) PROVE ReferencesResolve'
  <2>1. UNCHANGED labels /\ Numbers' = Numbers
    BY <1>3 DEF Pin, PinRead, PinCommit, PinFails, prompt, Numbers
  <2>2. pinned' \subseteq Numbers
    BY <1>3 DEF Pin, PinRead, PinCommit, PinFails, prompt
  <2> QED
    BY <2>1, <2>2
<1>4. CASE DeletePrompt
  BY <1>4 DEF DeletePrompt
<1>5. CASE UNCHANGED registryVars
  BY <1>5 DEF registryVars, Numbers
<1> QED
  BY <1>1, <1>2, <1>3, <1>4, <1>5 DEF RegistryNext, Creating

LEMMA RegistryInvStep == RegistryInv /\ [RegistryNext]_registryVars => RegistryInv'
  BY RegistryTypeStep, LockStep, NumberStep, ConflictStep, ReferencesStep DEF RegistryInv

\* Types, lock, dense numbers, conflicts and references form one inductive
\* invariant of the registry.
THEOREM RegistryInvHolds == RegistrySpec => []RegistryInv
  BY RegistryStart, RegistryInvStep, PTL DEF RegistrySpec

\* The registry's tables, locks and requests keep their types.
THEOREM RegistryTypeCorrect == RegistrySpec => []RegistryTypeOK
<1>1. RegistryInv => RegistryTypeOK
  BY DEF RegistryInv
<1> QED
  BY <1>1, RegistryInvHolds, PTL

\* No create_version request meets an integrity error on a living prompt.
THEOREM LockPreventsConflict == RegistrySpec => []NoSpuriousConflict
<1>1. RegistryInv => NoSpuriousConflict
  BY DEF RegistryInv
<1> QED
  BY <1>1, RegistryInvHolds, PTL

\* Labels and eval runs never refer to a version that is not there.
THEOREM ReferencesAlwaysResolve == RegistrySpec => []ReferencesResolve
<1>1. RegistryInv => ReferencesResolve
  BY DEF RegistryInv
<1> QED
  BY <1>1, RegistryInvHolds, PTL

-----------------------------------------------------------------------------
(* The refinement: CommitVersion is Publish, AssignCommit is Point,        *)
(* RemoveCommit is Unpoint or nothing, DeletePrompt is Retire.             *)

pointers == [l \in Labels |-> labels[l].version]

LEMMA InitRefines == RegistryInit => Log!LogInit
  BY DEF RegistryInit, Log!LogInit, NoLabel

LEMMA PublishRefines ==
    ASSUME RegistryInv, NEW c \in Creators, CommitVersion(c)
    PROVE  Log!Publish(c)
<1>1. number[c] = Cardinality(versions) + 1 /\ exists
  BY RegistryAssumption
     DEF CommitVersion, RegistryInv, LockInv, NumberInv, Goto, RegistryAssumption
<1>2. versions' = versions \cup {[n |-> Cardinality(versions) + 1, by |-> c]}
  BY <1>1 DEF CommitVersion
<1>3. UNCHANGED <<exists, labels>>
  BY DEF CommitVersion
<1>4. versions' = versions \cup {[n |-> Log!Cardinality(versions) + 1, by |-> c]}
  BY <1>2 DEF Log!Cardinality, Cardinality
<1>5. UNCHANGED <<exists, pointers>>
  BY <1>3 DEF pointers
<1> QED
  BY <1>1, <1>4, <1>5 DEF Log!Publish, pointers

LEMMA MoveRefines ==
    ASSUME RegistryInv, NEW m \in Movers, Move(m)
    PROVE  [Log!LogNext]_(Log!logVars)
<1>1. UNCHANGED <<exists, versions>>
  BY DEF Move, AssignRead, AssignCommit, AssignFails, RemoveRead, RemoveCommit, prompt
<1>2. CASE UNCHANGED labels
  BY <1>1, <1>2 DEF Log!logVars
<1>3. ASSUME NEW l \in Labels, NEW n \in Numbers, NEW row,
             labels' = [labels EXCEPT ![l] = [version |-> n, row |-> row]]
      PROVE  Log!Point(l, n)
  <2>1. pointers' = [pointers EXCEPT ![l] = n]
    BY <1>3 DEF pointers, RegistryInv, RegistryTypeOK
  <2> QED
    BY <1>1, <2>1 DEF Log!Point, Log!Numbers, Numbers, pointers
<1>4. ASSUME NEW l \in Labels, labels' = [labels EXCEPT ![l] = NoLabel]
      PROVE  [Log!LogNext]_(Log!logVars)
  <2>1. pointers' = [pointers EXCEPT ![l] = 0]
    BY <1>4 DEF pointers, NoLabel, RegistryInv, RegistryTypeOK
  <2>2. CASE pointers[l] = 0
    <3>1. pointers' = pointers
      BY <2>1, <2>2 DEF pointers
    <3> QED
      BY <1>1, <3>1 DEF Log!logVars, pointers
  <2>3. CASE pointers[l] # 0
    BY <1>1, <2>1, <2>3 DEF Log!Unpoint, Log!LogNext, pointers
  <2> QED
    BY <2>2, <2>3
<1>5. CASE AssignCommit(m)
  <2>1. PICK l, n, row :
            /\ l = target[m].label
            /\ n \in Numbers
            /\ labels' = [labels EXCEPT ![l] = [version |-> n, row |-> row]]
    BY <1>5 DEF AssignCommit
  <2>2. CASE l \in Labels
    <3>1. Log!Point(l, n)
      BY <1>3, <2>1, <2>2
    <3>2. n \in Log!Numbers
      BY <2>1 DEF Log!Numbers, Numbers
    <3>3. Log!LogNext
      BY <2>2, <3>1, <3>2 DEF Log!LogNext
    <3> QED
      BY <3>3
  <2>3. CASE l \notin Labels
    <3>1. labels' = labels
      BY <2>1, <2>3 DEF RegistryInv, RegistryTypeOK
    <3> QED
      BY <1>2, <3>1
  <2> QED
    BY <2>2, <2>3
<1>6. CASE RemoveCommit(m)
  <2>1. CASE target[m].label \in Labels
    BY <1>2, <1>4, <1>6, <2>1 DEF RemoveCommit
  <2>2. CASE target[m].label \notin Labels
    <3>1. labels' = labels
      BY <1>6, <2>2 DEF RemoveCommit, RegistryInv, RegistryTypeOK
    <3> QED
      BY <1>2, <3>1
  <2> QED
    BY <2>1, <2>2
<1> QED
  BY <1>2, <1>5, <1>6 DEF Move, AssignRead, AssignFails, RemoveRead, prompt

\* Every step of the registry is a step of the abstract log, or none.
LEMMA StepRefines == RegistryInv /\ [RegistryNext]_registryVars => [Log!LogNext]_(Log!logVars)
<1> SUFFICES ASSUME RegistryInv, [RegistryNext]_registryVars PROVE [Log!LogNext]_(Log!logVars)
  OBVIOUS
<1>1. ASSUME NEW c \in Creators, Creating(c) PROVE [Log!LogNext]_(Log!logVars)
  <2>1. CASE CommitVersion(c)
    BY <2>1, PublishRefines DEF Log!LogNext
  <2>2. CASE ~CommitVersion(c)
    BY <1>1, <2>2, WaitingStep DEF RegistryInv, prompt, Log!logVars
  <2> QED
    BY <2>1, <2>2
<1>2. ASSUME NEW p \in Pinners, Pin(p) PROVE [Log!LogNext]_(Log!logVars)
  BY <1>2 DEF Pin, PinRead, PinCommit, PinFails, prompt, Log!logVars
<1>3. CASE DeletePrompt
  <2>1. pointers' = [l \in Labels |-> 0]
    BY <1>3 DEF DeletePrompt, pointers, NoLabel
  <2> QED
    BY <1>3, <2>1 DEF DeletePrompt, Log!LogNext, Log!Retire, pointers
<1>4. CASE UNCHANGED registryVars
  BY <1>4 DEF registryVars, Log!logVars
<1> QED
  BY <1>1, <1>2, <1>3, <1>4, MoveRefines DEF RegistryNext, Creating

\* The registry implements the append-only log with atomic pointers.
THEOREM RegistryImplementsLog == RegistrySpec => ImplementsVersionLog
  BY InitRefines, StepRefines, RegistryInvHolds, PTL DEF RegistrySpec, ImplementsVersionLog, Log!LogSpec
=============================================================================
