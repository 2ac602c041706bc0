# LLM Observatory: specifications, checks and proofs

LLM Observatory stores prompts, runs evaluations of them, ingests traces of
applications, samples those traces for human review and alerts on them. This
directory models the parts of it where several actors meet: requests of the API,
worker attempts, cron passes, threads of the SDK, and the database, queue and
network between them. Paths below are relative to the repository; `core` stands
for `packages/core/src/lo_core`, `api` for `apps/api/src/lo_api`, `worker` for
`apps/worker/src/lo_worker`, `sdk` for `packages/sdk/src/llm_observatory`.

`PROJECT.json` lists the components, the runs, a mutant of the code for every
property, the lines every definition stands for, the hazards and the theorems.

## Inventory

| Component | State | Operations | Meets | What is hard | What makes it correct |
|---|---|---|---|---|---|
| Eval engine (`core/services/runner.py`, `evaluation.py`, `worker/tasks/evaluation.py`, `api/routers/evaluation.py`) | rows of runs, results, scores, dead letters; the arq job | create, enqueue, deliver, resume, run items, summarise, fail, dead-letter, cancel | arq, database, providers, the cancel request | attempts that die anywhere, redelivery, a commit after the enqueue, a cancel during an attempt | no item paid twice, summaries equal to rows, terminal statuses kept, every accepted run settles |
| Prompt registry (`core/services/prompts.py`) | prompts, versions, labels | create a version, move or remove a label, resolve, diff, delete | eval runs pin versions | `max + 1`, read-then-delete, a lock held by a request that dies | versions are an append-only dense log, references resolve, a diff leaves nothing out |
| SDK tracing client (`sdk/_client.py`) | bounded queue, worker thread, counters | submit, batch, post with retries, shutdown | application threads, ingest endpoint | a full queue, lost answers, time-out of the join | every span is accounted for, no count overclaims but for a commit that fails after its answer |
| Trace ingest (`core/services/traces.py`) | spans, one rollup per trace | insert a batch, recompute rollups, build the span tree | SDK and OTLP clients | overlapping transactions, retried batches, a commit after the answer, a key that moves with the start time | what responses count is stored once, rollups exist and tell the truth about stored spans, a trace is read whole |
| Review queue (`core/services/review.py`) | review items, dataset versions | label, skip, promote, count | datasets, eval runs | read before the write, concurrent promotions | promotion is one-way and resolves, the statistics agree with it |
| Guardrail sampler (`core/services/review.py`, `worker/tasks/sampling.py`) | watermark per project | a pass every five minutes | ingest, review queue | overlapping passes, late rollups, one project that raises | nothing visible is skipped, projects are independent |
| Alert rules (`core/services/alerts.py`, `worker/tasks/alerting.py`) | rules with stamp, failures, enabled | a pass every minute, create, delete | webhooks, metrics | slow or dead endpoints, overlapping passes, a rule deleted during a pass | one notification per cooldown, dead endpoints disabled |
| Ingest rate limiter (`core/ratelimit.py`) | a Redis sorted set per project | trim and count, add | ingest endpoints | two transactions per request, Redis failing | overshoot bounded, refusals justified |
| Datasets (`core/services/datasets.py`) | datasets, versions, items | upload, version, delete | eval runs, review | as the prompt registry | modelled where the review queue meets it |
| API keys and authorisation (`core/services/api_keys.py`, `api/dependencies.py`) | keys with scopes, one transaction per request | verify, touch, authorise, issue, revoke | every request, the rate limiter | rows read before another request's commit, row locks held until the end of a request, a touch that is rolled back with its request | a revocation stays, the last use is known |
| SDK spans (`sdk/_tracing.py`, `_span.py`) | a context variable per task or thread | open and close a span, decorate, instrument a vendor's client | the tracing client, the program around | tasks, threads, exceptions, generators that outlive their block | a span's parent is the block it was opened in, a trace has one root |
| OTLP ingest (`api/routers/otlp.py`, `api/otlp`) | none: one request | read, decode, charge, map span by span, store, answer | the rate limiter, trace ingest | spellings of ids, three generations of attribute names, one span that is of no use, a commit after the answer | the answer says what its transaction stores, no attribute is lost unsaid |
| Run comparison (`core/services/comparison.py`) | none | compare two runs | eval engine | missing results, gaps, trade-offs, different datasets | it takes no side, means are accounted for |
| Evaluators (`core/evaluators`) | none | score one output | eval engine | cut-offs, doubles, empty lists | the retrieval scores agree; those of text are not modelled |
| Judge rubrics, guardrail checks, templating | none, or prompts | seeding, pure computations | eval engine, registry | edge cases of data | not modelled |
| Providers, metrics queries, dashboard, migrations, infrastructure | external or derived | conversions, queries, I/O | | | not modelled |

## How the code is read

* **Steps.** An action is the code between two points at which another actor can
  come in: an `await` that commits or calls out (EvalRun), a statement
  (PromptRegistry, TraceIngest, ReviewQueue, ApiKeys), an operation on the queue
  (TracingClient), a Redis transaction (RateLimiter).
* **Database.** PostgreSQL at READ COMMITTED, as `core/db/session.py` configures
  nothing else: a statement sees what is committed when it starts and what its own
  transaction wrote; `FOR UPDATE`, an update, a unique insert wait for the
  transaction that holds the row; a cycle of waits is broken by aborting one.
  SQLAlchemy writes the columns that differ from what was read and no others, with
  `autoflush=False` and `expire_on_commit=False`; a flush that raises leaves the
  session unusable (AlertRules!StampDeleted).
* **arq.** It is external and modelled as arq itself treats a job: it runs one again
  when its worker died, when the worker's shutdown cancelled it (`CancelledError`) or
  when it asked for that with `Retry`, which no task of the repository does. An
  attempt that returns, raises any other exception or exceeds `job_timeout` has
  finished the job for good. `job_try` counts the deliveries up, and a delivery beyond
  `max_tries` is dropped. Cron passes may overlap when one takes longer than the
  period.
* **Answers.** `db_session` commits in the exit of a dependency with `yield`
  (`api/dependencies.py:66-69`), which the FastAPI of the lock file (0.141.1) runs after
  the response has been sent. A request therefore answers first and commits then:
  what was answered with a 2xx may be undone by a failed commit or a crash. TraceIngest,
  OtlpExport and the server that TracingClient meets have a step for each of the two,
  and one for the failure in between.
* **Time.** RateLimiter, ApiKeys (one clock for the two) and GuardrailSampler have a
  bounded clock; AlertRules has
  none: a timestamp is its age, capped at the cooldown, because no condition of the
  code looks further back. EvalRun and TracingClient have no clock; a timeout is a
  step that may happen.
* **Crashes.** A process that dies loses its transaction and its local state, never
  a committed row or a job.

## Modules

* **EvalRun** models one run. `api` is the create request (`CreateRun`, `Enqueue`,
  `Commit`, in the order of the router and `db_session`), `job` and `tries` the arq job,
  `wpc` and `phase` the attempt and its item tasks (`execute_run`, `_run_items`,
  `_execute_item`), `cpc` the cancel request between its check and its write. `Crash`
  puts the job back into the queue; `Acknowledge` is an attempt that returned,
  `FinishFailed` one that raised, `TimeOut` one that ran too long, and neither of the
  two is followed by another. `LoadItems` is the resume set, `FinishRun` the final
  update. Scores of an item are one verdict per evaluator: a score or a gap.
* **EvalRunClaims** holds a statement of the repository that the code does not keep.
* **VersionLog** is what the registry promises: a log of versions numbered without
  gaps that is only appended to, and labels that name versions in it.
* **PromptRegistry** models `create_version` (`LockPrompt`, `ReadMax`,
  `InsertVersion`, `CommitVersion`), `assign_label`, `remove_label`, the pinning by
  `create_run` and `delete_prompt`. It implements VersionLog.
* **RunAndRegistryProofs**: theorems about the runs, for any items, evaluators, tries
  and fault settings, and the registry's invariant and refinement.
* **TracingClient** models submitting threads (`Put`, `CountDrop`, `EvictOldest`,
  `PutAgain` as the separate queue operations they are), the worker thread (`Get`,
  `AfterGet`, `Drain`, the posting actions), `shutdown` and `stats`. The server is
  external to it: a request that brings a batch opens a transaction (`open`), which
  may have answered or not, and which commits (`ServerCommits`) or is undone
  (`ServerAborts`) at any time after.
* **TraceIngest** models `ingest_spans` and `refresh_trace` statement by statement, then
  the response with its counts (`Answer`) and the commit after it (`Commit`);
  **MCTraceIngest** gives it spans and traces, **TraceIngestClaims** holds a
  statement the code does not keep, **TraceIngestProofs** has the theorems about its
  rollups, its counts and what a lone request repairs.
* **SpanTree** models `build_tree`, which `get_trace` calls on the stored rows, one
  turn of a loop per step: `Collect` the ids, walk the parent chains
  (`_spans_in_cycles`), link the nodes, detach what is too deep (`_bound_depth`).
  Its reference definitions (OnCycle, Level) follow the parents and the children
  independently of the walk.
* **SdkSpans** models `span`, `@trace` and `instrument`: `ctx` is what each task or
  thread has in the context variable and which blocks it is in; `Enter` and
  `CallModel` open a block, `Exit` closes it, `Raise` and `Catch` are the program's
  exceptions, `CreateTask` copies a context, `StartThread` does not, and
  `EnterSuspended`, `ExitSuspended`, `ExitElsewhere` are a block inside a generator.
* **OtlpExport** models one request of `export_traces`, from `Receive` to its
  answer and the end of its transaction; an action is one early return or one step of
  the handler, `Map` one turn of its loop. `Ingest` inserts the rows and answers,
  `Commit` stores them, `CommitFails` undoes them. A spelling of an id is in hex, in
  base64, of the wrong length, or odd: one that `int(value, 16)` reads and that is none.
* **TracePath** composes the three: rows come from an SDK program, from an
  exporter's request, or from nowhere known; `ReadProgram` and `ReadExport` hand any
  of what was submitted (some may be lost, or not there yet) to the tree.
  **SpanIds** has the ids they share, **MCTracePath** the instance,
  **TracePathProofs** the theorems about the three parts and the whole path, for any
  ids, rows, depth, programs and requests.
* **ReviewQueue** models `label_item`, `skip_item`, `promote_items`, and
  `create_version` and `delete_dataset` of the dataset; `queue_stats` is what the
  statistics say of a state, as if their four SELECTs saw one (they may see four);
  **MCReviewQueue** is its instance.
* **GuardrailSampler** models `sample_all` and `sample_project`: `ScanProject` is
  the query, `ExamineProject` the loop, the inserts and the new watermark,
  `ExamineRaises` an exception that `sample_all` catches; **MCGuardrailSampler** is
  its instance. **ReviewProofs** has the theorems about promotion and about the
  watermarks.
* **AlertRules** models `evaluate_all`: `Notify` is the request to the webhook,
  `Stamp` its answer with the update that follows, `CommitPass` the end of
  `session_scope`. **DeliveryProofs** has the theorems about what is delivered, spans
  by the client and notices by the rules.
* **RateLimiter** models `check_rate_limit`, **ApiKeys** a request with its key:
  `Verify`, `Touch` and `Authorise` are the dependencies of a route, `Issue`,
  `ReadTarget` and `Revoke` the handlers of key management, `Commit` and `Rollback`
  the end of `db_session`. **Admission** composes the two (an ingest request asks the
  limiter between its key and its writes), **ApiRequests** has what they share,
  **MCAdmission** the instance, **AdmissionProofs** the theorems about keys and
  about the limiter.
* **RunComparison** (`compare_runs`), **PromptDiff** (`diff_versions`,
  `resolve_version`, `content_hash`), **RetrievalMetrics** (precision, recall,
  reciprocal rank) and **SpanMapping** (`to_span_ingest`) are operators, with the
  reference definitions beside them (`Mirror`, `Accounted`, `Old`, `New`, `Backwards`,
  `AtMost`, `Outranked`, `Overwritten`). The attributes of a span are a dictionary with
  its order: messages are taken from the keys of two namespaces, and of two that are
  the same field the last one stays; what the metadata says of the span's origin is
  written over attributes of those names; a cost that is no finite number makes the
  schema refuse the span.
  **Calculations** calls each of them once on any input; **MCCalculations** has the
  inputs, **CalculationsProofs** the theorems.
* **FoldFacts** has what the proofs need of sums over finite sets and of functions
  that are defined by recursion over numbers.

Components meet in the state they share: CountsHold and AcceptedOnce together say that a
batch which the client repeats is stored once, and counted again only where the commit
after the first answer failed; PinRead and PinCommit are the part of `create_run` that
the registry sees; `Arrive` and `TurnError` of the sampler are what TraceIngest commits;
`inserted` of OtlpExport is a batch that TraceIngest inserts; the means of RunComparison
are the aggregates that EvalRun keeps. Definitions named `<Action>_<what>` are mutants:
plausible bugs that the properties must notice.

## Runs

| Run | Instance | What it shows |
|---|---|---|
| EvalRun | 3 items, 1 evaluator, 3 tries, 2 at a time, every fault: early deliveries, crashes, time-outs, transactions that fail | PaidOnce, SucceededIsComplete, SummaryIsCurrent, DeadLetterIsLast, FinishedStays, CancelHolds, RunSettles |
| EvalRun_NeverSilentlyLost | 2 items, no time-outs, violated | a job that starts before its run is committed raises and is finished, and the run then stays pending without a dead letter; so does, on other paths, a job whose last attempt is killed; against `worker/main.py:92` |
| PromptRegistry_safety | 3 creators, 3 that move one label, one that pins, with deaths | NoSpuriousConflict, ReferencesResolve, ImplementsVersionLog, CreatorsFinish |
| TracingClient | queue of 1, 3 submits at once, batches of 2, 2 attempts per post, server transactions that commit late or never | EverySpanAccounted, CountsHold, SpansSettle, WorkerExits |
| TraceIngest | 3 requests, any batches of 3 spans, deaths, also between answer and commit | AcceptedOnce, RollupExists, RollupTruthful, Repairs |
| TracePath | every list of up to 4 rows over 4 span ids, greatest depth 2; every program of up to 3 spans in 2 contexts; every request of up to 2 spans in hex, base64 or an odd spelling, or too many; commits that fail | EverySpanReturned, OnlyBrokenLinksCut, ParentIsEncloser, OneRootPerTrace, AnswerIsTruthful, TreeMirrorsProgram |
| TraceIngest_OneRollup | as above, violated | two overlapping requests leave two rollups of a trace, and `get_trace` then raises |
| ReviewQueue | 2 items, 2 reviewers, 2 promotions, an upload, a removal, versions of 3 examples at most | PromotionResolves, ExampleOnce, JudgementsStand |
| GuardrailSampler | 2 overlapping passes, 2 projects, 4 traces, a list of 1 | NothingLeftBehind, EveryTraceExamined |
| AlertRules | 2 overlapping passes, a dead and a live endpoint, the dead one's rule may be deleted, cooldown of 1 tick, 2 failures | CooldownHolds, BreachIsNotified, DeadEndpointDisabled |
| Admission | 2 requests at a time, 2 keys of one project (one issued during the run, one that expires), limit 3, batches up to 2, window 2, clock to 3 for ingestion and to 1 for key management | OvershootBounded, RefusedOnlyAtLimit, RevokedStays, LastUseIsKnown |
| Calculations | every input: 2 items by 1 evaluator or 1 item by 2, prompts of 2 versions with 2 messages and 2 parameters at most, lists of 3 documents in 2 spellings, all values of the spellings of one fact, messages in two namespaces and two orders | ComparisonIsFair, RetrievalScoresAgree, NoAttributeLost |

**Why the bounds are enough to be interesting.** Three tries are the code's own number;
three items at concurrency two leave one item waiting, one done by an earlier attempt
and one errored. A queue of one span is full after one submit, so all of eviction
happens with three threads. Two ingest requests race, the third sees what a race has
left. Two passes overlap; a list of one trace is full at once. A cooldown of one tick is
in force at age zero and over at age one, which are the only two cases the code
distinguishes; two failures tell a counter from a flag. Four rows have room for a cycle
with a chain that leads into it, a double, an absent parent, a second root, and a chain
twice as long as the greatest depth. The window of the limiter is longer than a
request's delay and shorter than the clock's range, so members enter, leave and are
counted late; a key's use is due for recording after two ticks, a request stays for one
(MaxStay), so a touch may be refused by its neighbour's, rolled back, or late. Ingestion
and key management are two profiles of clients (`Traffic`), explored one at a time: what
they share is the row of a key, which both touch. Three spans are a block, one inside
it, and one that a task, a thread or a generator opens beside it; two contexts tell a
copied variable from a shared one. A request of two spans has a good one and a bad one
in either order, a child and its parent. Two results with scores 0, 1 and 3 and an
epsilon of 1 have differences below, at and above it, and means that weigh different
numbers of results; the attributes of different facts do not meet in the mapping but in
the kind and in the messages, whose keys are tried together, in an order of the
dictionary and in its reverse. Versions of a prompt of two messages have one at an index
that the other has not; two parameters are changed, added and removed in one diff, and 1
and true are a change of type that Python's `==` does not see.

**Fairness and its ground.** EvalRun: the request's coroutine, arq's poll and the
attempt go on as long as their process lives; nobody is obliged to cancel or to crash,
and RunSettles leaves out the job that arq ends without the run having come to rest:
dropped because its last attempt was killed, or finished by an exception or a time-out.
The violated run is about those. PromptRegistry: a request that can go on does.
TracingClient: the worker and the submitting threads are scheduled and time passes; the
server's transactions need not end. TracePath, Admission and Calculations state no
fairness: their properties are about states and steps. GuardrailSampler and AlertRules:
the cron starts passes again and again (`worker/main.py:77`), a pass goes on, time
passes; at most CrashLimit passes die. AlertRules gives a released row to the pass that
waits for it, as PostgreSQL's lock queue does; without that two passes could abort each
other for ever. Runs whose actors all end say CHECK_DEADLOCK FALSE.

## What is proved

TLAPS checks, for all values of the constants that satisfy the modules'
assumptions:

* RunAndRegistryProofs: TypeCorrect, SucceededRunsAreComplete, SummariesAreCurrent,
  ScoresAndDeadLetters, NothingPaidTwice, CancelIsKept, FinishedIsKept;
  RegistryTypeCorrect, RegistryInvHolds, LockPreventsConflict,
  ReferencesAlwaysResolve, RegistryImplementsLog.
* TraceIngestProofs: EveryTraceListed, RollupsAreTruthful, SpansAreAcceptedOnce,
  LoneRequestsRepair.
* TracePathProofs: ProgramInvHolds, TracesHaveOneRoot, ParentsAreEnclosers;
  TreeInvHolds, TraceInvHolds, TreesAreWhole, LinksAreCutForAReason,
  AnswersAreTruthful, TreesMirrorPrograms.
* DeliveryProofs: SpansAreAccounted, CountsAlwaysHold; CooldownInvHolds,
  NoticesKeepTheCooldown.
* ReviewProofs: PromotedItemsResolve, JudgementsAreKept, ItemsArePromotedOnce;
  WatermarksAreHonest.
* AdmissionProofs: LastUseStaysKnown, RevocationsStay; LimiterInvHolds,
  OvershootIsBounded, RefusalsAreAtTheLimit.
* CalculationsProofs: CalculationsInvHolds, ComparisonsAreFair,
  RetrievalScoresTellOneStory, AttributesAreNotLost.

Every safety property and every action property that a passing run checks is stated
by one of them.

*EvalRun.* None of the properties is inductive. The invariant `IInv` adds: that an
attempt is under way exactly while the job is active, and past its read only for a
committed run (`JobInv`); that the row says running or cancelled while the attempt
works, and before that what the attempt has read, unless it was cancelled
(`StatusInv`); that a task that is past its generation, or skipped, has a stored
output and one that is before it has none (`PhaseInv`); that completed and failed
items together leave out none (`EveryItemCounted`) and scores are kept with an
output only (`ScoresHaveOutput`). SummariesAreCurrent needs StatusInv: nothing is
written below a succeeded or partial status, because an attempt sets the row to
running before any of its tasks writes, and the final update reads the rows when all
its tasks have ended. The proof has one lemma per part of the invariant and in it
one step per action.

*PromptRegistry.* `RegistryInv` says that the numbers of the versions are dense, that the
prompt's row is locked by the creator that is past its lock, and that such a
creator's number is the next one, if it has read the maximum. From it, the insert
of the creator is a `Publish` of VersionLog, the commit of a label a `Point`, and
every other step a stutter or the log's retirement. MaxIsCount and AppendIsDense
are the facts about dense sets of numbers it rests on.

*TraceIngest.* A rollup disappears only when a request commits a `DELETE` of the rows it
takes to be superseded. `IngestInv` says of each request what makes that safe: it has
written a rollup of every trace that it deletes one of, under another key than those it
deletes, and one of every trace of its batch that is not to do any more. What it has
written is true of what it sees (RequestInv), and what it sees is true when it commits.
A step of one request has to be looked at for that request only, as long as it writes
nothing that is committed (OwnStep); the commit is the one step that is not of that
kind. AcceptedOnce compares a sum over the requests that have committed, and any of
those that have answered and may still commit, with the number of the spans that are
then stored: an insert takes only spans that nobody has, so what the requests in flight
have inserted is apart from what is stored and from each other's, the answer counts what
was taken, and the commit moves it. A request that is undone after its answer leaves
both sides. Repairs is about a request that meets no other (RepairInv): what it reads of
a trace is all there is of it, the rows it dooms are all the others of that trace, so
that a trace it is done with has one rollup, of all its spans, whatever was there
before.

*SdkSpans.* `ProgramInv` says how a context variable behaves as a stack although it
is none: it holds the innermost open block, the token of every block is the block
around it, and every span that is not submitted is an open block of its context
(Discipline). A generator that leaves a block open breaks this for its context, for
good, and that context alone; it is excluded by name, as `leaked`. TracesHaveOneRoot and
ParentsAreEnclosers are about ProgramSpec, the run checks the same steps as part of
TraceSpec; TraceInv has ProgramInv for a part, so they hold there as well.

*SpanTree.* `TreeInv` follows `build_tree` through its loops. Of the walk: what is
marked as cyclic is on a cycle, what is visited and not marked has none (every set of
it has a member whose parent is outside), and a visited span's parent is visited
(WalkInv); the path under way climbs from parent to parent through spans that are not
visited (PathInv). When a walk comes back to its own path, that part of it is a cycle,
and the only one it can reach; when it ends elsewhere, there is none. Of the links:
every span that has been linked is in exactly one list, under its own parent or among
the orphans (LinkInv, OnePlace). Of the bounding: there is a depth for every span that
has been reached, which is 1 for the tops and one more than the parent's for the
others, nothing is queued twice, and what has left the queue has its children reached
(Depths). When the queue is empty, every seat has a depth, and no depth is beyond the
greatest (ReturnedDepths), which is EverySpanReturned. The reference definitions (levels
of the tree, ancestors, concatenated lists) are recursive functions over numbers, and
the proofs argue by the least number at which they would fail (FoldFacts).

*OtlpExport.* `HandlerInv` says that after n spans what is mapped is what `Kept`, the
reference, keeps of the first n, and that what is not kept was counted as rejected; so
what an answer of 200 has inserted is Kept of all, which its commit stores and a
failed commit does not.

*TracePath.* `TraceInv` is the conjunction of the invariants of the parts and of two
that belong to the composition: lists of siblings are in the order of the rows
(SortedInv), and no id is drawn twice. TreeMirrorsProgram needs one that says what
the rows are of (MirrorInv): they are in the order of a forest, whose ids differ, which
has one root at most, and in which no parent comes after its child, though some may be
absent; so there is no cycle to cut. For programs this follows from ProgramInv. For
exporters it is a hypothesis, SoundRequests, because `build_tree` takes any rows: ids
of their own, one root at most, parents that began before their children, as an SDK's
export is. The instance of the run satisfies it.

*Admission, keys.* The stamp of a key may go back, because a request writes the time it
began at. `KeyInv` bounds how far: a request is not older than MaxStay, and one that
has left the row as it was had found a use in it that was recent. RevocationsStay
follows from the types: a commit writes only columns its request has changed, and no
request clears the stamp of a revocation.

*Admission, limiter.* The bound on the overshoot is not inductive by itself: a window
that is within the limit now can still be added to. `LimiterInv` counts for every
window what it has let through together with what the requests in flight that have
read a count below the limit may still add to it. A request that counts enters this
sum only if what it read leaves room for it, and then everybody else's part is at
most a batch each; one that is let through only changes sides. A count is a lower
bound of what was let through since the window began, because trimming removes only
what no window of a request that is still to count covers.

*TracingClient.* The counters say how many spans, not which. `ClientInv` keeps a
ledger: there is a set of spans for `sent` and one for `failed`, of their size, so
that every span that entered the queue is in exactly one of the queue, the batch, these
two and the evicted ones (Ledger). Every span of the set for `sent` is stored, in an
open transaction that has answered, or in one that was undone after it had. The drops need a
count of the submits that are in between (DropInv): one that has counted its drop
can still lose two spans, one that has evicted a span can lose one more.

*AlertRules.* The cooldown is kept by a row that at most one pass has anything to do
with: while the last notice of a rule is younger than the cooldown, every pass that is
under way is alone with it, and the time of that notice is in the row the pass
has written, in the stamp it is about to write, or in the row it has read
(CooldownInv). A pass that overlaps another, or is rolled back, is where the property
ends; it is stated for passes that are alone.

*ReviewQueue.* `ReviewInv` is about what a request still believes: a label that was
there when it read the item can have changed since but not have gone, a label is only
written by a request that has read the item before its promotion, and a promotion's
snapshot has labels and answers for the examples it makes, whatever happens to the
items meanwhile. ItemsArePromotedOnce is about the items that no two promotions held
at once: what a promotion holds of them is not promoted and nobody else's, so it is
neither in the latest version nor in what the promotion carries forward from one
(OnceInv). JudgementsAreKept needs that a row with a label is not pending, although the
columns are written by requests that have read another row: what a request has read
as settled is still settled when it writes (RequestInv). So a bad control item is
labelled or skipped, and the misses that are not reviewed are the skipped ones.

*GuardrailSampler.* `SamplerInv` says that a pass never claims more than it has done:
what lies behind the marks it has read was accounted for when it read them, what lies
behind those it has set is covered by it, and between scan and mark, what the mark
would leave behind is on the list, tied with its last trace, or out of sight
(PassInv). A mark that an overlapping pass sets back only claims less.

*Calculations.* The state is a call and its result; the theorems are about the
operators, for runs of any size, lists of any length and any attributes. A comparison
is turned round example by example (ExampleMirror) and mean by mean (MeanMirror).
That a mean which moved has its example goes the other way: if no example of an
evaluator was lost, new or worse, both runs have scored the same items, no score fell
by more than Epsilon, so the sums differ by at most that much per item (SumWithin) and
the mean is not lower (MeanNotRegressed); a gain is the mirror of a loss. The scores of
an item are cardinalities of sets of places: one list's hits are empty just when the
other's are, and reading further makes them a superset (FurtherFacts). A diff has
an entry for every index or name that either side has, and its change says which of
them do: so each side can be read back (SidesRead), the other direction is its reverse
entry by entry (DiffsTurn), and the two agree on what is unchanged (TurnedUnchanged).
For an attribute that has a value, the first spelling that has one is that
attribute's, or one before it has a value (FirstFacts); a message's field holds the
value of its key that comes last (MessageKept, MaxFacts).

*Assumptions.* Finite sets of items, requests, spans, ids and a run's results, at least
one evaluator and one try, natural bounds, times and scores (`eval_scores` checks
that they lie between 0 and 1, `evaluation.py:226` of the models), values for "never", "no
score" and "unscoreable" that are no time, no key, no number and no fraction, examples
in a version up to a positive bound, and requests and inputs of the types their
schemas give them; nothing about what faults occur or how many. TreesMirrorPrograms
has the hypothesis SoundRequests, see above.

*Induction.* The provers cannot instantiate an induction theorem with a predicate.
Sums over finite sets and recursive functions over numbers are reasoned about by the
least of a set of counterexamples instead (LeastSubset, LeastNat of FoldFacts), a
statement about a set; what a recursion computes is proved where that is enough.

Only model-checked: the liveness properties (RunSettles, CreatorsFinish,
SpansSettle, WorkerExits, EveryTraceExamined, BreachIsNotified,
DeadEndpointDisabled), which are out of the prover's reach, and the two statements
that the code does not keep, which are violated.

## What the code does and its documentation does not say

Two runs are listed as violations, see above. The models reproduce more, which the
properties therefore exclude; those of them that a test would hardly reach are stated at
their lines under "hazards":

* a request answers before it commits (`dependencies.py:66-69`). What `routers/traces.py:53`
  calls "accepted and durable" may not be stored, what an OTLP request of status 200
  reports as stored likewise, and a client counts spans as sent and forgets them.
  CountsHold, AcceptedOnce and AnswerIsTruthful say what holds in spite of it, and name
  the request that is undone after its answer;
* arq ends a job at a plain exception and at `job_timeout`, and does not run it again,
  against `worker/main.py:92` ("arq re-enqueues with backoff"),
  `worker/tasks/evaluation.py:27` and the docstring at `runner.py:63`: an attempt that
  raises is the last one, and unless `tries` says so too, it leaves no dead letter;
* a partial run is executed again when its job is redelivered (`runner.py:70`), and
  a cancel during an attempt is overwritten by its final update (`runner.py:227`);
* a crash between a result and its scores leaves an item that is never scored
  (`runner.py:171`, `357`); a run-level failure is not retried, because its exception
  ends the job, and a delivery after a crash reads `failed` (`runner.py:131`); the job
  is enqueued before the commit (`routers/evaluation.py:69`);
* a submit at a full queue may lose two spans for one counted drop, or the new one
  (`_client.py:172`); the drain makes one batch of the whole queue
  (`_client.py:128`); an idle worker whose interval has passed polls without waiting
  (`_client.py:113`); with `max_retries = 0`, which the assumption on MaxRetries
  excludes, a batch is neither sent nor counted (`_client.py:198`);
* concurrent promotions may put an item into two versions, or lose the examples of
  the version committed in between (`review.py:431`, `440`); a label that was read
  before a promotion is written after it (`review.py:305`): JudgementsStand tells that
  request from the others and does not forbid it, ExampleOnce leaves out the items
  that two promotions have selected at once (`contested`);
* `estimated_miss_rate` can exceed one, though it is "the fraction of traces the checks
  called clean that a human then judged bad" (`routers/review.py:151`): an item that is
  labelled bad and then skipped keeps its verdict, which `control_missed` counts, and
  loses the status that `control_reviewed` counts (`review.py:322`, `349`, `358`);
* traces whose rollups are committed after the watermark has passed are never
  sampled (`review.py:231`), nor are those that turn into errors after they were
  examined (`review.py:182`); a project with a malformed trace does not get past it;
* a rule deleted during a pass rolls back the stamps of all rules of the pass, which
  are then notified again (`alerts.py:163`, against `alerts.py:171`);
* a block in a generator that is finished in another context raises `ValueError`
  and its span is never submitted (`_tracing.py:65`, against `_tracing.py:42`, "The
  span is always submitted"); spans opened after a generator has yielded from inside
  a block name that block for their parent, wherever they are opened
  (`_tracing.py:59`);
* passes of the alerts that overlap notify twice within a cooldown, and a stamp that is
  lost with its pass is as if the notice had not been sent (`alerts.py:134`): CooldownHolds
  is about passes that are alone, and BreachIsNotified about rules that are silenced
  for ever;
* an id of the wrong length in one JSON span refuses the whole request
  (`decode.py:161`), while one that is no hex but that `int(value, 16)` reads, such as
  `0x...` or one with underscores, is rejected with its span only (`decode.py:171`), a
  duration or a count that its column cannot hold fails the whole INSERT, a status code
  that is a name is not caught: the rest of the batch is lost with it, against
  `routers/otlp.py:71`, "Spans that cannot be mapped are reported in `partialSuccess`
  rather than failing the whole batch";
* attributes are lost against "Nothing is discarded" (`genai.py:16-21`): of
  `gen_ai.prompt.0.content` and `llm.prompt.0.content` the one that comes first in the
  dictionary, whichever is the newer (`genai.py:202`), and a span's own `resource`,
  `otel.scope` or `otel.ingest`, which the metadata overwrites (`genai.py:293-299`);
  a cost of `NaN` passes `_as_decimal` (`genai.py:121`) and the schema then rejects the
  span with all it has;
* `llm.usage.total_tokens` and values that a column cannot hold are dropped, though
  "Nothing is discarded" (`genai.py:20`), and `gen_ai.prompt` is stored twice, though
  promoted keys are "Kept out of `metadata`" (`genai.py:253`);
* `last_used_at` may be turned back by a request that overlaps, is lost with a
  request that fails (`api_keys.py:125`), and its update makes the requests of one
  key wait for each other; two administrators that revoke each other's keys deadlock
  (`api_keys.py:152`), and of two revocations at once the later stamp stays;
* a diff of two versions is "identical" where a parameter changed its type and not its
  value, as from 1 to true, though their content hashes differ (`diffing.py:116`,
  `templating.py:134`); a label of digits (`models/prompt.py:54` allows it) is read as
  a number (`prompts.py:206`) and cannot be asked for;
* an example that the candidate failed to answer reads "unchanged"
  (`comparison.py:239`), as does one with a gain and a loss; an unfinished run has
  no means, so that its evaluators read "removed" without a warning
  (`comparison.py:141`); the reciprocal rank of an item without relevant documents is
  0 where its recall is a gap (`retrieval.py:181`);
* the limit of the limiter is exceeded by what is in flight (`ratelimit.py:108`,
  against lines 9 to 11).

## Not modelled, and why

Queries that change nothing (listings, statistics, metrics), conversions of data (CSV
and JSON uploads, templates, regular expressions, the wire format of protobuf), calls to
model providers beyond success or failure, wiring, dashboard and deployment. Seeding of
judge rubrics is one transaction of prompts that do not exist yet. `flush` only looks at
the queue, `configure` shuts one client down and starts another; the expiry of Redis
keys is left out of a module that models the rest of its file. `flagged_at` of a rollup
is carried over when its key moves (`traces.py:191-197`), but nothing in the repository
sets it. That a span which ended at 0 has no `ended_at` (`genai.py:353`) is left out: no
property looks at it. Routes that take the admin token and touch no key are those of
their components.

## Plan

Order: the behaviour on which money and data depend first.

1. EvalRun, its claim and proofs: done.
2. VersionLog and PromptRegistry with the refinement and proofs: done.
3. TracingClient: done, checked, its safety proved.
4. TraceIngest, SpanTree, SdkSpans, OtlpExport and their composition TracePath: done,
   checked, all their properties proved.
5. ReviewQueue and GuardrailSampler: done, checked, their safety proved.
6. AlertRules, RateLimiter and ApiKeys, the last two composed in Admission: done,
   checked, their safety proved.
7. Calculations: comparison of runs, diff of versions, retrieval metrics, mapping of
   attributes: done, checked, proved.
8. Later, if a run can be spared: judge rubrics as a client of the registry; an
   abstract at-least-once delivery of spans, implemented by TracingClient and
   TraceIngest together, with its refinement proved.
