-------------------------- MODULE GuardrailSampler --------------------------
(***************************************************************************)
(* The guardrail sampler: every five minutes a pass examines the traces    *)
(* that each project has received since its watermark, queues some of them *)
(* for review and moves the watermark, all projects in one transaction.    *)
(* A pass may overlap the next one, its worker may die, and rollups of     *)
(* traces are committed late, while it runs and after it.                  *)
(***************************************************************************)
EXTENDS Integers, Sequences, FiniteSets, SequencesExt

CONSTANTS
    Projects,   \* those with guardrails enabled
    Traces,
    ProjectOf,  \* [Traces -> Projects]
    StartOf,    \* [Traces -> Nat], Trace.started_at
    InSample,   \* the traces whose bucket is below the sample rate
    Queueable,  \* those with findings, or in the control sample
    Malformed,  \* those whose checks raise
    Passes,     \* passes that may run at the same time
    MaxPerRun,  \* MAX_TRACES_PER_RUN
    Lookback,   \* INITIAL_LOOKBACK
    Never,      \* last_scanned_at IS NULL
    MaxTime, CrashLimit  \* bounds of the clock and of the number of crashes

ASSUME GuardrailSamplerAssumption ==
    /\ IsFiniteSet(Traces)
    /\ ProjectOf \in [Traces -> Projects]
    /\ StartOf \in [Traces -> Nat]
    /\ InSample \cup Queueable \cup Malformed \subseteq Traces
    /\ MaxPerRun \in Nat \ {0}
    /\ Lookback \in Nat
    /\ Never \notin Int

VARIABLES
    clock, started,    \* the time, and the time of the cron's last tick
    arrived, errored,  \* the traces with a rollup, and those of status error
    watermark,         \* [Projects -> last_scanned_at]
    queue,             \* the traces with a review item
    stage, todo,       \* where a pass stands; the projects it has to do
    read,              \* the watermarks it has read at its start
    list, failing, upto,  \* its last scan: the traces, the errored ones, the time
    queued, marks,     \* its uncommitted review items and watermarks
    covered,           \* history: the traces it has examined or could not see,
    accounted,         \* and those of all the passes that have committed
    crashes

traces == <<arrived, errored>>
committed == <<watermark, queue, accounted>>
scan == <<list, failing, upto>>
work == <<todo, read, scan, queued, marks, covered>>
samplerVars == <<clock, started, traces, committed, stage, work, crashes>>

NoMarks == [q \in Projects |-> Never]

SamplerInit ==
    /\ clock = 0 /\ started = 0
    /\ arrived = {} /\ errored = {}
    /\ watermark = NoMarks
    /\ queue = {}
    /\ stage = [p \in Passes |-> "idle"]
    /\ todo = [p \in Passes |-> <<>>]
    /\ read = [p \in Passes |-> NoMarks]
    /\ list = [p \in Passes |-> <<>>]
    /\ failing = [p \in Passes |-> {}]
    /\ upto = [p \in Passes |-> 0]
    /\ queued = [p \in Passes |-> {}]
    /\ marks = [p \in Passes |-> NoMarks]
    /\ covered = [p \in Passes |-> {}]
    /\ accounted = {}
    /\ crashes = 0

Elements(s) == {s[n] : n \in DOMAIN s}
MoveOn(p, from, to) == stage[p] = from /\ stage' = [stage EXCEPT ![p] = to]

-----------------------------------------------------------------------------
(* The telemetry that the sampler reads.                                   *)

Tick ==
    /\ clock < MaxTime
    /\ clock' = clock + 1
    /\ UNCHANGED <<started, traces, committed, stage, work, crashes>>

\* The rollup is committed when the first batch with spans of the trace is.
Arrive(t) ==
    /\ t \notin arrived
    /\ StartOf[t] <= clock
    /\ arrived' = arrived \cup {t}
    /\ UNCHANGED <<clock, started, errored, committed, stage, work, crashes>>

\* A later batch brings a span with an error. It makes no difference to a trace
\* that is in the sample.
TurnError(t) ==
    /\ t \in arrived \ (errored \cup InSample)
    /\ errored' = errored \cup {t}
    /\ UNCHANGED <<clock, started, arrived, committed, stage, work, crashes>>

-----------------------------------------------------------------------------
(* sample_all and sample_project.                                          *)

\* A tick of the cron starts one pass, which may overlap that of an earlier tick.
\* Ticks go on when the clock has reached its bound, without overlap. The
\* configs are read once, for the whole pass, in any order.
BeginPass(p) ==
    /\ MoveOn(p, "idle", "scan")
    /\ \/ started < clock
       \/ clock = MaxTime /\ \A o \in Passes : stage[o] = "idle"
    /\ started' = clock
    /\ \E order \in SetToSeqs(Projects) : todo' = [todo EXCEPT ![p] = order]
    /\ read' = [read EXCEPT ![p] = watermark]
    /\ UNCHANGED <<clock, traces, committed, scan, queued, marks, covered, crashes>>

Since(p, q) == IF read[p][q] = Never THEN clock - Lookback ELSE read[p][q]
Window(p, q) == {t \in Traces : ProjectOf[t] = q /\ StartOf[t] > Since(p, q) /\ StartOf[t] <= clock}

\* s lists S by start, oldest first, at most MaxPerRun of it.
OldestFirst(S, s) ==
    /\ Len(s) = IF Cardinality(S) > MaxPerRun THEN MaxPerRun ELSE Cardinality(S)
    /\ \A m, n \in DOMAIN s : m < n => StartOf[s[m]] <= StartOf[s[n]]
    /\ \A t \in S \ Elements(s), n \in DOMAIN s : StartOf[s[n]] <= StartOf[t]

ScanProject(p) ==
    LET q == Head(todo[p])
        window == Window(p, q)
        before == {t \in Traces : ProjectOf[t] = q /\ StartOf[t] <= Since(p, q)}
    IN  /\ MoveOn(p, "scan", "examine")
        /\ \E S \in SUBSET (window \cap arrived) : \E s \in SetToSeqs(S) :
              /\ OldestFirst(window \cap arrived, s)
              /\ list' = [list EXCEPT ![p] = s]
        /\ failing' = [failing EXCEPT ![p] = Elements(list'[p]) \cap errored]
        /\ upto' = [upto EXCEPT ![p] = clock]
        /\ covered' = [covered EXCEPT ![p] = @ \cup (window \ arrived)
                         \cup (IF read[p][q] = Never THEN before ELSE {})]
        /\ UNCHANGED <<clock, started, traces, committed, todo, read, queued, marks, crashes>>

\* Errored traces are always examined.
Sampled(p, t) == t \in failing[p] \/ t \in InSample

\* The positions of the list before the first trace whose checks raise.
Checked(p) ==
    LET s == list[p]
        bad == {n \in DOMAIN s : Sampled(p, s[n]) /\ s[n] \in Malformed}
    IN  {n \in DOMAIN s : \A b \in bad : n < b}

\* The review items to insert, on conflict do nothing.
Fresh(p) == {t \in {list[p][n] : n \in Checked(p)} : Sampled(p, t) /\ t \in Queueable} \ queue

\* No other pass has written these rows and not committed.
Free(p) ==
    \A o \in Passes \ {p} : queued[o] \cap Fresh(p) = {} /\ marks[o][Head(todo[p])] = Never

\* The project is done: on to the next, or to the end of the pass.
NextProject(p) ==
    /\ todo' = [todo EXCEPT ![p] = Tail(@)]
    /\ stage' = [stage EXCEPT ![p] = IF Tail(todo[p]) = <<>> THEN "commit" ELSE "scan"]
    /\ list' = [list EXCEPT ![p] = <<>>]
    /\ failing' = [failing EXCEPT ![p] = {}]
    /\ upto' = [upto EXCEPT ![p] = 0]

\* Mutant: the watermark moves to the time of the scan.
Mark_now(p) == upto[p]

\* traces[-1].started_at if traces else now
Mark(p) == IF list[p] = <<>> THEN upto[p] ELSE StartOf[Last(list[p])]

ExamineProject(p) ==
    LET q == Head(todo[p])
        s == list[p]
        tied == {t \in arrived : ProjectOf[t] = q /\ s # <<>> /\ StartOf[t] = StartOf[Last(s)]}
    IN  /\ stage[p] = "examine"
        /\ Checked(p) = DOMAIN s
        /\ Free(p)
        /\ queued' = [queued EXCEPT ![p] = @ \cup Fresh(p)]
        /\ marks' = [marks EXCEPT ![p][q] = Mark(p)]
        /\ covered' = [covered EXCEPT ![p] = @ \cup Elements(s) \cup tied]
        /\ NextProject(p)
        /\ UNCHANGED <<clock, started, traces, committed, read, crashes>>

Forget(p) ==
    /\ todo' = [todo EXCEPT ![p] = <<>>]
    /\ read' = [read EXCEPT ![p] = NoMarks]
    /\ list' = [list EXCEPT ![p] = <<>>]
    /\ failing' = [failing EXCEPT ![p] = {}]
    /\ upto' = [upto EXCEPT ![p] = 0]
    /\ queued' = [queued EXCEPT ![p] = {}]
    /\ marks' = [marks EXCEPT ![p] = NoMarks]
    /\ covered' = [covered EXCEPT ![p] = {}]

\* Mutant: the exception of one project ends the pass.
ExamineRaises_escapes(p) ==
    /\ stage[p] = "examine"
    /\ Checked(p) # DOMAIN list[p]
    /\ stage' = [stage EXCEPT ![p] = "idle"]
    /\ Forget(p)
    /\ UNCHANGED <<clock, started, traces, committed, crashes>>

\* A check raises: what the project has queued so far stays in the transaction,
\* its watermark stays, and the pass goes on with the next project.
ExamineRaises(p) ==
    /\ stage[p] = "examine"
    /\ Checked(p) # DOMAIN list[p]
    /\ \A o \in Passes \ {p} : queued[o] \cap Fresh(p) = {}
    /\ queued' = [queued EXCEPT ![p] = @ \cup Fresh(p)]
    /\ NextProject(p)
    /\ UNCHANGED <<clock, started, traces, committed, read, marks, covered, crashes>>

\* Only the columns that differ from what was read are written.
CommitPass(p) ==
    /\ MoveOn(p, "commit", "idle")
    /\ queue' = queue \cup queued[p]
    /\ watermark' = [q \in Projects |->
          IF marks[p][q] \in {Never, read[p][q]} THEN watermark[q] ELSE marks[p][q]]
    /\ accounted' = accounted \cup covered[p]
    /\ Forget(p)
    /\ UNCHANGED <<clock, started, traces, crashes>>

\* The worker or its connection dies: the transaction rolls back.
Crash(p) ==
    /\ stage[p] # "idle"
    /\ crashes < CrashLimit
    /\ crashes' = crashes + 1
    /\ stage' = [stage EXCEPT ![p] = "idle"]
    /\ Forget(p)
    /\ UNCHANGED <<clock, started, traces, committed>>

\* p waits for a row that another pass holds.
Waits(p) == stage[p] = "examine" /\ ~Free(p)

\* The configs come in no fixed order, so passes can wait for each other: the
\* database aborts one of them.
BreakDeadlock(p) ==
    /\ Waits(p)
    /\ \E o \in Passes \ {p} : Waits(o)
    /\ stage' = [stage EXCEPT ![p] = "idle"]
    /\ Forget(p)
    /\ UNCHANGED <<clock, started, traces, committed, crashes>>

Pass(p) ==
    \/ BeginPass(p) \/ ScanProject(p) \/ ExamineProject(p) \/ ExamineRaises(p)
    \/ CommitPass(p) \/ BreakDeadlock(p)

SamplerNext ==
    \/ Tick
    \/ \E t \in Traces : Arrive(t) \/ TurnError(t)
    \/ \E p \in Passes : Pass(p) \/ Crash(p)

SamplerSpec == SamplerInit /\ [][SamplerNext]_samplerVars

\* The cron starts passes again and again, and a pass that runs goes on.
FairSamplerSpec == SamplerSpec /\ WF_samplerVars(Tick) /\ \A p \in Passes : WF_samplerVars(Pass(p))
-----------------------------------------------------------------------------
(* Properties.                                                             *)

\* Nothing is left behind the watermark: a trace that starts before it has been
\* examined by a pass that committed, or a pass could not have seen it: its
\* rollup came late, it is older than the first lookback, or it ties with the
\* last trace of a full list.
NothingLeftBehind ==
    \A t \in Traces :
        watermark[ProjectOf[t]] # Never /\ StartOf[t] <= watermark[ProjectOf[t]]
            => t \in accounted

\* Projects are sampled independently: every trace of a project whose checks do
\* not raise is examined in the end, if a pass can see it, whatever the traces
\* of other projects do to their checks.
EveryTraceExamined ==
    \A t \in Traces :
        (\A u \in Malformed : ProjectOf[u] # ProjectOf[t])
            => (t \in arrived ~> t \in accounted)
=============================================================================
