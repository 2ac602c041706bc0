----------------------------- MODULE TraceIngest -----------------------------
(***************************************************************************)
(* Span ingestion: each request stores a batch of spans and recomputes the *)
(* rollup of every trace it touches, in one READ COMMITTED transaction.    *)
(* An action is one statement or one row it has to lock: a statement sees  *)
(* what is committed when it starts and what its transaction wrote, and a  *)
(* write waits for the transaction that holds the row.                     *)
(***************************************************************************)
EXTENDS Naturals, Sequences, FiniteSets, FiniteSetsExt, SequencesExt

CONSTANTS
    Requests,
    Spans,     \* of one project, named by their key (started_at, span_id)
    TraceOf,   \* [Spans -> traces], Span.trace_id
    StartOf,   \* [Spans -> Nat], Span.started_at
    Roots      \* the spans without a parent

ASSUME TraceIngestAssumption ==
    /\ IsFiniteSet(Requests) /\ IsFiniteSet(Spans)
    /\ DOMAIN TraceOf = Spans
    /\ StartOf \in [Spans -> Nat]
    /\ Roots \subseteq Spans

VARIABLES
    spans, rollups,        \* committed rows of the tables spans and traces
    pc,                    \* where each request stands
    batch, left,           \* its spans, and those not yet inserted
    todo,                  \* the traces it has to refresh; the first is under way
    agg, root, stale, doomed,  \* what its last refresh has read
    inserted, rows, gone,  \* its uncommitted inserts, rollups and deletes
    accepted,              \* the counts its response has reported
    alone                  \* history: no other request has overlapped it

reads == <<agg, root, stale, doomed>>
db == <<spans, rollups, accepted>>
vars == <<db, pc, batch, left, todo, reads, inserted, rows, gone, alone>>

Traces == {TraceOf[s] : s \in Spans}
SpansOf(t, S) == {s \in S : TraceOf[s] = t}
Start(S) == Min({StartOf[s] : s \in S})
HasRoot(S) == S \cap Roots # {}

\* The rollup that the spans of S, all of trace t, make.  The mark that guardrail
\* sampling puts on a row (flagged_at, carried over from `existing` to the row
\* written) does not come from spans and is left out.
Rollup(t, S, hasRoot) == [trace |-> t, start |-> Start(S), spans |-> S, root |-> hasRoot]

\* The primary key of a rollup is (started_at, trace_id).
Key(x) == <<x.trace, x.start>>
Keys(X) == {Key(x) : x \in X}

Active(r) == pc[r] \notin {"new", "done", "failed"}
Others(r) == Requests \ {r}

Init ==
    /\ spans = {} /\ rollups = {}
    /\ pc = [r \in Requests |-> "new"]
    /\ batch = [r \in Requests |-> {}]
    /\ left = [r \in Requests |-> {}]
    /\ todo = [r \in Requests |-> <<>>]
    /\ agg = [r \in Requests |-> {}]
    /\ root = [r \in Requests |-> FALSE]
    /\ stale = [r \in Requests |-> FALSE]
    /\ doomed = [r \in Requests |-> {}]
    /\ inserted = [r \in Requests |-> {}]
    /\ rows = [r \in Requests |-> {}]
    /\ gone = [r \in Requests |-> {}]
    /\ accepted = [r \in Requests |-> 0]
    /\ alone = [r \in Requests |-> FALSE]

-----------------------------------------------------------------------------
(* What a transaction sees and what it locks.                              *)

SeenSpans(r) == spans \cup inserted[r]
Locked(r) == Keys(rows[r]) \cup gone[r]
SeenRollups(r) == {x \in rollups : Key(x) \notin Locked(r)} \cup rows[r]

\* The rollup that the refresh under way writes.
Fresh(r) == Rollup(Head(todo[r]), agg[r], root[r])

\* r cannot go on while the requests of Q hold what they hold.
StuckBy(r, Q) ==
    \/ pc[r] = "insert" /\ left[r] # {} /\ left[r] \subseteq UNION {inserted[q] : q \in Q}
    \/ pc[r] = "upsert" /\ \E q \in Q : Key(Fresh(r)) \in Locked(q)
    \/ pc[r] = "deleting" /\ \E q \in Q : doomed[r] \cap Locked(q) # {}

\* PostgreSQL's deadlock: requests that only wait for each other.
Deadlocked(r) ==
    \E D \in SUBSET Requests : r \in D /\ \A p \in D : StuckBy(p, D \ {p})

Goto(r, from, to) == pc[r] = from /\ pc' = [pc EXCEPT ![r] = to]

-----------------------------------------------------------------------------
(* ingest_spans                                                            *)

Begin(r) ==
    /\ Goto(r, "new", "insert")
    /\ \E b \in (SUBSET Spans) \ {{}} :
          /\ batch' = [batch EXCEPT ![r] = b]
          /\ left' = [left EXCEPT ![r] = b]
    /\ alone' = [q \in Requests |->
                    IF q = r THEN \A p \in Others(r) : ~Active(p)
                             ELSE alone[q] /\ ~Active(q)]
    /\ UNCHANGED <<db, todo, reads, inserted, rows, gone>>

\* Mutant: ON CONFLICT DO NOTHING forgotten in the count: every row counts.
InsertSpan_counts_all(r) ==
    /\ pc[r] = "insert"
    /\ \E s \in left[r] :
          /\ \A q \in Others(r) : s \notin inserted[q]
          /\ left' = [left EXCEPT ![r] = @ \ {s}]
          /\ inserted' = [inserted EXCEPT ![r] = @ \cup {s}]
    /\ UNCHANGED <<db, pc, batch, todo, reads, rows, gone, alone>>

\* ON CONFLICT DO NOTHING waits for the transaction that inserts the same key.
InsertSpan(r) ==
    /\ pc[r] = "insert"
    /\ \E s \in left[r] :
          /\ \A q \in Others(r) : s \notin inserted[q]
          /\ left' = [left EXCEPT ![r] = @ \ {s}]
          /\ inserted' = [inserted EXCEPT ![r] = @ \cup ({s} \ spans)]
    /\ UNCHANGED <<db, pc, batch, todo, reads, rows, gone, alone>>

\* The traces are a Python set: they are refreshed in any order.
InsertEnds(r) ==
    /\ left[r] = {}
    /\ Goto(r, "insert", "aggregate")
    /\ \E order \in SetToSeqs({TraceOf[s] : s \in batch[r]}) :
          todo' = [todo EXCEPT ![r] = order]
    /\ UNCHANGED <<db, batch, left, reads, inserted, rows, gone, alone>>

-----------------------------------------------------------------------------
(* refresh_trace                                                           *)

\* Mutant: the rollup is patched from the batch and not recomputed.
ReadAggregate_of_batch(r) ==
    /\ Goto(r, "aggregate", "root")
    /\ agg' = [agg EXCEPT ![r] = SpansOf(Head(todo[r]), batch[r])]
    /\ UNCHANGED <<db, batch, left, todo, root, stale, doomed, inserted, rows, gone, alone>>

ReadAggregate(r) ==
    /\ Goto(r, "aggregate", "root")
    /\ agg' = [agg EXCEPT ![r] = SpansOf(Head(todo[r]), SeenSpans(r))]
    /\ UNCHANGED <<db, batch, left, todo, root, stale, doomed, inserted, rows, gone, alone>>

ReadRoot(r) ==
    /\ Goto(r, "root", "existing")
    /\ root' = [root EXCEPT ![r] = HasRoot(SpansOf(Head(todo[r]), SeenSpans(r)))]
    /\ UNCHANGED <<db, batch, left, todo, agg, stale, doomed, inserted, rows, gone, alone>>

ReadExisting(r) ==
    /\ Goto(r, "existing", "upsert")
    /\ stale' = [stale EXCEPT ![r] =
          \E x \in SeenRollups(r) : x.trace = Head(todo[r]) /\ x.start # Start(agg[r])]
    /\ UNCHANGED <<db, batch, left, todo, agg, root, doomed, inserted, rows, gone, alone>>

\* The refresh ends: on to the next trace, or to the end of the request.
RefreshEnds(r) ==
    /\ todo' = [todo EXCEPT ![r] = Tail(@)]
    /\ pc' = [pc EXCEPT ![r] = IF Tail(todo[r]) = <<>> THEN "commit" ELSE "aggregate"]
    /\ agg' = [agg EXCEPT ![r] = {}]
    /\ root' = [root EXCEPT ![r] = FALSE]
    /\ stale' = [stale EXCEPT ![r] = FALSE]
    /\ doomed' = [doomed EXCEPT ![r] = {}]

\* Mutant: the rollup is written in a transaction of its own.
Upsert_autocommit(r) ==
    /\ pc[r] = "upsert"
    /\ ~StuckBy(r, Others(r))
    /\ rollups' = {x \in rollups : Key(x) # Key(Fresh(r))} \cup {Fresh(r)}
    /\ IF stale[r] THEN pc' = [pc EXCEPT ![r] = "delete"] /\ UNCHANGED <<todo, reads>>
                   ELSE RefreshEnds(r)
    /\ UNCHANGED <<spans, accepted, batch, left, inserted, rows, gone, alone>>

\* INSERT ... ON CONFLICT DO UPDATE on the key the aggregate gives.
Upsert(r) ==
    /\ pc[r] = "upsert"
    /\ ~StuckBy(r, Others(r))
    /\ rows' = [rows EXCEPT ![r] = @ \cup {Fresh(r)}]
    /\ IF stale[r] THEN pc' = [pc EXCEPT ![r] = "delete"] /\ UNCHANGED <<todo, reads>>
                   ELSE RefreshEnds(r)
    /\ UNCHANGED <<db, batch, left, inserted, gone, alone>>

\* Mutants: every rollup of the trace is deleted, or only those that start
\* earlier than the one just written.
DeleteSuperseded_all(r) ==
    /\ Goto(r, "delete", "deleting")
    /\ doomed' = [doomed EXCEPT ![r] =
          {k \in Keys(SeenRollups(r)) : k[1] = Head(todo[r])}]
    /\ UNCHANGED <<db, batch, left, todo, agg, root, stale, inserted, rows, gone, alone>>
DeleteSuperseded_earlier(r) ==
    /\ Goto(r, "delete", "deleting")
    /\ doomed' = [doomed EXCEPT ![r] =
          {k \in Keys(SeenRollups(r)) : k[1] = Head(todo[r]) /\ k[2] < Start(agg[r])}]
    /\ UNCHANGED <<db, batch, left, todo, agg, root, stale, inserted, rows, gone, alone>>

\* The DELETE starts: it goes through the rows that it sees now, ...
DeleteSuperseded(r) ==
    /\ Goto(r, "delete", "deleting")
    /\ doomed' = [doomed EXCEPT ![r] =
          {k \in Keys(SeenRollups(r)) : k[1] = Head(todo[r]) /\ k[2] # Start(agg[r])}]
    /\ UNCHANGED <<db, batch, left, todo, agg, root, stale, inserted, rows, gone, alone>>

\* ... and has locked them all.
DeleteEnds(r) ==
    /\ pc[r] = "deleting"
    /\ ~StuckBy(r, Others(r))
    /\ gone' = [gone EXCEPT ![r] = @ \cup doomed[r]]
    /\ rows' = [rows EXCEPT ![r] = {x \in @ : Key(x) \notin doomed[r]}]
    /\ RefreshEnds(r)
    /\ UNCHANGED <<db, batch, left, inserted, alone>>

-----------------------------------------------------------------------------
(* The end of the request: its response leaves, then db_session commits.   *)

\* The counts of the response are those of a transaction still open.
Answer(r) ==
    /\ Goto(r, "commit", "answered")
    /\ accepted' = [accepted EXCEPT ![r] = Cardinality(inserted[r])]
    /\ UNCHANGED <<spans, rollups, batch, left, todo, reads, inserted, rows, gone, alone>>

Forget(r) ==
    /\ left' = [left EXCEPT ![r] = {}]
    /\ todo' = [todo EXCEPT ![r] = <<>>]
    /\ agg' = [agg EXCEPT ![r] = {}]
    /\ root' = [root EXCEPT ![r] = FALSE]
    /\ stale' = [stale EXCEPT ![r] = FALSE]
    /\ doomed' = [doomed EXCEPT ![r] = {}]
    /\ inserted' = [inserted EXCEPT ![r] = {}]
    /\ rows' = [rows EXCEPT ![r] = {}]
    /\ gone' = [gone EXCEPT ![r] = {}]

Commit(r) ==
    /\ Goto(r, "answered", "done")
    /\ spans' = SeenSpans(r)
    /\ rollups' = SeenRollups(r)
    /\ Forget(r)
    /\ UNCHANGED <<accepted, batch, alone>>

\* What a request has answered stays answered when its transaction is undone.
Abort(r) ==
    /\ Active(r)
    /\ pc' = [pc EXCEPT ![r] = "failed"]
    /\ Forget(r)
    /\ UNCHANGED <<db, batch, alone>>

\* The database aborts one of the requests that wait for each other.
BreakDeadlock(r) == Deadlocked(r) /\ Abort(r)

Step(r) ==
    \/ InsertSpan(r) \/ InsertEnds(r)
    \/ ReadAggregate(r) \/ ReadRoot(r) \/ ReadExisting(r)
    \/ Upsert(r) \/ DeleteSuperseded(r) \/ DeleteEnds(r)
    \/ Answer(r) \/ Commit(r) \/ BreakDeadlock(r)

\* Abort on its own: a statement or the commit fails, or the process dies.
Next == \E r \in Requests : Begin(r) \/ Step(r) \/ Abort(r)

Spec == Init /\ [][Next]_vars
-----------------------------------------------------------------------------
(* Properties.                                                             *)

Told(R) == MapThenSumSet(LAMBDA r : accepted[r], R)

\* The counts of the requests that committed add up to the spans stored, and
\* they still will whichever of the requests that have answered get to commit:
\* a span that several of them carry is accepted by one.  A request undone
\* after its answer is left out: its spans are not stored, and a retry counts
\* them again (dependencies.py:67 commits after the response has left).
AcceptedOnce ==
    \A Q \in SUBSET {r \in Requests : pc[r] = "answered"} :
        Told({r \in Requests : pc[r] = "done"} \cup Q)
            = Cardinality(spans \cup UNION {inserted[r] : r \in Q})

\* A trace with stored spans is listed: requests that clear rollups as
\* superseded never leave a trace without any.
RollupExists ==
    \A s \in spans : \E x \in rollups : x.trace = TraceOf[s]

\* A rollup counts stored spans only, however requests overlap and abort, and
\* its key is the start of the earliest span it counts.
RollupTruthful ==
    \A x \in rollups :
        /\ x.spans \subseteq SpansOf(x.trace, spans)
        /\ x.start = Start(x.spans)

Current(t) ==
    {x \in rollups : x.trace = t} =
        {Rollup(t, SpansOf(t, spans), HasRoot(SpansOf(t, spans)))}

\* A request that no other overlaps leaves one rollup of each of its traces,
\* and it is right, whatever earlier requests left behind.
Repairs ==
    [][\A r \in Requests :
          pc[r] = "answered" /\ pc'[r] = "done" /\ alone[r]
              => \A s \in batch[r] : Current(TraceOf[s])']_vars
=============================================================================
