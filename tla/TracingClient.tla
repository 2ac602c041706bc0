---------------------------- MODULE TracingClient ----------------------------
(***************************************************************************)
(* The SDK's tracing client: application threads submit spans into a       *)
(* bounded queue without ever blocking, one daemon thread collects them    *)
(* into batches and posts them with retries, and shutdown gives it a       *)
(* bounded time to drain. An action is one call on the queue, one HTTP     *)
(* attempt or one look at the stop event; threads switch between any two.  *)
(* The server answers an attempt first and commits what it stores later.   *)
(***************************************************************************)
EXTENDS Naturals, Sequences, FiniteSets

CONSTANTS
    Spans,       \* payloads, each submitted once, by a thread of its own
    QueueSize,
    BatchSize,
    MaxRetries,
    ServerLimit  \* MAX_SPANS_PER_BATCH of the ingest endpoint

ASSUME TracingClientAssumption ==
    /\ IsFiniteSet(Spans)
    /\ QueueSize \in Nat \ {0}
    /\ BatchSize \in Nat \ {0}
    /\ MaxRetries \in Nat \ {0}
    /\ ServerLimit \in Nat \ {0}

VARIABLES
    queue,    \* self._queue
    call,     \* where the submit call of each span stands
    batch,    \* the worker's local batch
    wpc,      \* where the worker thread stands
    attempt,  \* the HTTP attempt under way, from 1
    due,      \* flush_interval has passed since last_flush
    session,  \* self._session
    stopped,  \* self._stop
    host,     \* the thread that calls shutdown
    dropped, sent, failed,  \* the counters that stats reports
    evicted,  \* history: spans a submit call took out of the queue
    open,     \* the server's transactions that have neither committed nor failed
    stored,   \* the spans the server has stored
    undone,   \* history: spans of a transaction that failed after its answer
    woken     \* history: a wait has timed out since an interval last passed

vars == <<queue, call, batch, wpc, attempt, due, session, stopped, host,
          dropped, sent, failed, evicted, open, stored, undone, woken>>
server == <<open, stored, undone>>
worker == <<batch, wpc, attempt, due, session, sent, failed, woken>>
submits == <<call, dropped, evicted>>
lifecycle == <<stopped, host>>

Elements(s) == {s[i] : i \in DOMAIN s}
Queued == {s \in Spans : call[s] = "queued"}
Lost == evicted \cup {s \in Spans : call[s] = "lost"}

Init ==
    /\ queue = <<>>
    /\ call = [s \in Spans |-> "new"]
    /\ batch = <<>>
    /\ wpc = "top"
    /\ attempt = 1
    /\ due = FALSE
    /\ session = "none"
    /\ stopped = FALSE
    /\ host = "running"
    /\ dropped = 0 /\ sent = 0 /\ failed = 0
    /\ evicted = {}
    /\ open = {}
    /\ stored = {}
    /\ undone = {}
    /\ woken = FALSE

-----------------------------------------------------------------------------
(* submit, in the application's thread: put_nowait; when the queue is full *)
(* count a drop, get_nowait the oldest and put_nowait again.               *)

At(s, from, to) ==
    /\ call[s] = from
    /\ call' = [call EXCEPT ![s] = to]
    /\ UNCHANGED <<worker, server, lifecycle>>

Put(s) ==
    /\ Len(queue) < QueueSize
    /\ At(s, "new", "queued")
    /\ queue' = Append(queue, s)
    /\ UNCHANGED <<dropped, evicted>>

PutFull(s) ==
    /\ Len(queue) = QueueSize
    /\ At(s, "new", "full")
    /\ UNCHANGED <<queue, dropped, evicted>>

\* Mutant: the loss is not counted.
CountDrop_silent(s) ==
    /\ At(s, "full", "counted")
    /\ UNCHANGED <<queue, dropped, evicted>>

CountDrop(s) ==
    /\ At(s, "full", "counted")
    /\ dropped' = dropped + 1
    /\ UNCHANGED <<queue, evicted>>

EvictOldest(s) ==
    /\ queue # <<>>
    /\ At(s, "counted", "evicted")
    /\ queue' = Tail(queue)
    /\ evicted' = evicted \cup {Head(queue)}
    /\ UNCHANGED dropped

\* The worker emptied the queue meanwhile: the new span itself is given up.
EvictNothing(s) ==
    /\ queue = <<>>
    /\ At(s, "counted", "lost")
    /\ UNCHANGED <<queue, dropped, evicted>>

PutAgain(s) ==
    /\ Len(queue) < QueueSize
    /\ At(s, "evicted", "queued")
    /\ queue' = Append(queue, s)
    /\ UNCHANGED <<dropped, evicted>>

\* Another thread took the room: the second Full is swallowed.
PutAgainFull(s) ==
    /\ Len(queue) = QueueSize
    /\ At(s, "evicted", "lost")
    /\ UNCHANGED <<queue, dropped, evicted>>

Submit(s) ==
    \/ Put(s) \/ PutFull(s) \/ CountDrop(s)
    \/ EvictOldest(s) \/ EvictNothing(s)
    \/ PutAgain(s) \/ PutAgainFull(s)

-----------------------------------------------------------------------------
(* _run: the flush loop, and the drain once the stop event is set.         *)

\* flush_interval has passed since last_flush.
IntervalPasses ==
    /\ ~due \/ woken
    /\ due' = TRUE
    /\ woken' = FALSE
    /\ UNCHANGED <<queue, submits, lifecycle, batch, wpc, attempt, session, sent, failed, server>>

CheckStop ==
    /\ wpc = "top"
    /\ wpc' = IF stopped THEN "draining" ELSE "waiting"
    /\ UNCHANGED <<queue, submits, lifecycle, batch, attempt, due, session, sent, failed, server, woken>>

\* Mutant: the batch is flushed only when it is full.
AfterGet_full_only(b) == IF Len(b) >= BatchSize THEN "posting" ELSE "top"

\* Where the loop goes with batch b: on to _send, or around.
AfterGet(b) == IF b # <<>> /\ (Len(b) >= BatchSize \/ due) THEN "posting" ELSE "top"

Get ==
    /\ wpc = "waiting"
    /\ queue # <<>>
    /\ queue' = Tail(queue)
    /\ batch' = Append(batch, Head(queue))
    /\ wpc' = AfterGet(batch')
    /\ UNCHANGED <<submits, lifecycle, attempt, due, session, sent, failed, server, woken>>

\* The timeout is what is left of the interval: none once it has passed.
GetTimesOut ==
    /\ wpc = "waiting"
    /\ queue = <<>>
    /\ due
    /\ wpc' = AfterGet(batch)
    /\ woken' = TRUE
    /\ UNCHANGED <<queue, submits, lifecycle, batch, attempt, due, session, sent, failed, server>>

Drain ==
    /\ wpc = "draining"
    /\ queue # <<>>
    /\ queue' = Tail(queue)
    /\ batch' = Append(batch, Head(queue))
    /\ UNCHANGED <<submits, lifecycle, wpc, attempt, due, session, sent, failed, server, woken>>

DrainEnds ==
    /\ wpc = "draining"
    /\ queue = <<>>
    /\ wpc' = IF batch = <<>> THEN "exited" ELSE "posting last"
    /\ UNCHANGED <<queue, submits, lifecycle, batch, attempt, due, session, sent, failed, server, woken>>

-----------------------------------------------------------------------------
(* _send and _post: one action per HTTP attempt.                           *)

Posting == wpc \in {"posting", "posting last"}

\* _post creates the session on its first use.
UseSession == session' = IF session = "none" THEN "open" ELSE session

\* The transaction of a request that brings the batch. Those of the attempts
\* without an answer are one: they store the same spans or nothing.
Transaction(answered) == [spans |-> Elements(batch), answered |-> answered]

\* The server may store what reaches it, in a batch it does not refuse.
MayStore == session # "closed" /\ Len(batch) <= ServerLimit

\* _send has returned: a new batch, a new interval.
EndPost ==
    /\ batch' = <<>>
    /\ attempt' = 1
    /\ due' = FALSE
    /\ wpc' = IF wpc = "posting" THEN "top" ELSE "exited"

\* Mutant: counted as sent before the response is there.
PostAccepted_early ==
    /\ Posting
    /\ attempt <= MaxRetries
    /\ UseSession
    /\ sent' = sent + Len(batch)
    /\ EndPost
    /\ UNCHANGED <<queue, submits, lifecycle, failed, server, woken>>

\* A response below 300: it is sent before the transaction commits.
PostAccepted ==
    /\ Posting
    /\ attempt <= MaxRetries
    /\ MayStore
    /\ UseSession
    /\ open' = open \cup {Transaction(TRUE)}
    /\ sent' = sent + Len(batch)
    /\ EndPost
    /\ UNCHANGED <<queue, submits, lifecycle, failed, stored, undone, woken>>

\* No response, 429 or 5xx. The server may store the batch all the same.
AttemptFails ==
    /\ Posting
    /\ attempt <= MaxRetries
    /\ UseSession
    /\ open' \in {open} \cup (IF MayStore THEN {open \cup {Transaction(FALSE)}} ELSE {})
    /\ UNCHANGED <<queue, submits, lifecycle, sent, stored, undone, woken>>

\* Mutant: the attempts are not counted.
Retry_forever ==
    /\ AttemptFails
    /\ UNCHANGED <<batch, wpc, due, failed, attempt>>

Retry ==
    /\ attempt < MaxRetries
    /\ AttemptFails
    /\ attempt' = attempt + 1
    /\ UNCHANGED <<batch, wpc, due, failed>>

GiveUp ==
    /\ attempt = MaxRetries
    /\ AttemptFails
    /\ failed' = failed + Len(batch)
    /\ EndPost

\* Any other 4xx: no retry.
PostRejected ==
    /\ Posting
    /\ attempt <= MaxRetries
    /\ session # "closed"
    /\ UseSession
    /\ failed' = failed + Len(batch)
    /\ EndPost
    /\ UNCHANGED <<queue, submits, lifecycle, sent, server, woken>>

Worker ==
    \/ CheckStop \/ Get \/ GetTimesOut \/ Drain \/ DrainEnds
    \/ PostAccepted \/ Retry \/ GiveUp \/ PostRejected

-----------------------------------------------------------------------------
(* The server: db_session commits after the answer, or cannot.             *)

ServerCommits ==
    \E t \in open :
        /\ open' = open \ {t}
        /\ stored' = stored \cup t.spans
        /\ UNCHANGED <<queue, submits, lifecycle, worker, undone>>

\* The commit fails, or the server dies before it. Without an answer that is
\* the same as an attempt that never got there.
ServerAborts ==
    \E t \in open :
        /\ t.answered
        /\ open' = open \ {t}
        /\ undone' = undone \cup t.spans
        /\ UNCHANGED <<queue, submits, lifecycle, worker, stored>>

-----------------------------------------------------------------------------
(* shutdown: set the event, join with a timeout, close the session.        *)

Shutdown ==
    /\ host = "running"
    /\ host' = "joining"
    /\ stopped' = TRUE
    /\ UNCHANGED <<queue, submits, worker, server>>

\* The worker has ended, or the timeout has passed.
JoinReturns ==
    /\ host = "joining"
    /\ host' = "returned"
    /\ session' = IF session = "none" THEN "none" ELSE "closed"
    /\ UNCHANGED <<queue, submits, stopped, batch, wpc, attempt, due, sent, failed, server, woken>>

Next ==
    \/ \E s \in Spans : Submit(s)
    \/ IntervalPasses
    \/ Worker
    \/ ServerCommits \/ ServerAborts
    \/ Shutdown \/ JoinReturns

Spec == Init /\ [][Next]_vars

\* Time passes, and threads are scheduled as long as the process lives.
FairSpec ==
    /\ Spec
    /\ \A s \in Spans : WF_vars(Submit(s))
    /\ WF_vars(IntervalPasses)
    /\ WF_vars(Worker)
-----------------------------------------------------------------------------
(* What stats reports. It changes nothing.                                 *)

stats == [queued |-> Len(queue), sent |-> sent, dropped |-> dropped, failed |-> failed]

-----------------------------------------------------------------------------
(* Properties.                                                             *)

\* However threads interleave at a full queue, the counters of stats account
\* for every span that entered it: none is counted twice, none vanishes. And
\* no loss is silent: a drop that is counted is of one span or two, and no
\* span is lost without one.
EverySpanAccounted ==
    LET dropping == {s \in Spans : call[s] \in {"counted", "evicted"}}
        count == stats
    IN  /\ Cardinality(Queued) =
               count.queued + Len(batch) + count.sent + count.failed + Cardinality(evicted)
        /\ Cardinality(Lost) <= 2 * count.dropped
        /\ count.dropped <= Cardinality(Lost) + Cardinality(dropping)

\* Spans that the server has answered for.
Answered == {s \in Spans : \E t \in open : t.answered /\ s \in t.spans}

\* No count overclaims, whatever was retried and whichever transactions failed.
\* Every span the client counts as sent is stored or is in a transaction that was
\* answered with a 2xx and commits, or was undone, after that answer; and a span
\* that was dropped is nowhere at the server, and will not get there.
CountsHold ==
    /\ sent <= Cardinality(stored \cup Answered \cup undone)
    /\ \A s \in Lost : s \notin stored /\ \A t \in open : s \notin t.spans

\* A queued span is posted, given up or evicted in the end, unless it came
\* too late for the worker's last look at the queue.
SpansSettle ==
    \A s \in Spans :
        call[s] = "queued" ~> \/ s \notin Elements(queue \o batch)
                              \/ wpc = "exited"

\* Told to stop, the worker ends, however the server answers.
WorkerExits == stopped ~> wpc = "exited"
=============================================================================
