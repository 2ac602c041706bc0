-------------------------- MODULE TraceIngestProofs --------------------------
(***************************************************************************)
(* Proofs about TraceIngest, for every number of requests, spans and       *)
(* traces, and every order of statements, locks and aborts.                *)
(***************************************************************************)
EXTENDS TraceIngest, FoldFacts, FiniteSetTheorems, TLAPS

Refreshing == {"root", "existing", "upsert", "delete", "deleting"}

LocalsOK ==
    /\ pc = [r \in Requests |-> pc[r]] /\ batch = [r \in Requests |-> batch[r]]
    /\ left = [r \in Requests |-> left[r]] /\ todo = [r \in Requests |-> todo[r]]
    /\ agg = [r \in Requests |-> agg[r]] /\ root = [r \in Requests |-> root[r]]
    /\ stale = [r \in Requests |-> stale[r]] /\ doomed = [r \in Requests |-> doomed[r]]
    /\ inserted = [r \in Requests |-> inserted[r]] /\ rows = [r \in Requests |-> rows[r]]
    /\ gone = [r \in Requests |-> gone[r]]

\* The rollup x counts spans of its trace that are among S, from the first one.
Truthful(x, S) == x.spans \subseteq SpansOf(x.trace, S) /\ x.start = Start(x.spans)

Listed(t, X) == \E x \in X : x.trace = t

\* What request r has in its hands: the rollups that it has written are true, it
\* has one of each trace that it deletes a rollup of, and one of each trace of
\* its batch that is not to do any more.
RequestInv(r) ==
    /\ pc[r] = "new" => inserted[r] = {} /\ rows[r] = {} /\ todo[r] = <<>>
    /\ pc[r] # "new" => batch[r] # {}
    /\ batch[r] \subseteq Spans /\ inserted[r] \subseteq batch[r] /\ left[r] \subseteq batch[r]
    /\ todo[r] \in Seq(Traces)
    /\ \A x \in rows[r] : Truthful(x, SeenSpans(r))
    /\ \A k \in gone[r] : Listed(k[1], rows[r])
    /\ pc[r] \in Refreshing \cup {"aggregate", "commit", "answered"} =>
          \A s \in batch[r] : TraceOf[s] \in ToSet(todo[r]) \/ Listed(TraceOf[s], rows[r])
    /\ pc[r] \in Refreshing \cup {"aggregate"} => todo[r] # <<>>
    /\ pc[r] \in {"commit", "answered"} => todo[r] = <<>>
    /\ pc[r] \in Refreshing => agg[r] \subseteq SpansOf(Head(todo[r]), SeenSpans(r))
    /\ pc[r] \in {"delete", "deleting"} => Fresh(r) \in rows[r]
    /\ pc[r] = "deleting" =>
          \A k \in doomed[r] : k[1] = Head(todo[r]) /\ k[2] # Start(agg[r])

IngestInv ==
    /\ LocalsOK
    /\ spans \subseteq Spans
    /\ \A r \in Requests : RequestInv(r)
    /\ RollupExists /\ RollupTruthful

-----------------------------------------------------------------------------
(* Operators.                                                              *)

LEMMA RollupFacts ==
    ASSUME NEW t, NEW S, NEW b
    PROVE  /\ Rollup(t, S, b).trace = t /\ Rollup(t, S, b).spans = S
           /\ Rollup(t, S, b).start = Start(S)
           /\ Key(Rollup(t, S, b)) = <<t, Start(S)>>
BY DEF Rollup, Key

LEMMA MoreSpans ==
    ASSUME NEW S, NEW T, S \subseteq T, NEW x, Truthful(x, S)
    PROVE  Truthful(x, T)
BY DEF Truthful, SpansOf

LEMMA TailFacts ==
    ASSUME NEW q \in Seq(Traces), q # <<>>
    PROVE  /\ Tail(q) \in Seq(Traces) /\ Head(q) \in Traces
           /\ ToSet(q) = {Head(q)} \cup ToSet(Tail(q))
<1>1. /\ Len(q) \in Nat \ {0} /\ DOMAIN q = 1..Len(q) /\ Head(q) = q[1]
      /\ Tail(q) \in Seq(Traces) /\ Len(Tail(q)) = Len(q) - 1
      /\ DOMAIN Tail(q) = 1..(Len(q) - 1)
      /\ \A k \in 1..(Len(q) - 1) : Tail(q)[k] = q[k + 1]
  OBVIOUS
<1>2. Head(q) \in Traces
  BY <1>1
<1>3. \A n \in Nat \ {0} : \A k \in 1..n : k = 1 \/ (k - 1 \in 1..(n - 1) /\ (k - 1) + 1 = k)
  OBVIOUS
<1>4. \A n \in Nat \ {0} : 1 \in 1..n /\ \A k \in 1..(n - 1) : k + 1 \in 1..n
  OBVIOUS
<1>5. ToSet(q) \subseteq {Head(q)} \cup ToSet(Tail(q))
  <2>1. SUFFICES ASSUME NEW k \in 1..Len(q) PROVE q[k] \in {Head(q)} \cup ToSet(Tail(q))
    BY <1>1 DEF ToSet
  <2>2. k = 1 \/ (k - 1 \in 1..(Len(q) - 1) /\ (k - 1) + 1 = k)
    BY <1>1, <1>3
  <2>3. CASE k = 1
    BY <1>1, <2>3
  <2>4. CASE k - 1 \in 1..(Len(q) - 1) /\ (k - 1) + 1 = k
    <3>1. Tail(q)[k - 1] = q[k]
      BY <1>1, <2>4
    <3> QED
      BY <1>1, <2>4, <3>1 DEF ToSet
  <2> QED
    BY <2>2, <2>3, <2>4
<1>6. ToSet(Tail(q)) \subseteq ToSet(q) /\ Head(q) \in ToSet(q)
  BY <1>1, <1>4 DEF ToSet
<1> QED
  BY <1>1, <1>2, <1>5, <1>6

\* No element of q comes twice.
Distinct(q) == \A i, j \in DOMAIN q : i # j => q[i] # q[j]

LEMMA TailDistinct ==
    ASSUME NEW q \in Seq(Traces), q # <<>>, Distinct(q)
    PROVE  Distinct(Tail(q)) /\ Head(q) \notin ToSet(Tail(q))
<1>1. /\ Len(q) \in Nat \ {0} /\ DOMAIN q = 1..Len(q) /\ Head(q) = q[1]
      /\ DOMAIN Tail(q) = 1..(Len(q) - 1)
      /\ \A k \in 1..(Len(q) - 1) : Tail(q)[k] = q[k + 1]
  OBVIOUS
<1>2. \A n \in Nat \ {0} : 1 \in 1..n /\ \A k \in 1..(n - 1) : k + 1 \in 1..n /\ k + 1 # 1
  OBVIOUS
<1>3. \A n \in Nat \ {0} : \A i, j \in 1..(n - 1) : i # j => i + 1 # j + 1
  OBVIOUS
<1>4. Distinct(Tail(q))
  BY <1>1, <1>2, <1>3 DEF Distinct
<1>5. ASSUME NEW k \in 1..(Len(q) - 1) PROVE Tail(q)[k] # Head(q)
  BY <1>1, <1>2, <1>5 DEF Distinct
<1> QED
  BY <1>1, <1>4, <1>5 DEF ToSet

\* The traces of a batch, in whatever order, are all there, each of them once.
LEMMA OrderFacts ==
    ASSUME NEW b \in SUBSET Spans, b # {}, NEW order \in SetToSeqs({TraceOf[s] : s \in b})
    PROVE  /\ order \in Seq(Traces) /\ order # <<>> /\ ToSet(order) = {TraceOf[s] : s \in b}
           /\ Distinct(order)
<1> DEFINE T == {TraceOf[s] : s \in b}
           n == Cardinality(T)
           f == [s \in b |-> TraceOf[s]]
<1>1. IsFiniteSet(b)
  BY TraceIngestAssumption, FS_Subset
<1>2. f \in Surjection(b, T)
  BY DEF Surjection
<1>3. IsFiniteSet(T) /\ n \in Nat /\ T # {} /\ T \subseteq Traces
  BY <1>1, <1>2, FS_Surjection, FS_CardinalityType DEF Traces
<1>4. n # 0
  BY <1>3, FS_EmptySet
<1>5. order \in [1..n -> T] /\ \A i, j \in 1..n : i # j => order[i] # order[j]
  BY DEF SetToSeqs
<1> HIDE DEF T, n
<1>6. order \in Injection(1..n, T)
  BY <1>5 DEF Injection, IsInjective
<1>7. IsFiniteSet(1..n) /\ Cardinality(1..n) = n
  BY <1>3, FS_Interval
<1>8. order \in Surjection(1..n, T)
  BY <1>3, <1>6, <1>7, FS_Injection DEF n
<1>9. order \in Seq(Traces) /\ order # <<>>
  BY <1>3, <1>4, <1>5
<1>10. ToSet(order) = T
  BY <1>5, <1>8 DEF ToSet, Surjection
<1>11. Distinct(order)
  BY <1>5 DEF Distinct
<1> QED
  BY <1>9, <1>10, <1>11 DEF T

-----------------------------------------------------------------------------
(* Requests do not touch each other's work.                                *)

Same(q) ==
    /\ pc'[q] = pc[q] /\ batch'[q] = batch[q] /\ left'[q] = left[q] /\ todo'[q] = todo[q]
    /\ agg'[q] = agg[q] /\ root'[q] = root[q] /\ doomed'[q] = doomed[q]
    /\ inserted'[q] = inserted[q] /\ rows'[q] = rows[q] /\ gone'[q] = gone[q]

LEMMA OthersKeep ==
    ASSUME NEW q \in Requests, RequestInv(q), Same(q), spans \subseteq spans'
    PROVE  RequestInv(q)'
<1>1. SeenSpans(q) \subseteq SeenSpans(q)'
  BY DEF Same, SeenSpans
<1>2. \A x \in rows[q] : Truthful(x, SeenSpans(q)')
  BY <1>1, MoreSpans DEF RequestInv
<1>3. pc[q] \in Refreshing => agg[q] \subseteq SpansOf(Head(todo[q]), SeenSpans(q)')
  BY <1>1 DEF RequestInv, SpansOf
<1>4. Fresh(q)' = Fresh(q)
  BY DEF Same, Fresh
<1> QED
  BY <1>2, <1>3, <1>4 DEF Same, RequestInv

\* So a step of one request has to be looked at for that request only, if it
\* leaves the database as it is.
LEMMA OwnStep ==
    ASSUME IngestInv, NEW r \in Requests, LocalsOK', RequestInv(r)',
           \A q \in Requests \ {r} : Same(q), spans' = spans, rollups' = rollups
    PROVE  IngestInv'
<1>1. \A q \in Requests \ {r} : RequestInv(q)'
  BY OthersKeep DEF IngestInv
<1>2. RollupExists' /\ RollupTruthful'
  BY DEF IngestInv, RollupExists, RollupTruthful
<1> QED
  BY <1>1, <1>2 DEF IngestInv

-----------------------------------------------------------------------------
(* Inserts.                                                                *)

LEMMA BeginKeeps == ASSUME IngestInv, NEW r \in Requests, Begin(r) PROVE IngestInv'
<1>1. PICK b \in SUBSET Spans :
         /\ b # {}
         /\ batch' = [batch EXCEPT ![r] = b] /\ left' = [left EXCEPT ![r] = b]
         /\ pc[r] = "new" /\ pc' = [pc EXCEPT ![r] = "insert"]
  BY DEF Begin, Goto
<1>2. /\ spans' = spans /\ rollups' = rollups /\ todo' = todo /\ agg' = agg /\ root' = root
      /\ stale' = stale /\ doomed' = doomed /\ inserted' = inserted /\ rows' = rows /\ gone' = gone
  BY DEF Begin, db, reads
<1>3. LocalsOK'
  BY <1>1, <1>2 DEF IngestInv, LocalsOK
<1>4. /\ batch'[r] = b /\ left'[r] = b /\ pc'[r] = "insert"
      /\ \A q \in Requests \ {r} : batch'[q] = batch[q] /\ left'[q] = left[q] /\ pc'[q] = pc[q]
  BY <1>1 DEF IngestInv, LocalsOK
<1>5. RequestInv(r)'
  <2>1. RequestInv(r) /\ SeenSpans(r)' = SeenSpans(r)
    BY <1>2 DEF IngestInv, SeenSpans
  <2>2. /\ pc'[r] # "new" /\ batch'[r] # {} /\ batch'[r] \subseteq Spans
        /\ inserted'[r] \subseteq batch'[r] /\ left'[r] \subseteq batch'[r]
    <3>1. b # {} /\ b \subseteq Spans /\ inserted[r] = {}
      BY <1>1, <2>1 DEF RequestInv
    <3>2. pc'[r] # "new" /\ batch'[r] = b /\ left'[r] = b /\ inserted'[r] = {}
      BY <1>2, <1>4, <3>1
    <3> QED
      BY <3>1, <3>2
  <2>3. pc'[r] \notin Refreshing \cup {"aggregate", "commit", "answered"}
    BY <1>4 DEF Refreshing
  <2> QED
    BY <1>2, <2>1, <2>2, <2>3 DEF RequestInv, Refreshing
<1>6. \A q \in Requests \ {r} : Same(q)
  BY <1>2, <1>4 DEF Same
<1> QED
  BY <1>2, <1>3, <1>5, <1>6, OwnStep

LEMMA InsertSpanKeeps == ASSUME IngestInv, NEW r \in Requests, InsertSpan(r) PROVE IngestInv'
<1>1. PICK s \in left[r] :
         /\ left' = [left EXCEPT ![r] = @ \ {s}]
         /\ inserted' = [inserted EXCEPT ![r] = @ \cup ({s} \ spans)]
  BY DEF InsertSpan
<1>2. /\ pc[r] = "insert" /\ spans' = spans /\ rollups' = rollups /\ pc' = pc /\ batch' = batch
      /\ todo' = todo /\ agg' = agg /\ root' = root /\ stale' = stale /\ doomed' = doomed
      /\ rows' = rows /\ gone' = gone
  BY DEF InsertSpan, db, reads
<1>3. LocalsOK'
  BY <1>1, <1>2 DEF IngestInv, LocalsOK
<1>4. /\ left'[r] = left[r] \ {s} /\ inserted'[r] = inserted[r] \cup ({s} \ spans)
      /\ \A q \in Requests \ {r} : left'[q] = left[q] /\ inserted'[q] = inserted[q]
  BY <1>1 DEF IngestInv, LocalsOK
<1>5. \A x \in rows[r] : Truthful(x, SeenSpans(r)')
  <2>1. SeenSpans(r) \subseteq SeenSpans(r)'
    BY <1>2, <1>4 DEF SeenSpans
  <2> QED
    BY <2>1, MoreSpans DEF IngestInv, RequestInv
<1>6. RequestInv(r)'
  BY <1>1, <1>2, <1>4, <1>5 DEF IngestInv, RequestInv, Refreshing
<1>7. \A q \in Requests \ {r} : Same(q)
  BY <1>2, <1>4 DEF Same
<1> QED
  BY <1>2, <1>3, <1>6, <1>7, OwnStep

LEMMA InsertEndsKeeps == ASSUME IngestInv, NEW r \in Requests, InsertEnds(r) PROVE IngestInv'
<1>1. PICK order \in SetToSeqs({TraceOf[s] : s \in batch[r]}) : todo' = [todo EXCEPT ![r] = order]
  BY DEF InsertEnds
<1>2. /\ pc[r] = "insert" /\ pc' = [pc EXCEPT ![r] = "aggregate"]
      /\ spans' = spans /\ rollups' = rollups /\ batch' = batch /\ left' = left /\ agg' = agg
      /\ root' = root /\ stale' = stale /\ doomed' = doomed /\ inserted' = inserted
      /\ rows' = rows /\ gone' = gone
  BY DEF InsertEnds, Goto, db, reads
<1>3. LocalsOK'
  BY <1>1, <1>2 DEF IngestInv, LocalsOK
<1>4. /\ todo'[r] = order /\ pc'[r] = "aggregate"
      /\ \A q \in Requests \ {r} : todo'[q] = todo[q] /\ pc'[q] = pc[q]
  BY <1>1, <1>2 DEF IngestInv, LocalsOK
<1>5. order \in Seq(Traces) /\ order # <<>> /\ ToSet(order) = {TraceOf[s] : s \in batch[r]}
  <2>1. batch[r] \in SUBSET Spans /\ batch[r] # {}
    BY <1>2 DEF IngestInv, RequestInv
  <2> QED
    BY <2>1, OrderFacts
<1>6. RequestInv(r)'
  BY <1>2, <1>4, <1>5 DEF IngestInv, RequestInv, Refreshing, SeenSpans
<1>7. \A q \in Requests \ {r} : Same(q)
  BY <1>2, <1>4 DEF Same
<1> QED
  BY <1>2, <1>3, <1>6, <1>7, OwnStep

-----------------------------------------------------------------------------
(* The reads of a refresh.                                                 *)

LEMMA ReadAggregateKeeps == ASSUME IngestInv, NEW r \in Requests, ReadAggregate(r) PROVE IngestInv'
<1>1. /\ pc[r] = "aggregate" /\ pc' = [pc EXCEPT ![r] = "root"]
      /\ agg' = [agg EXCEPT ![r] = SpansOf(Head(todo[r]), SeenSpans(r))]
      /\ spans' = spans /\ rollups' = rollups /\ batch' = batch /\ left' = left /\ todo' = todo
      /\ root' = root /\ stale' = stale /\ doomed' = doomed /\ inserted' = inserted
      /\ rows' = rows /\ gone' = gone
  BY DEF ReadAggregate, Goto, db
<1>2. LocalsOK'
  BY <1>1 DEF IngestInv, LocalsOK
<1>3. /\ agg'[r] = SpansOf(Head(todo[r]), SeenSpans(r)) /\ pc'[r] = "root"
      /\ \A q \in Requests \ {r} : agg'[q] = agg[q] /\ pc'[q] = pc[q]
  BY <1>1 DEF IngestInv, LocalsOK
<1>4. RequestInv(r)'
  BY <1>1, <1>3 DEF IngestInv, RequestInv, Refreshing, SeenSpans
<1>5. \A q \in Requests \ {r} : Same(q)
  BY <1>1, <1>3 DEF Same
<1> QED
  BY <1>1, <1>2, <1>4, <1>5, OwnStep

LEMMA ReadOnKeeps ==
    ASSUME IngestInv, NEW r \in Requests, ReadRoot(r) \/ ReadExisting(r)
    PROVE  IngestInv'
<1>1. /\ pc[r] \in {"root", "existing"} /\ pc' \in {[pc EXCEPT ![r] = "existing"], [pc EXCEPT ![r] = "upsert"]}
      /\ spans' = spans /\ rollups' = rollups /\ batch' = batch /\ left' = left /\ todo' = todo
      /\ agg' = agg /\ doomed' = doomed /\ inserted' = inserted /\ rows' = rows /\ gone' = gone
  BY DEF ReadRoot, ReadExisting, Goto, db
<1>2. /\ root' = [q \in Requests |-> root'[q]] /\ stale' = [q \in Requests |-> stale'[q]]
      /\ \A q \in Requests \ {r} : root'[q] = root[q]
  BY DEF ReadRoot, ReadExisting, IngestInv, LocalsOK
<1>3. LocalsOK'
  BY <1>1, <1>2 DEF IngestInv, LocalsOK
<1>4. /\ pc'[r] \in {"existing", "upsert"} /\ \A q \in Requests \ {r} : pc'[q] = pc[q]
  BY <1>1 DEF IngestInv, LocalsOK
<1>5. RequestInv(r)'
  BY <1>1, <1>4 DEF IngestInv, RequestInv, Refreshing, SeenSpans
<1>6. \A q \in Requests \ {r} : Same(q)
  BY <1>1, <1>2, <1>4 DEF Same
<1> QED
  BY <1>1, <1>3, <1>5, <1>6, OwnStep

-----------------------------------------------------------------------------
(* The writes of a refresh.                                                *)

\* The end of a refresh, with a rollup of its trace among the rows: the traces
\* that are not to do any more have one.
LEMMA EndKeeps ==
    ASSUME IngestInv, NEW r \in Requests, RefreshEnds(r), pc[r] \in {"upsert", "deleting"},
           spans' = spans, rollups' = rollups, batch' = batch, left' = left, inserted' = inserted,
           rows' = [q \in Requests |-> rows'[q]], gone' = [q \in Requests |-> gone'[q]],
           \A q \in Requests \ {r} : rows'[q] = rows[q] /\ gone'[q] = gone[q],
           \A x \in rows'[r] : Truthful(x, SeenSpans(r)),
           \A k \in gone'[r] : Listed(k[1], rows'[r]),
           Listed(Head(todo[r]), rows'[r]),
           \A t \in Traces : Listed(t, rows[r]) => Listed(t, rows'[r])
    PROVE  IngestInv'
<1>1. /\ todo' = [todo EXCEPT ![r] = Tail(@)]
      /\ pc' = [pc EXCEPT ![r] = IF Tail(todo[r]) = <<>> THEN "commit" ELSE "aggregate"]
      /\ agg' = [agg EXCEPT ![r] = {}] /\ root' = [root EXCEPT ![r] = FALSE]
      /\ stale' = [stale EXCEPT ![r] = FALSE] /\ doomed' = [doomed EXCEPT ![r] = {}]
  BY DEF RefreshEnds
<1>2. LocalsOK'
  BY <1>1 DEF IngestInv, LocalsOK
<1>3. /\ todo'[r] = Tail(todo[r])
      /\ pc'[r] = IF Tail(todo[r]) = <<>> THEN "commit" ELSE "aggregate"
  BY <1>1 DEF IngestInv, LocalsOK
<1>4. \A q \in Requests \ {r} : Same(q)
  BY <1>1 DEF IngestInv, LocalsOK, Same
<1>5. /\ RequestInv(r) /\ SeenSpans(r)' = SeenSpans(r)
  BY DEF IngestInv, SeenSpans
<1>6. /\ Tail(todo[r]) \in Seq(Traces) /\ ToSet(todo[r]) = {Head(todo[r])} \cup ToSet(Tail(todo[r]))
  BY <1>5, TailFacts DEF RequestInv, Refreshing
<1>7. \A s \in batch[r] : TraceOf[s] \in ToSet(Tail(todo[r])) \/ Listed(TraceOf[s], rows'[r])
  <2>1. \A s \in batch[r] : TraceOf[s] \in Traces
    BY <1>5 DEF RequestInv, Traces
  <2> QED
    BY <1>5, <1>6, <2>1 DEF RequestInv, Refreshing
<1>8. RequestInv(r)'
  <2>1. batch'[r] # {} /\ batch'[r] \subseteq Spans /\ inserted'[r] \subseteq batch'[r] /\ left'[r] \subseteq batch'[r]
    BY <1>5 DEF RequestInv
  <2>2. pc'[r] \in {"commit", "aggregate"}
    BY <1>3
  <2> QED
    BY <1>3, <1>5, <1>6, <1>7, <2>1, <2>2 DEF RequestInv, Refreshing
<1> QED
  BY <1>2, <1>4, <1>8, OwnStep

LEMMA UpsertKeeps == ASSUME IngestInv, NEW r \in Requests, Upsert(r) PROVE IngestInv'
<1>1. /\ pc[r] = "upsert" /\ rows' = [rows EXCEPT ![r] = @ \cup {Fresh(r)}]
      /\ spans' = spans /\ rollups' = rollups /\ batch' = batch /\ left' = left
      /\ inserted' = inserted /\ gone' = gone
  BY DEF Upsert, db
<1>2. /\ rows'[r] = rows[r] \cup {Fresh(r)} /\ rows' = [q \in Requests |-> rows'[q]]
      /\ \A q \in Requests \ {r} : rows'[q] = rows[q]
      /\ gone' = [q \in Requests |-> gone'[q]]
  BY <1>1 DEF IngestInv, LocalsOK
<1>3. RequestInv(r)
  BY DEF IngestInv
<1>4. Fresh(r).trace = Head(todo[r]) /\ Truthful(Fresh(r), SeenSpans(r))
  BY <1>1, <1>3, RollupFacts DEF Fresh, Truthful, RequestInv, Refreshing
<1>5. /\ \A x \in rows'[r] : Truthful(x, SeenSpans(r))
      /\ \A k \in gone'[r] : Listed(k[1], rows'[r])
      /\ Listed(Head(todo[r]), rows'[r])
      /\ \A t : Listed(t, rows[r]) => Listed(t, rows'[r])
  BY <1>1, <1>2, <1>3, <1>4 DEF RequestInv, Listed
<1>6. CASE RefreshEnds(r)
  BY <1>1, <1>2, <1>5, <1>6, EndKeeps
<1>7. CASE pc' = [pc EXCEPT ![r] = "delete"] /\ UNCHANGED <<todo, reads>>
  <2>1. /\ todo' = todo /\ agg' = agg /\ root' = root /\ stale' = stale /\ doomed' = doomed
    BY <1>7 DEF reads
  <2>2. pc' = [q \in Requests |-> pc'[q]] /\ pc'[r] = "delete" /\ \A q \in Requests \ {r} : pc'[q] = pc[q]
    BY <1>7 DEF IngestInv, LocalsOK
  <2>3. LocalsOK'
    BY <1>1, <1>2, <2>1, <2>2 DEF IngestInv, LocalsOK
  <2>4. Fresh(r)' = Fresh(r) /\ SeenSpans(r)' = SeenSpans(r)
    BY <1>1, <2>1 DEF Fresh, SeenSpans
  <2>5. RequestInv(r)'
    <3>1. \A x \in rows'[r] : Truthful(x, SeenSpans(r)')
      BY <1>5, <2>4
    <3>2. \A s \in batch[r] : TraceOf[s] \in ToSet(todo[r]) \/ Listed(TraceOf[s], rows'[r])
      BY <1>1, <1>3, <1>5 DEF RequestInv, Refreshing
    <3>3. Fresh(r)' \in rows'[r]
      BY <1>2, <2>4
    <3>4. agg[r] \subseteq SpansOf(Head(todo[r]), SeenSpans(r)') /\ todo[r] # <<>>
      BY <1>1, <1>3, <2>4 DEF RequestInv, Refreshing
    <3> QED
      BY <1>1, <1>3, <1>5, <2>1, <2>2, <3>1, <3>2, <3>3, <3>4 DEF RequestInv
  <2>6. \A q \in Requests \ {r} : Same(q)
    BY <1>1, <1>2, <2>1, <2>2 DEF Same
  <2> QED
    BY <1>1, <2>3, <2>5, <2>6, OwnStep
<1> QED
  BY <1>6, <1>7 DEF Upsert

LEMMA DeleteSupersededKeeps == ASSUME IngestInv, NEW r \in Requests, DeleteSuperseded(r) PROVE IngestInv'
<1> DEFINE old == {k \in Keys(SeenRollups(r)) : k[1] = Head(todo[r]) /\ k[2] # Start(agg[r])}
<1>1. /\ pc[r] = "delete" /\ pc' = [pc EXCEPT ![r] = "deleting"] /\ doomed' = [doomed EXCEPT ![r] = old]
      /\ spans' = spans /\ rollups' = rollups /\ batch' = batch /\ left' = left /\ todo' = todo
      /\ agg' = agg /\ root' = root /\ stale' = stale /\ inserted' = inserted
      /\ rows' = rows /\ gone' = gone
  BY DEF DeleteSuperseded, Goto, db
<1>2. \A k \in old : k[1] = Head(todo[r]) /\ k[2] # Start(agg[r])
  OBVIOUS
<1> HIDE DEF old
<1>3. /\ LocalsOK' /\ pc'[r] = "deleting" /\ doomed'[r] = old
      /\ \A q \in Requests \ {r} : pc'[q] = pc[q] /\ doomed'[q] = doomed[q]
  BY <1>1 DEF IngestInv, LocalsOK
<1>4. Fresh(r)' = Fresh(r) /\ SeenSpans(r)' = SeenSpans(r)
  BY <1>1 DEF Fresh, SeenSpans
<1>5. RequestInv(r)'
  BY <1>1, <1>2, <1>3, <1>4 DEF IngestInv, RequestInv, Refreshing
<1>6. \A q \in Requests \ {r} : Same(q)
  BY <1>1, <1>3 DEF Same
<1> QED
  BY <1>1, <1>3, <1>5, <1>6, OwnStep

LEMMA DeleteEndsKeeps == ASSUME IngestInv, NEW r \in Requests, DeleteEnds(r) PROVE IngestInv'
<1>1. /\ pc[r] = "deleting" /\ gone' = [gone EXCEPT ![r] = @ \cup doomed[r]]
      /\ rows' = [rows EXCEPT ![r] = {x \in @ : Key(x) \notin doomed[r]}]
      /\ RefreshEnds(r) /\ spans' = spans /\ rollups' = rollups /\ batch' = batch /\ left' = left
      /\ inserted' = inserted
  BY DEF DeleteEnds, db
<1>2. /\ rows'[r] = {x \in rows[r] : Key(x) \notin doomed[r]} /\ gone'[r] = gone[r] \cup doomed[r]
      /\ rows' = [q \in Requests |-> rows'[q]] /\ gone' = [q \in Requests |-> gone'[q]]
      /\ \A q \in Requests \ {r} : rows'[q] = rows[q] /\ gone'[q] = gone[q]
  BY <1>1 DEF IngestInv, LocalsOK
<1>3. RequestInv(r)
  BY DEF IngestInv
<1>4. /\ Fresh(r) \in rows[r] /\ Fresh(r).trace = Head(todo[r])
      /\ Key(Fresh(r)) = <<Head(todo[r]), Start(agg[r])>>
      /\ \A k \in doomed[r] : k[1] = Head(todo[r]) /\ k[2] # Start(agg[r])
  BY <1>1, <1>3, RollupFacts DEF Fresh, RequestInv
<1>5. Fresh(r) \in rows'[r]
  BY <1>2, <1>4
<1>6. Listed(Head(todo[r]), rows'[r])
  BY <1>4, <1>5 DEF Listed
<1>7. ASSUME NEW x \in rows[r] PROVE Listed(x.trace, rows'[r])
  <2>1. CASE Key(x) \in doomed[r]
    <3>1. x.trace = Head(todo[r])
      BY <1>4, <2>1 DEF Key
    <3> QED
      BY <1>6, <3>1
  <2>2. CASE Key(x) \notin doomed[r]
    BY <1>2, <2>2 DEF Listed
  <2> QED
    BY <2>1, <2>2
<1>8. /\ \A x \in rows'[r] : Truthful(x, SeenSpans(r))
      /\ \A t : Listed(t, rows[r]) => Listed(t, rows'[r])
  BY <1>2, <1>3, <1>7 DEF RequestInv, Listed
<1>9. \A k \in gone'[r] : Listed(k[1], rows'[r])
  BY <1>2, <1>3, <1>4, <1>6, <1>8 DEF RequestInv
<1> QED
  BY <1>1, <1>2, <1>6, <1>8, <1>9, EndKeeps

-----------------------------------------------------------------------------
(* The end of a transaction.                                               *)

LEMMA ForgetFacts ==
    ASSUME IngestInv, NEW r \in Requests, Forget(r), NEW end, end \in {"done", "failed"},
           pc' = [pc EXCEPT ![r] = end], batch' = batch, pc[r] # "new"
    PROVE  /\ LocalsOK' /\ \A q \in Requests \ {r} : Same(q)
           /\ RequestInv(r)'
<1>1. LocalsOK'
  BY DEF Forget, IngestInv, LocalsOK
<1>2. /\ pc'[r] = end /\ left'[r] = {} /\ todo'[r] = <<>> /\ inserted'[r] = {}
      /\ rows'[r] = {} /\ gone'[r] = {}
  BY DEF Forget, IngestInv, LocalsOK
<1>3. \A q \in Requests \ {r} : Same(q)
  BY DEF Forget, IngestInv, LocalsOK, Same
<1>4. RequestInv(r)'
  <2>1. batch'[r] # {} /\ batch'[r] \subseteq Spans
    BY DEF IngestInv, RequestInv
  <2>2. pc'[r] \notin Refreshing \cup {"new", "aggregate", "commit", "answered", "delete", "deleting"}
    BY <1>2 DEF Refreshing
  <2>3. todo'[r] \in Seq(Traces)
    BY <1>2
  <2> QED
    BY <1>2, <2>1, <2>2, <2>3 DEF RequestInv, Refreshing
<1> QED
  BY <1>1, <1>3, <1>4

LEMMA AnswerKeeps == ASSUME IngestInv, NEW r \in Requests, Answer(r) PROVE IngestInv'
<1>1. /\ pc[r] = "commit" /\ pc' = [pc EXCEPT ![r] = "answered"] /\ batch' = batch /\ left' = left
      /\ todo' = todo /\ agg' = agg /\ root' = root /\ stale' = stale /\ doomed' = doomed
      /\ inserted' = inserted /\ rows' = rows /\ gone' = gone /\ spans' = spans /\ rollups' = rollups
  BY DEF Answer, Goto, reads
<1>2. /\ LocalsOK' /\ pc'[r] = "answered" /\ \A q \in Requests \ {r} : pc'[q] = pc[q]
  BY <1>1 DEF IngestInv, LocalsOK
<1>3. SeenSpans(r)' = SeenSpans(r)
  BY <1>1 DEF SeenSpans
<1>4. RequestInv(r)'
  BY <1>1, <1>2, <1>3 DEF IngestInv, RequestInv, Refreshing
<1>5. \A q \in Requests \ {r} : Same(q)
  BY <1>1, <1>2 DEF Same
<1> QED
  BY <1>1, <1>2, <1>4, <1>5, OwnStep

\* What a commit takes away, it has a rollup of its own for.
LEMMA CommitKeeps == ASSUME IngestInv, NEW r \in Requests, Commit(r) PROVE IngestInv'
<1>1. /\ pc[r] = "answered" /\ pc' = [pc EXCEPT ![r] = "done"] /\ batch' = batch /\ Forget(r)
      /\ spans' = SeenSpans(r) /\ rollups' = SeenRollups(r)
  BY DEF Commit, Goto
<1>2. LocalsOK' /\ RequestInv(r)' /\ \A q \in Requests \ {r} : Same(q)
  BY <1>1, ForgetFacts
<1>3. RequestInv(r) /\ spans \subseteq spans' /\ spans' \subseteq Spans
  BY <1>1 DEF IngestInv, RequestInv, SeenSpans
<1>4. \A q \in Requests : RequestInv(q)'
  BY <1>2, <1>3, OthersKeep DEF IngestInv
<1>5. /\ \A x \in rollups : x \in rollups' \/ Key(x) \in Locked(r)
      /\ rows[r] \subseteq rollups' /\ rollups' \subseteq rollups \cup rows[r]
  BY <1>1 DEF SeenRollups
<1>6. ASSUME NEW x \in rollups PROVE Listed(x.trace, rollups')
  <2>1. CASE x \in rollups'
    BY <2>1 DEF Listed
  <2>2. CASE Key(x) \in Keys(rows[r])
    <3>1. PICK y \in rows[r] : Key(y) = Key(x)
      BY <2>2 DEF Keys
    <3>2. y.trace = x.trace
      BY <3>1 DEF Key
    <3> QED
      BY <1>5, <3>2 DEF Listed
  <2>3. CASE Key(x) \in gone[r]
    <3>1. Listed(Key(x)[1], rows[r]) /\ Key(x)[1] = x.trace
      BY <1>3, <2>3 DEF RequestInv, Key
    <3> QED
      BY <1>5, <3>1 DEF Listed
  <2> QED
    BY <1>5, <2>1, <2>2, <2>3 DEF Locked
<1>7. ASSUME NEW s \in spans' PROVE Listed(TraceOf[s], rollups')
  <2>1. CASE s \in spans
    <3>1. PICK x \in rollups : x.trace = TraceOf[s]
      BY <2>1 DEF IngestInv, RollupExists
    <3> QED
      BY <1>6, <3>1
  <2>2. CASE s \in inserted[r]
    <3>1. ToSet(todo[r]) = {} /\ s \in batch[r]
      BY <1>1, <1>3, <2>2 DEF RequestInv, ToSet
    <3>2. Listed(TraceOf[s], rows[r])
      BY <1>1, <1>3, <3>1 DEF RequestInv
    <3> QED
      BY <1>5, <3>2 DEF Listed
  <2> QED
    BY <1>1, <2>1, <2>2 DEF SeenSpans
<1>8. ASSUME NEW x \in rollups' PROVE Truthful(x, spans')
  <2>1. CASE x \in rollups
    BY <1>3, <2>1, MoreSpans DEF IngestInv, RollupTruthful, Truthful
  <2>2. CASE x \in rows[r]
    BY <1>1, <1>3, <2>2 DEF RequestInv
  <2> QED
    BY <1>5, <2>1, <2>2
<1>9. RollupExists' /\ RollupTruthful'
  BY <1>7, <1>8 DEF RollupExists, RollupTruthful, Listed, Truthful
<1> QED
  BY <1>2, <1>3, <1>4, <1>9 DEF IngestInv

LEMMA AbortKeeps == ASSUME IngestInv, NEW r \in Requests, Abort(r) PROVE IngestInv'
<1>1. /\ pc[r] # "new" /\ pc' = [pc EXCEPT ![r] = "failed"] /\ batch' = batch /\ Forget(r)
      /\ spans' = spans /\ rollups' = rollups
  BY DEF Abort, Active, db
<1> QED
  BY <1>1, ForgetFacts, OwnStep

-----------------------------------------------------------------------------
(* The theorems.                                                           *)

LEMMA IngestStart == Init => IngestInv
<1> SUFFICES ASSUME Init PROVE IngestInv
  OBVIOUS
<1>1. LocalsOK
  BY DEF Init, LocalsOK
<1>2. ASSUME NEW r \in Requests PROVE RequestInv(r)
  <2>1. /\ pc[r] = "new" /\ batch[r] = {} /\ left[r] = {} /\ todo[r] = <<>> /\ inserted[r] = {}
        /\ rows[r] = {} /\ gone[r] = {}
    BY DEF Init
  <2>2. <<>> \in Seq(Traces)
    OBVIOUS
  <2>3. pc[r] \notin Refreshing \cup {"aggregate", "commit", "answered", "delete", "deleting"}
    BY <2>1 DEF Refreshing
  <2> QED
    BY <2>1, <2>2, <2>3 DEF RequestInv
<1>3. spans \subseteq Spans /\ RollupExists /\ RollupTruthful
  BY DEF Init, RollupExists, RollupTruthful
<1> QED
  BY <1>1, <1>2, <1>3 DEF IngestInv

LEMMA IngestStep == IngestInv /\ [Next]_vars => IngestInv'
<1> SUFFICES ASSUME IngestInv, [Next]_vars PROVE IngestInv'
  OBVIOUS
<1>1. ASSUME NEW r \in Requests, Begin(r) \/ Step(r) \/ Abort(r) PROVE IngestInv'
  BY <1>1, BeginKeeps, InsertSpanKeeps, InsertEndsKeeps, ReadAggregateKeeps, ReadOnKeeps,
     UpsertKeeps, DeleteSupersededKeeps, DeleteEndsKeeps, AnswerKeeps, CommitKeeps, AbortKeeps
     DEF Step, BreakDeadlock
<1>2. CASE UNCHANGED vars
  <2>1. LocalsOK'
    BY <1>2 DEF IngestInv, LocalsOK, vars, reads
  <2>2. \A q \in Requests : Same(q) /\ RequestInv(q)
    BY <1>2 DEF IngestInv, Same, vars, reads
  <2>3. spans' = spans /\ rollups' = rollups
    BY <1>2 DEF vars, db
  <2>4. \A q \in Requests : RequestInv(q)'
    BY <2>2, <2>3, OthersKeep
  <2> QED
    BY <2>1, <2>3, <2>4 DEF IngestInv, RollupExists, RollupTruthful
<1> QED
  BY <1>1, <1>2 DEF Next

\* What each request has read and written, and the two properties of the rollups, hold in
\* every reachable state, for any requests, spans and traces.
THEOREM IngestInvHolds == Spec => []IngestInv
<1> QED
  BY IngestStart, IngestStep, PTL DEF Spec

\* Requests that clear each other's rollups as superseded, in any order of their
\* statements and commits, never leave a stored span without a rollup.
THEOREM EveryTraceListed == Spec => []RollupExists
<1>1. IngestInv => RollupExists
  BY DEF IngestInv
<1> QED
  BY <1>1, IngestInvHolds, PTL

\* No rollup counts a span that was rolled back, and its key is its start.
THEOREM RollupsAreTruthful == Spec => []RollupTruthful
<1>1. IngestInv => RollupTruthful
  BY DEF IngestInv
<1> QED
  BY <1>1, IngestInvHolds, PTL
-----------------------------------------------------------------------------
(* The counts of the responses.                                            *)

\* A request that has answered has counted what it has inserted, what is not
\* committed is one request's and of no one else's, and the counts of those that
\* committed are those of the spans stored.
Done == {r \in Requests : pc[r] = "done"}
Answered == {r \in Requests : pc[r] = "answered"}

Accounted ==
    /\ accepted \in [Requests -> Nat]
    /\ \A r \in Answered : accepted[r] = Cardinality(inserted[r])
    /\ \A r \in Requests : inserted[r] \cap spans = {}
    /\ \A r, q \in Requests : r # q => inserted[r] \cap inserted[q] = {}
    /\ SumOver(accepted, Done) = Cardinality(spans)

LEMMA ToldIsSum == \A R : SumOver(accepted, R) = Told(R)
BY Zenon DEF SumOver, Told

\* A step that commits nothing, inserts nothing and answers nothing.
LEMMA NothingInserted ==
    ASSUME Accounted, spans' = spans, accepted' = accepted,
           \A r \in Requests : inserted'[r] \subseteq inserted[r],
           \A r \in Requests : pc'[r] = "done" <=> pc[r] = "done",
           \A r \in Answered' : r \in Answered /\ inserted'[r] = inserted[r]
    PROVE  Accounted'
<1>1. \A r \in Requests : inserted'[r] \cap spans' = {}
  BY DEF Accounted
<1>2. \A r, q \in Requests : r # q => inserted'[r] \cap inserted'[q] = {}
  BY DEF Accounted
<1>3. \A r \in Answered' : accepted'[r] = Cardinality(inserted'[r])
  BY DEF Accounted
<1>4. Done' = Done
  BY DEF Done
<1>5. SumOver(accepted, Done)' = Cardinality(spans)'
  BY <1>4 DEF Accounted
<1> QED
  BY <1>1, <1>2, <1>3, <1>5 DEF Accounted

LEMMA InsertSpanAccounted ==
    ASSUME IngestInv, Accounted, NEW r \in Requests, InsertSpan(r)
    PROVE  Accounted'
<1>1. PICK s \in left[r] :
         /\ \A q \in Others(r) : s \notin inserted[q]
         /\ inserted' = [inserted EXCEPT ![r] = @ \cup ({s} \ spans)]
  BY DEF InsertSpan
<1>2. spans' = spans /\ accepted' = accepted /\ pc' = pc /\ pc[r] = "insert"
  BY DEF InsertSpan, db
<1>3. /\ inserted'[r] = inserted[r] \cup ({s} \ spans)
      /\ \A q \in Requests \ {r} : inserted'[q] = inserted[q]
  BY <1>1 DEF IngestInv, LocalsOK
<1>4. \A q \in Requests : inserted'[q] \cap spans' = {}
  <2>1. inserted'[r] \cap spans' = {}
    BY <1>2, <1>3 DEF Accounted
  <2> QED
    BY <1>2, <1>3, <2>1 DEF Accounted
<1>5. ASSUME NEW p \in Requests, NEW q \in Requests, p # q PROVE inserted'[p] \cap inserted'[q] = {}
  <2>1. \A q0 \in Requests \ {r} : inserted'[r] \cap inserted[q0] = {}
    BY <1>1, <1>3 DEF Accounted, Others
  <2> QED
    BY <1>3, <1>5, <2>1 DEF Accounted
<1>6. Done' = Done /\ Answered' = Answered /\ r \notin Answered /\ Answered \subseteq Requests
  BY <1>2 DEF Done, Answered
<1>7. \A q \in Answered' : accepted'[q] = Cardinality(inserted'[q])
  <2>1. \A q \in Answered : inserted'[q] = inserted[q]
    BY <1>3, <1>6
  <2> QED
    BY <1>2, <1>6, <2>1 DEF Accounted
<1>8. SumOver(accepted, Done)' = Cardinality(spans)'
  BY <1>2, <1>6 DEF Accounted
<1> QED
  BY <1>2, <1>4, <1>5, <1>7, <1>8 DEF Accounted

LEMMA SpansFinite ==
    ASSUME IngestInv
    PROVE  IsFiniteSet(spans) /\ \A r \in Requests : IsFiniteSet(inserted[r])
<1>1. spans \subseteq Spans /\ \A r \in Requests : inserted[r] \subseteq Spans
  BY DEF IngestInv, RequestInv
<1> QED
  BY <1>1, TraceIngestAssumption, FS_Subset

\* The response counts what the transaction has inserted.
LEMMA AnswerAccounted ==
    ASSUME IngestInv, Accounted, NEW r \in Requests, Answer(r)
    PROVE  Accounted'
<1> DEFINE n == Cardinality(inserted[r])
<1>1. /\ pc[r] = "commit" /\ pc' = [pc EXCEPT ![r] = "answered"]
      /\ accepted' = [accepted EXCEPT ![r] = n] /\ spans' = spans /\ inserted' = inserted
  BY DEF Answer, Goto
<1>2. n \in Nat
  BY SpansFinite, FS_CardinalityType
<1>3. accepted' \in [Requests -> Nat] /\ \A q \in Requests \ {r} : accepted'[q] = accepted[q]
  BY <1>1, <1>2 DEF Accounted
<1>4. Answered' = Answered \cup {r} /\ Done' = Done /\ r \notin Done /\ Done \subseteq Requests
  BY <1>1 DEF Answered, Done, IngestInv, LocalsOK
<1>5. accepted'[r] = n
  BY <1>1 DEF Accounted
<1>6. \A q \in Answered' : accepted'[q] = Cardinality(inserted'[q])
  <2>1. \A q \in Answered : q \in Requests
    BY DEF Answered
  <2> QED
    BY <1>1, <1>3, <1>4, <1>5, <2>1 DEF Accounted
<1>7. SumOver(accepted', Done) = SumOver(accepted, Done)
  <2>1. IsFiniteSet(Done)
    BY <1>4, TraceIngestAssumption, FS_Subset
  <2>2. \A q \in Done : accepted[q] \in Nat /\ accepted'[q] = accepted[q]
    BY <1>3, <1>4 DEF Accounted
  <2> QED
    BY <2>1, <2>2, SumAgree
<1>8. SumOver(accepted', Done') = Cardinality(spans')
  BY <1>1, <1>4, <1>7 DEF Accounted
<1>9. /\ \A q \in Requests : inserted'[q] \cap spans' = {}
      /\ \A p, q \in Requests : p # q => inserted'[p] \cap inserted'[q] = {}
  BY <1>1 DEF Accounted
<1> QED
  BY <1>3, <1>6, <1>8, <1>9 DEF Accounted

\* A request's spans are new beside what is stored and what others have inserted.
LEMMA CountsOne ==
    ASSUME NEW S, IsFiniteSet(S), NEW T, IsFiniteSet(T), S \cap T = {}
    PROVE  /\ IsFiniteSet(S \cup T) /\ Cardinality(S) \in Nat /\ Cardinality(T) \in Nat
           /\ Cardinality(S \cup T) = Cardinality(S) + Cardinality(T)
<1>1. /\ IsFiniteSet(S \cup T)
      /\ Cardinality(S \cup T) = Cardinality(S) + Cardinality(T) - Cardinality(S \cap T)
  BY FS_Union
<1>2. Cardinality(S \cap T) = 0 /\ Cardinality(S) \in Nat /\ Cardinality(T) \in Nat
  BY FS_EmptySet, FS_CardinalityType
<1> QED
  BY <1>1, <1>2

\* A commit stores what its request has inserted and counted.
LEMMA CommitAccounted ==
    ASSUME IngestInv, Accounted, NEW r \in Requests, Commit(r)
    PROVE  Accounted'
<1>1. /\ pc[r] = "answered" /\ pc' = [pc EXCEPT ![r] = "done"] /\ spans' = spans \cup inserted[r]
      /\ accepted' = accepted /\ inserted' = [inserted EXCEPT ![r] = {}]
  BY DEF Commit, Goto, Forget, SeenSpans
<1>2. /\ pc'[r] = "done" /\ \A q \in Requests \ {r} : pc'[q] = pc[q]
      /\ inserted'[r] = {} /\ \A q \in Requests \ {r} : inserted'[q] = inserted[q]
  BY <1>1 DEF IngestInv, LocalsOK
<1>3. Done' = Done \cup {r} /\ r \notin Done /\ Done \subseteq Requests
  BY <1>1, <1>2 DEF Done
<1>4. \A q \in Answered' : q \in Answered \ {r} /\ q \in Requests
  BY <1>1, <1>2 DEF Answered
<1>5. r \in Answered
  BY <1>1 DEF Answered
<1>6. Cardinality(spans') = Cardinality(spans) + accepted[r] /\ Cardinality(spans) \in Nat
  <2>1. /\ IsFiniteSet(spans) /\ IsFiniteSet(inserted[r]) /\ spans \cap inserted[r] = {}
        /\ accepted[r] = Cardinality(inserted[r])
    BY <1>5, SpansFinite DEF Accounted
  <2> QED
    BY <1>1, <2>1, CountsOne
<1>7. SumOver(accepted, Done \cup {r}) = accepted[r] + SumOver(accepted, Done)
  <2>1. IsFiniteSet(Done \cup {r}) /\ (Done \cup {r}) \ {r} = Done /\ r \in Done \cup {r}
    BY <1>3, TraceIngestAssumption, FS_Subset, FS_AddElement
  <2>2. \A q \in Done \cup {r} : accepted[q] \in Nat
    BY <1>3 DEF Accounted
  <2> QED
    BY <2>1, <2>2, SumRemove
<1>8. SumOver(accepted', Done') = Cardinality(spans')
  <2>1. accepted[r] \in Nat /\ SumOver(accepted, Done) = Cardinality(spans)
    BY DEF Accounted
  <2> QED
    BY <1>1, <1>3, <1>6, <1>7, <2>1
<1>9. \A q \in Requests : inserted'[q] \cap spans' = {}
  BY <1>1, <1>2 DEF Accounted
<1>10. \A p, q \in Requests : p # q => inserted'[p] \cap inserted'[q] = {}
  BY <1>2 DEF Accounted
<1>11. \A q \in Answered' : accepted'[q] = Cardinality(inserted'[q])
  BY <1>1, <1>2, <1>4 DEF Accounted
<1> QED
  BY <1>1, <1>8, <1>9, <1>10, <1>11 DEF Accounted

\* A request that goes on, or ends without a commit, neither commits nor answers.
LEMMA GoesOn ==
    ASSUME IngestInv, NEW r \in Requests, NEW to, to \notin {"done", "answered"}, pc[r] # "done",
           pc' = [pc EXCEPT ![r] = to]
    PROVE  /\ \A q \in Requests : pc'[q] = "done" <=> pc[q] = "done"
           /\ \A q \in Answered' : q \in Answered /\ q \in Requests \ {r}
<1>1. pc'[r] = to /\ \A q \in Requests \ {r} : pc'[q] = pc[q]
  BY DEF IngestInv, LocalsOK
<1> QED
  BY <1>1 DEF Answered

LEMMA AccountStep == IngestInv /\ Accounted /\ [Next]_vars => Accounted'
<1> SUFFICES ASSUME IngestInv, Accounted, [Next]_vars PROVE Accounted'
  OBVIOUS
<1>1. ASSUME NEW r \in Requests, Begin(r) \/ InsertEnds(r) PROVE Accounted'
  <2>1. spans' = spans /\ accepted' = accepted /\ inserted' = inserted
    BY <1>1 DEF Begin, InsertEnds, db
  <2>2. \E to \in {"insert", "aggregate"} : pc' = [pc EXCEPT ![r] = to] /\ pc[r] # "done"
    BY <1>1 DEF Begin, InsertEnds, Goto
  <2> QED
    BY <2>1, <2>2, GoesOn, NothingInserted
<1>2. ASSUME NEW r \in Requests, ReadAggregate(r) \/ ReadRoot(r) \/ ReadExisting(r) \/ DeleteSuperseded(r)
      PROVE  Accounted'
  <2>1. spans' = spans /\ accepted' = accepted /\ inserted' = inserted
    BY <1>2 DEF ReadAggregate, ReadRoot, ReadExisting, DeleteSuperseded, db
  <2>2. \E to \in {"root", "existing", "upsert", "deleting"} : pc' = [pc EXCEPT ![r] = to] /\ pc[r] # "done"
    BY <1>2 DEF ReadAggregate, ReadRoot, ReadExisting, DeleteSuperseded, Goto
  <2> QED
    BY <2>1, <2>2, GoesOn, NothingInserted
<1>3. ASSUME NEW r \in Requests, Upsert(r) \/ DeleteEnds(r) PROVE Accounted'
  <2>1. spans' = spans /\ accepted' = accepted /\ inserted' = inserted
    BY <1>3 DEF Upsert, DeleteEnds, db
  <2>2. \E to \in {"commit", "aggregate", "delete"} : pc' = [pc EXCEPT ![r] = to] /\ pc[r] # "done"
    BY <1>3 DEF Upsert, DeleteEnds, RefreshEnds
  <2> QED
    BY <2>1, <2>2, GoesOn, NothingInserted
<1>4. ASSUME NEW r \in Requests, Abort(r) PROVE Accounted'
  <2>1. spans' = spans /\ accepted' = accepted /\ inserted' = [inserted EXCEPT ![r] = {}]
    BY <1>4 DEF Abort, Forget, db
  <2>2. pc' = [pc EXCEPT ![r] = "failed"] /\ pc[r] # "done"
    BY <1>4 DEF Abort, Active
  <2>3. /\ \A q \in Requests : inserted'[q] \subseteq inserted[q]
        /\ \A q \in Requests \ {r} : inserted'[q] = inserted[q]
    BY <2>1 DEF IngestInv, LocalsOK
  <2>4. /\ \A q \in Requests : pc'[q] = "done" <=> pc[q] = "done"
        /\ \A q \in Answered' : q \in Answered /\ q \in Requests \ {r}
    BY <2>2, GoesOn
  <2> QED
    BY <2>1, <2>3, <2>4, NothingInserted
<1>5. CASE UNCHANGED vars
  <2>1. spans' = spans /\ accepted' = accepted /\ inserted' = inserted /\ pc' = pc
    BY <1>5 DEF vars, db
  <2>2. Answered' = Answered
    BY <2>1 DEF Answered
  <2> QED
    BY <2>1, <2>2, NothingInserted
<1> QED
  BY <1>1, <1>2, <1>3, <1>4, <1>5, InsertSpanAccounted, AnswerAccounted, CommitAccounted
     DEF Next, Step, BreakDeadlock

LEMMA AccountStart == Init => Accounted
<1> SUFFICES ASSUME Init PROVE Accounted
  OBVIOUS
<1>1. Done = {} /\ Answered = {}
  BY DEF Init, Done, Answered
<1>2. SumOver(accepted, Done) = 0 /\ Cardinality(spans) = 0
  BY <1>1, SumEmpty, FS_EmptySet DEF Init
<1> QED
  BY <1>1, <1>2 DEF Init, Accounted

\* Whichever of the requests that have answered commit, each stores what it counted.
LEMMA CountsAddUp ==
    ASSUME IngestInv, Accounted, NEW Q \in SUBSET Answered
    PROVE  SumOver(accepted, Done \cup Q) = Cardinality(spans \cup UNION {inserted[r] : r \in Q})
<1> DEFINE new(R) == UNION {inserted[r] : r \in R}
           B == {R \in SUBSET Answered :
                    ~ (/\ IsFiniteSet(spans \cup new(R))
                       /\ SumOver(accepted, Done \cup R) = Cardinality(spans \cup new(R)))}
<1>1. SUFFICES ASSUME B # {} PROVE FALSE
  OBVIOUS
<1>2. IsFiniteSet(Answered) /\ Answered \subseteq Requests /\ Done \subseteq Requests /\ Answered \cap Done = {}
  BY TraceIngestAssumption, FS_Subset DEF Answered, Done
<1>3. PICK R \in B : \A Y \in B : Y \subseteq R => Y = R
  <2>1. B \subseteq SUBSET Answered
    OBVIOUS
  <2> HIDE DEF B
  <2> QED
    BY <1>1, <1>2, <2>1, LeastSubset
<1>4. R \in SUBSET Answered
  OBVIOUS
<1>5. R # {}
  <2>1. ASSUME R = {} PROVE FALSE
    <3>1. spans \cup new(R) = spans /\ Done \cup R = Done
      BY <2>1
    <3> QED
      BY <3>1, SpansFinite DEF Accounted
  <2> QED
    BY <2>1
<1>6. PICK q \in R : TRUE
  BY <1>5
<1> DEFINE P == R \ {q}
<1>7. /\ IsFiniteSet(spans \cup new(P))
      /\ SumOver(accepted, Done \cup P) = Cardinality(spans \cup new(P))
  <2>1. P \notin B /\ P \in SUBSET Answered
    BY <1>3, <1>4, <1>6
  <2> QED
    BY <2>1
<1>8. spans \cup new(R) = (spans \cup new(P)) \cup inserted[q]
  OBVIOUS
<1>9. (spans \cup new(P)) \cap inserted[q] = {}
  BY <1>2, <1>4 DEF Accounted
<1>10. q \in Requests /\ IsFiniteSet(inserted[q]) /\ accepted[q] = Cardinality(inserted[q]) /\ accepted[q] \in Nat
  BY <1>2, <1>4, SpansFinite DEF Accounted
<1>11. SumOver(accepted, Done \cup R) = accepted[q] + SumOver(accepted, Done \cup P)
  <2>1. Done \cup R \subseteq Requests /\ (Done \cup R) \ {q} = Done \cup P /\ q \in Done \cup R
    BY <1>2, <1>4
  <2>2. IsFiniteSet(Done \cup R) /\ \A r \in Done \cup R : accepted[r] \in Nat
    BY <2>1, TraceIngestAssumption, FS_Subset DEF Accounted
  <2> HIDE DEF P
  <2> QED
    BY <2>1, <2>2, SumRemove
<1> HIDE DEF new, P
<1>12. /\ IsFiniteSet(spans \cup new(R))
       /\ Cardinality(spans \cup new(R)) = Cardinality(spans \cup new(P)) + Cardinality(inserted[q])
       /\ Cardinality(spans \cup new(P)) \in Nat
  BY <1>7, <1>8, <1>9, <1>10, CountsOne
<1>13. SumOver(accepted, Done \cup R) = Cardinality(spans \cup new(R))
  BY <1>7, <1>10, <1>11, <1>12
<1> QED
  BY <1>3, <1>12, <1>13

\* The rows that ON CONFLICT DO NOTHING skips count for nobody: however batches
\* with the same spans overlap, wait for each other, abort, or are undone after
\* they have answered, the counts of those that commit add up to what is stored.
THEOREM SpansAreAcceptedOnce == Spec => []AcceptedOnce
<1>1. ASSUME IngestInv, Accounted PROVE AcceptedOnce
  <2>1. \A Q \in SUBSET Answered :
            Told(Done \cup Q) = Cardinality(spans \cup UNION {inserted[r] : r \in Q})
    BY <1>1, CountsAddUp, ToldIsSum
  <2> QED
    BY <2>1, Zenon DEF AcceptedOnce, Done, Answered
<1>2. IngestInv /\ Accounted => AcceptedOnce
  BY <1>1
<1> QED
  BY <1>2, IngestInvHolds, IngestStep, AccountStart, AccountStep, PTL DEF Spec
-----------------------------------------------------------------------------
(* A request that no other overlaps.                                       *)

\* Trace t has one rollup among X, and it is that of its spans among S.
Settled(t, S, X) ==
    {x \in X : x.trace = t} = {Rollup(t, SpansOf(t, S), HasRoot(SpansOf(t, S)))}

\* What request r knows when nobody else writes: what it has read is still so,
\* it has written nothing about the traces that it has yet to refresh, and the
\* other traces of its batch are settled.
SoleInv(r) ==
    /\ Distinct(todo[r])
    /\ pc[r] = "insert" => rows[r] = {}
    /\ pc[r] \in Refreshing => agg[r] = SpansOf(Head(todo[r]), SeenSpans(r))
    /\ pc[r] \in Refreshing \ {"root"} => root[r] = HasRoot(SpansOf(Head(todo[r]), SeenSpans(r)))
    /\ pc[r] = "upsert" =>
          (stale[r] <=> \E x \in SeenRollups(r) : x.trace = Head(todo[r]) /\ x.start # Start(agg[r]))
    /\ pc[r] \in {"aggregate", "root", "existing", "upsert"} =>
          \A x \in rows[r] : x.trace \notin ToSet(todo[r])
    /\ pc[r] \in {"delete", "deleting"} =>
          \A x \in rows[r] : x.trace \in ToSet(todo[r]) => x = Fresh(r)
    /\ pc[r] = "deleting" =>
          \A x \in SeenRollups(r) : x.trace = Head(todo[r]) => Key(x) \in doomed[r] \/ x = Fresh(r)
    /\ pc[r] \in Refreshing \cup {"aggregate", "commit", "answered"} =>
          \A s \in batch[r] : \/ TraceOf[s] \in ToSet(todo[r])
                              \/ Settled(TraceOf[s], SeenSpans(r), SeenRollups(r))

RepairInv ==
    /\ alone = [r \in Requests |-> alone[r]]
    /\ \A r \in Requests :
          alone[r] /\ Active(r) => (\A q \in Others(r) : ~Active(q)) /\ SoleInv(r)

\* Only the request that moves can be alone and still active.
LEMMA SoleStep ==
    ASSUME RepairInv, NEW r \in Requests, Active(r), alone' = alone,
           \A q \in Others(r) : pc'[q] = pc[q],
           alone[r] /\ Active(r)' => SoleInv(r)'
    PROVE  RepairInv'
<1>1. alone' = [q \in Requests |-> alone'[q]]
  BY DEF RepairInv
<1>2. ASSUME NEW p \in Requests, alone'[p], Active(p)'
      PROVE  (\A q \in Others(p) : ~Active(q)') /\ SoleInv(p)'
  <2>1. CASE p = r
    BY <1>2, <2>1 DEF RepairInv, Active, Others
  <2>2. CASE p # r
    <3>1. Active(p) /\ r \in Others(p)
      BY <1>2, <2>2 DEF Active, Others
    <3> QED
      BY <1>2, <3>1 DEF RepairInv
  <2> QED
    BY <2>1, <2>2
<1> QED
  BY <1>1, <1>2 DEF RepairInv

\* A refresh that has written the only rollup of its trace settles it, and leaves
\* the traces settled before as they are.
LEMMA EndSettles ==
    ASSUME IngestInv, NEW r \in Requests, RefreshEnds(r), pc[r] \in {"upsert", "deleting"}, SoleInv(r),
           spans' = spans, batch' = batch, inserted' = inserted,
           Settled(Head(todo[r]), SeenSpans(r), SeenRollups(r)'),
           \A t : t # Head(todo[r]) =>
               {x \in SeenRollups(r)' : x.trace = t} = {x \in SeenRollups(r) : x.trace = t},
           \A x \in rows'[r] : x.trace = Head(todo[r]) \/ x \in rows[r]
    PROVE  SoleInv(r)'
<1>1. /\ todo' = [todo EXCEPT ![r] = Tail(@)]
      /\ pc' = [pc EXCEPT ![r] = IF Tail(todo[r]) = <<>> THEN "commit" ELSE "aggregate"]
  BY DEF RefreshEnds
<1>2. todo'[r] = Tail(todo[r]) /\ pc'[r] \in {"commit", "aggregate"}
  BY <1>1 DEF IngestInv, LocalsOK
<1>3. RequestInv(r) /\ todo[r] \in Seq(Traces) /\ todo[r] # <<>>
  BY DEF IngestInv, RequestInv, Refreshing
<1>4. Distinct(Tail(todo[r])) /\ Head(todo[r]) \notin ToSet(Tail(todo[r]))
  BY <1>3, TailDistinct DEF SoleInv
<1>5. ToSet(todo[r]) = {Head(todo[r])} \cup ToSet(Tail(todo[r]))
  BY <1>3, TailFacts
<1>6. SeenSpans(r)' = SeenSpans(r)
  BY DEF SeenSpans
<1>7. ASSUME NEW s \in batch[r], TraceOf[s] \notin ToSet(Tail(todo[r]))
      PROVE  Settled(TraceOf[s], SeenSpans(r), SeenRollups(r)')
  <2>1. CASE TraceOf[s] = Head(todo[r])
    BY <2>1
  <2>2. CASE TraceOf[s] # Head(todo[r])
    <3>1. Settled(TraceOf[s], SeenSpans(r), SeenRollups(r))
      BY <1>5, <1>7, <2>2 DEF SoleInv, Refreshing
    <3> QED
      BY <2>2, <3>1 DEF Settled
  <2> QED
    BY <2>1, <2>2
<1>8. \A x \in rows'[r] : x.trace \notin ToSet(Tail(todo[r]))
  <2>1. ASSUME NEW x \in rows[r], x.trace \in ToSet(Tail(todo[r])) PROVE FALSE
    <3>1. CASE pc[r] = "upsert"
      BY <1>5, <2>1, <3>1 DEF SoleInv
    <3>2. CASE pc[r] = "deleting"
      <4>1. x = Fresh(r)
        BY <1>5, <2>1, <3>2 DEF SoleInv
      <4>2. Fresh(r).trace = Head(todo[r])
        BY RollupFacts DEF Fresh
      <4> QED
        BY <1>4, <2>1, <4>1, <4>2
    <3> QED
      BY <3>1, <3>2
  <2> QED
    BY <1>4, <2>1
<1>9. batch'[r] = batch[r]
  OBVIOUS
<1> QED
  BY <1>2, <1>4, <1>6, <1>7, <1>8, <1>9 DEF SoleInv, Refreshing

\* The reads of a refresh, which write nothing: what is read is what is there.
LEMMA ReadsSettle ==
    ASSUME IngestInv, NEW r \in Requests, SoleInv(r),
           ReadAggregate(r) \/ ReadRoot(r) \/ ReadExisting(r) \/ DeleteSuperseded(r)
    PROVE  SoleInv(r)'
<1>1. /\ spans' = spans /\ rollups' = rollups /\ batch' = batch /\ todo' = todo
      /\ inserted' = inserted /\ rows' = rows /\ gone' = gone
  BY DEF ReadAggregate, ReadRoot, ReadExisting, DeleteSuperseded, db
<1>2. SeenSpans(r)' = SeenSpans(r) /\ SeenRollups(r)' = SeenRollups(r)
  BY <1>1 DEF SeenSpans, SeenRollups, Locked
<1>3. CASE ReadAggregate(r)
  <2>1. pc[r] = "aggregate" /\ pc'[r] = "root" /\ agg'[r] = SpansOf(Head(todo[r]), SeenSpans(r))
    BY <1>3 DEF ReadAggregate, Goto, IngestInv, LocalsOK
  <2> QED
    BY <1>1, <1>2, <2>1 DEF SoleInv, Refreshing
<1>4. CASE ReadRoot(r)
  <2>1. /\ pc[r] = "root" /\ pc'[r] = "existing" /\ agg' = agg
        /\ root'[r] = HasRoot(SpansOf(Head(todo[r]), SeenSpans(r)))
    BY <1>4 DEF ReadRoot, Goto, IngestInv, LocalsOK
  <2> QED
    BY <1>1, <1>2, <2>1 DEF SoleInv, Refreshing
<1>5. CASE ReadExisting(r)
  <2>1. /\ pc[r] = "existing" /\ pc'[r] = "upsert" /\ agg' = agg /\ root' = root
        /\ stale'[r] = \E x \in SeenRollups(r) : x.trace = Head(todo[r]) /\ x.start # Start(agg[r])
    BY <1>5 DEF ReadExisting, Goto, IngestInv, LocalsOK
  <2> QED
    BY <1>1, <1>2, <2>1 DEF SoleInv, Refreshing
<1>6. CASE DeleteSuperseded(r)
  <2>1. /\ pc[r] = "delete" /\ pc'[r] = "deleting" /\ agg' = agg /\ root' = root
        /\ doomed'[r] = {k \in Keys(SeenRollups(r)) : k[1] = Head(todo[r]) /\ k[2] # Start(agg[r])}
    BY <1>6 DEF DeleteSuperseded, Goto, IngestInv, LocalsOK
  <2>2. RequestInv(r) /\ Fresh(r) \in rows[r] /\ todo[r] \in Seq(Traces) /\ todo[r] # <<>>
    BY <2>1 DEF IngestInv, RequestInv, Refreshing
  <2>3. ASSUME NEW x \in SeenRollups(r), x.trace = Head(todo[r])
        PROVE  Key(x) \in doomed'[r] \/ x = Fresh(r)
    <3>1. CASE x.start # Start(agg[r])
      BY <2>1, <2>3, <3>1 DEF Keys, Key
    <3>2. CASE x.start = Start(agg[r])
      <4>1. Key(x) = Key(Fresh(r))
        BY <2>3, <3>2, RollupFacts DEF Fresh, Key
      <4>2. Key(x) \in Locked(r)
        BY <2>2, <4>1 DEF Locked, Keys
      <4>3. x \in rows[r] /\ x.trace \in ToSet(todo[r])
        BY <2>2, <2>3, <4>2, TailFacts DEF SeenRollups
      <4> QED
        BY <2>1, <4>3 DEF SoleInv
    <3> QED
      BY <3>1, <3>2
  <2>4. Fresh(r)' = Fresh(r)
    BY <1>1, <2>1 DEF Fresh
  <2> QED
    BY <1>1, <1>2, <2>1, <2>3, <2>4 DEF SoleInv, Refreshing
<1> QED
  BY <1>3, <1>4, <1>5, <1>6

\* The rollup that is written settles the trace, or only the ones that the
\* refresh has read as stale are left beside it.
LEMMA UpsertSettles ==
    ASSUME IngestInv, NEW r \in Requests, SoleInv(r), Upsert(r)
    PROVE  SoleInv(r)'
<1> DEFINE t == Head(todo[r])
<1>1. /\ pc[r] = "upsert" /\ rows' = [rows EXCEPT ![r] = @ \cup {Fresh(r)}]
      /\ spans' = spans /\ rollups' = rollups /\ batch' = batch
      /\ inserted' = inserted /\ gone' = gone
  BY DEF Upsert, db
<1>2. rows'[r] = rows[r] \cup {Fresh(r)}
  BY <1>1 DEF IngestInv, LocalsOK
<1>3. /\ todo[r] \in Seq(Traces) /\ todo[r] # <<>> /\ t \in ToSet(todo[r])
  <2>1. todo[r] \in Seq(Traces) /\ todo[r] # <<>>
    BY <1>1 DEF IngestInv, RequestInv, Refreshing
  <2> QED
    BY <2>1, TailFacts
<1>4. /\ Fresh(r) = Rollup(t, SpansOf(t, SeenSpans(r)), HasRoot(SpansOf(t, SeenSpans(r))))
      /\ Fresh(r).trace = t /\ Key(Fresh(r)) = <<t, Start(agg[r])>>
  BY <1>1, RollupFacts DEF SoleInv, Refreshing, Fresh
<1>5. /\ SeenRollups(r)' = {x \in rollups : Key(x) \notin Locked(r)'} \cup rows'[r]
      /\ Locked(r)' = Locked(r) \cup {Key(Fresh(r))}
      /\ SeenSpans(r)' = SeenSpans(r)
  <2>1. Keys(rows'[r]) = Keys(rows[r]) \cup {Key(Fresh(r))}
    BY <1>2 DEF Keys
  <2> QED
    BY <1>1, <2>1 DEF SeenRollups, SeenSpans, Locked
<1>6. ASSUME NEW x, x.trace # t PROVE Key(x) # Key(Fresh(r)) /\ x # Fresh(r)
  BY <1>4, <1>6 DEF Key
<1>7. ASSUME NEW u, u # t
      PROVE  {x \in SeenRollups(r)' : x.trace = u} = {x \in SeenRollups(r) : x.trace = u}
  BY <1>2, <1>5, <1>6, <1>7 DEF SeenRollups
<1>8. \A x \in rows[r] : x.trace \notin ToSet(todo[r])
  BY <1>1 DEF SoleInv
<1>9. CASE ~stale[r]
  <2>1. RefreshEnds(r)
    BY <1>9 DEF Upsert
  <2>2. ASSUME NEW x \in SeenRollups(r)', x.trace = t PROVE x = Fresh(r)
    <3>1. CASE x \in rows'[r]
      BY <1>2, <1>3, <1>8, <2>2, <3>1
    <3>2. CASE x \in rollups /\ Key(x) \notin Locked(r)'
      <4>1. x \in SeenRollups(r)
        BY <1>5, <3>2 DEF SeenRollups
      <4>2. x.start = Start(agg[r])
        BY <1>1, <1>9, <2>2, <4>1 DEF SoleInv
      <4>3. Key(x) = Key(Fresh(r))
        BY <1>4, <2>2, <4>2 DEF Key
      <4> QED
        BY <1>5, <3>2, <4>3
    <3> QED
      BY <1>5, <2>2, <3>1, <3>2
  <2>3. Fresh(r) \in SeenRollups(r)'
    BY <1>2, <1>5
  <2>4. Settled(t, SeenSpans(r), SeenRollups(r)')
    BY <1>4, <2>2, <2>3 DEF Settled
  <2>5. \A x \in rows'[r] : x.trace = t \/ x \in rows[r]
    BY <1>2, <1>4
  <2> QED
    BY <1>1, <1>7, <2>1, <2>4, <2>5, EndSettles
<1>10. CASE stale[r]
  <2>1. pc' = [pc EXCEPT ![r] = "delete"] /\ todo' = todo /\ agg' = agg /\ root' = root
    BY <1>10 DEF Upsert, reads
  <2>2. pc'[r] = "delete"
    BY <2>1 DEF IngestInv, LocalsOK
  <2>3. Fresh(r)' = Fresh(r)
    BY <2>1 DEF Fresh
  <2>4. \A x \in rows'[r] : x.trace \in ToSet(todo[r]) => x = Fresh(r)
    BY <1>2, <1>8
  <2>5. ASSUME NEW s \in batch[r], TraceOf[s] \notin ToSet(todo[r])
        PROVE  Settled(TraceOf[s], SeenSpans(r), SeenRollups(r)')
    <3>1. Settled(TraceOf[s], SeenSpans(r), SeenRollups(r)) /\ TraceOf[s] # t
      BY <1>1, <1>3, <2>5 DEF SoleInv, Refreshing
    <3> QED
      BY <1>7, <3>1 DEF Settled
  <2>6. Distinct(todo[r]) /\ agg[r] = SpansOf(t, SeenSpans(r)) /\ root[r] = HasRoot(SpansOf(t, SeenSpans(r)))
    BY <1>1 DEF SoleInv, Refreshing
  <2> QED
    BY <1>1, <1>5, <2>1, <2>2, <2>3, <2>4, <2>5, <2>6 DEF SoleInv, Refreshing
<1> QED
  BY <1>9, <1>10

\* What the DELETE has gone through is all that was beside the new rollup.
LEMMA DeleteSettles ==
    ASSUME IngestInv, NEW r \in Requests, SoleInv(r), DeleteEnds(r)
    PROVE  SoleInv(r)'
<1> DEFINE t == Head(todo[r])
<1>1. /\ pc[r] = "deleting" /\ gone' = [gone EXCEPT ![r] = @ \cup doomed[r]]
      /\ rows' = [rows EXCEPT ![r] = {x \in @ : Key(x) \notin doomed[r]}]
      /\ RefreshEnds(r) /\ spans' = spans /\ rollups' = rollups /\ batch' = batch
      /\ inserted' = inserted
  BY DEF DeleteEnds, db
<1>2. /\ rows'[r] = {x \in rows[r] : Key(x) \notin doomed[r]} /\ gone'[r] = gone[r] \cup doomed[r]
  BY <1>1 DEF IngestInv, LocalsOK
<1>3. /\ Fresh(r) \in rows[r] /\ \A k \in doomed[r] : k[1] = t /\ k[2] # Start(agg[r])
  BY <1>1 DEF IngestInv, RequestInv
<1>4. /\ Fresh(r) = Rollup(t, SpansOf(t, SeenSpans(r)), HasRoot(SpansOf(t, SeenSpans(r))))
      /\ Fresh(r).trace = t /\ Key(Fresh(r)) = <<t, Start(agg[r])>>
  BY <1>1, RollupFacts DEF SoleInv, Refreshing, Fresh
<1>5. Key(Fresh(r)) \notin doomed[r] /\ \A x : x.trace # t => Key(x) \notin doomed[r]
  BY <1>3, <1>4 DEF Key
<1>6. SeenRollups(r)' = {x \in rollups : Key(x) \notin Keys(rows'[r]) \cup gone'[r]} \cup rows'[r]
  BY <1>1 DEF SeenRollups, Locked
<1>7. ASSUME NEW x PROVE x \in SeenRollups(r)' <=> x \in SeenRollups(r) /\ Key(x) \notin doomed[r]
  <2>1. Key(x) \notin doomed[r] => (Key(x) \in Keys(rows'[r]) <=> Key(x) \in Keys(rows[r]))
    BY <1>2 DEF Keys
  <2>2. x \in rows'[r] => Key(x) \notin doomed[r]
    BY <1>2
  <2> QED
    BY <1>2, <1>6, <2>1, <2>2 DEF SeenRollups, Locked
<1>8. ASSUME NEW u, u # t
      PROVE  {x \in SeenRollups(r)' : x.trace = u} = {x \in SeenRollups(r) : x.trace = u}
  BY <1>5, <1>7, <1>8
<1>9. Fresh(r) \in SeenRollups(r)' /\ \A x \in SeenRollups(r)' : x.trace = t => x = Fresh(r)
  <2>1. Fresh(r) \in SeenRollups(r)'
    BY <1>3, <1>5, <1>7 DEF SeenRollups
  <2> QED
    BY <1>1, <1>7, <2>1 DEF SoleInv
<1>10. Settled(t, SeenSpans(r), SeenRollups(r)')
  BY <1>4, <1>9 DEF Settled
<1>11. \A x \in rows'[r] : x.trace = t \/ x \in rows[r]
  BY <1>2
<1> QED
  BY <1>1, <1>8, <1>10, <1>11, EndSettles

LEMMA InsertsSettle ==
    ASSUME IngestInv, NEW r \in Requests, SoleInv(r), InsertSpan(r) \/ InsertEnds(r)
    PROVE  SoleInv(r)'
<1>1. rows' = rows /\ pc[r] = "insert"
  BY DEF InsertSpan, InsertEnds, Goto
<1>2. CASE InsertSpan(r)
  <2>1. pc' = pc /\ todo' = todo
    BY <1>2 DEF InsertSpan
  <2> QED
    BY <1>1, <2>1 DEF SoleInv, Refreshing
<1>3. CASE InsertEnds(r)
  <2>1. PICK order \in SetToSeqs({TraceOf[s] : s \in batch[r]}) : todo' = [todo EXCEPT ![r] = order]
    BY <1>3 DEF InsertEnds
  <2>2. todo'[r] = order /\ pc'[r] = "aggregate" /\ batch' = batch
    BY <1>3, <2>1 DEF InsertEnds, Goto, IngestInv, LocalsOK
  <2>3. batch[r] \in SUBSET Spans /\ batch[r] # {}
    BY <1>1 DEF IngestInv, RequestInv
  <2>4. Distinct(order) /\ ToSet(order) = {TraceOf[s] : s \in batch[r]}
    BY <2>3, OrderFacts
  <2> QED
    BY <1>1, <2>2, <2>4 DEF SoleInv, Refreshing
<1> QED
  BY <1>2, <1>3

\* A request begins alone if no other is active, and it has written nothing yet.
LEMMA BeginSole ==
    ASSUME IngestInv, RepairInv, NEW r \in Requests, Begin(r)
    PROVE  RepairInv'
<1>1. /\ pc[r] = "new" /\ pc' = [pc EXCEPT ![r] = "insert"] /\ todo' = todo /\ rows' = rows
      /\ alone' = [q \in Requests |-> IF q = r THEN \A p \in Others(r) : ~Active(p)
                                               ELSE alone[q] /\ ~Active(q)]
  BY DEF Begin, Goto
<1>2. pc'[r] = "insert" /\ \A q \in Others(r) : pc'[q] = pc[q]
  BY <1>1 DEF IngestInv, LocalsOK, Others
<1>3. SoleInv(r)'
  <2>1. Distinct(todo'[r]) /\ rows'[r] = {}
    BY <1>1 DEF IngestInv, RequestInv, Distinct
  <2> QED
    BY <1>1, <1>2, <2>1 DEF SoleInv, Refreshing
<1>4. ASSUME NEW p \in Requests, alone'[p], Active(p)'
      PROVE  (\A q \in Others(p) : ~Active(q)') /\ SoleInv(p)'
  <2>1. p = r
    BY <1>1, <1>2, <1>4 DEF Active, Others
  <2> QED
    BY <1>1, <1>2, <1>3, <1>4, <2>1 DEF Active
<1> QED
  BY <1>1, <1>4 DEF RepairInv

LEMMA AnswerSettles ==
    ASSUME IngestInv, NEW r \in Requests, Answer(r), SoleInv(r) PROVE SoleInv(r)'
<1>1. /\ pc[r] = "commit" /\ pc' = [pc EXCEPT ![r] = "answered"] /\ batch' = batch
      /\ todo' = todo /\ agg' = agg /\ root' = root /\ stale' = stale /\ doomed' = doomed
      /\ inserted' = inserted /\ rows' = rows /\ gone' = gone /\ spans' = spans /\ rollups' = rollups
  BY DEF Answer, Goto, reads
<1>2. pc'[r] = "answered"
  BY <1>1 DEF IngestInv, LocalsOK
<1>3. SeenSpans(r)' = SeenSpans(r) /\ SeenRollups(r)' = SeenRollups(r)
  BY <1>1 DEF SeenSpans, SeenRollups, Locked
<1> QED
  BY <1>1, <1>2, <1>3 DEF SoleInv, Refreshing

LEMMA RepairStep == IngestInv /\ RepairInv /\ [Next]_vars => RepairInv'
<1> SUFFICES ASSUME IngestInv, RepairInv, [Next]_vars PROVE RepairInv'
  OBVIOUS
<1>1. ASSUME NEW r \in Requests, Step(r) \/ Abort(r)
      PROVE  Active(r) /\ alone' = alone /\ \A q \in Others(r) : pc'[q] = pc[q]
  <2>1. \E to : pc' = [pc EXCEPT ![r] = to]
    <3>1. CASE InsertSpan(r)
      <4>1. pc' = [pc EXCEPT ![r] = pc[r]]
        BY <3>1 DEF InsertSpan, IngestInv, LocalsOK
      <4> QED
        BY <4>1
    <3>2. CASE Step(r) \/ Abort(r)
      BY <3>1, <3>2 DEF Step, InsertEnds, ReadAggregate, ReadRoot, ReadExisting, Upsert, DeleteSuperseded,
                        DeleteEnds, RefreshEnds, Answer, Commit, BreakDeadlock, Abort, Goto
    <3> QED
      BY <1>1, <3>2
  <2>2. \A q \in Others(r) : pc'[q] = pc[q]
    BY <2>1 DEF IngestInv, LocalsOK, Others
  <2>3. Active(r) /\ alone' = alone
    BY <1>1 DEF Step, InsertSpan, InsertEnds, ReadAggregate, ReadRoot, ReadExisting, Upsert,
                DeleteSuperseded, DeleteEnds, Answer, Commit, BreakDeadlock, Abort, Goto, Active
  <2> QED
    BY <2>2, <2>3
<1>2. ASSUME NEW r \in Requests, Step(r), ~Commit(r), ~BreakDeadlock(r), alone[r] PROVE SoleInv(r)'
  <2>1. SoleInv(r)
    BY <1>1, <1>2 DEF RepairInv
  <2> QED
    BY <1>2, <2>1, InsertsSettle, ReadsSettle, UpsertSettles, DeleteSettles, AnswerSettles DEF Step
<1>3. ASSUME NEW r \in Requests, Commit(r) \/ Abort(r) PROVE ~Active(r)'
  BY <1>3 DEF Commit, Abort, Goto, Active, IngestInv, LocalsOK
<1>4. ASSUME NEW r \in Requests, Step(r) \/ Abort(r) PROVE RepairInv'
  <2>1. alone[r] /\ Active(r)' => SoleInv(r)'
    BY <1>2, <1>3, <1>4 DEF BreakDeadlock
  <2> QED
    BY <1>1, <1>4, <2>1, SoleStep
<1>5. CASE UNCHANGED vars
  <2>1. /\ pc' = pc /\ alone' = alone /\ batch' = batch /\ todo' = todo /\ rows' = rows /\ gone' = gone
        /\ agg' = agg /\ root' = root /\ stale' = stale /\ doomed' = doomed
        /\ inserted' = inserted /\ spans' = spans /\ rollups' = rollups
    BY <1>5 DEF vars, reads, db
  <2>2. \A r \in Requests : Active(r)' <=> Active(r)
    BY <2>1 DEF Active
  <2>3. ASSUME NEW r \in Requests, SoleInv(r) PROVE SoleInv(r)'
    <3>1. SeenSpans(r)' = SeenSpans(r) /\ SeenRollups(r)' = SeenRollups(r) /\ Fresh(r)' = Fresh(r)
      BY <2>1 DEF SeenSpans, SeenRollups, Locked, Fresh
    <3> QED
      BY <2>1, <2>3, <3>1 DEF SoleInv
  <2>4. ASSUME NEW r \in Requests, alone'[r], Active(r)'
        PROVE  (\A q \in Others(r) : ~Active(q)') /\ SoleInv(r)'
    <3>1. (\A q \in Others(r) : ~Active(q)) /\ SoleInv(r)
      BY <2>1, <2>2, <2>4 DEF RepairInv
    <3>2. \A q \in Others(r) : q \in Requests
      BY DEF Others
    <3> QED
      BY <2>2, <2>3, <3>1, <3>2
  <2>5. alone' = [r \in Requests |-> alone'[r]]
    BY <2>1 DEF RepairInv
  <2> QED
    BY <2>4, <2>5 DEF RepairInv
<1> QED
  BY <1>4, <1>5, BeginSole DEF Next

LEMMA RepairStart == Init => RepairInv
BY DEF Init, RepairInv, Active

\* refresh_trace heals: whatever rollups overlapping or aborted requests have left,
\* a request that no other overlaps leaves one for each trace of its batch, and
\* it counts exactly the trace's spans.
THEOREM LoneRequestsRepair == Spec => Repairs
<1>1. ASSUME IngestInv, RepairInv, [Next]_vars, NEW r \in Requests,
             pc[r] = "answered", pc'[r] = "done", alone[r]
      PROVE  \A s \in batch[r] : Current(TraceOf[s])'
  <2>1. Commit(r)
    <3>1. ASSUME NEW q \in Requests, Begin(q) \/ Step(q) \/ Abort(q), ~Commit(r) PROVE FALSE
      <4>1. q = r
        <5>1. ASSUME Active(q), q # r PROVE FALSE
          BY <1>1, <5>1 DEF RepairInv, Active, Others
        <5>2. ASSUME Begin(q), q # r PROVE FALSE
          BY <1>1, <5>2 DEF Begin, Goto, IngestInv, LocalsOK
        <5>3. Step(q) \/ Abort(q) => Active(q)
          BY DEF Step, InsertSpan, InsertEnds, ReadAggregate, ReadRoot, ReadExisting, Upsert,
                 DeleteSuperseded, DeleteEnds, Answer, Commit, BreakDeadlock, Abort, Goto, Active
        <5> QED
          BY <3>1, <5>1, <5>2, <5>3
      <4>2. Abort(r)
        BY <1>1, <3>1, <4>1 DEF Begin, Step, InsertSpan, InsertEnds, ReadAggregate, ReadRoot, ReadExisting,
               Upsert, DeleteSuperseded, DeleteEnds, Answer, BreakDeadlock, Goto
      <4> QED
        BY <1>1, <4>2 DEF Abort, IngestInv, LocalsOK
    <3>2. ~UNCHANGED vars
      BY <1>1 DEF vars
    <3> QED
      BY <1>1, <3>1, <3>2 DEF Next
  <2>2. spans' = SeenSpans(r) /\ rollups' = SeenRollups(r)
    BY <2>1 DEF Commit
  <2>3. todo[r] = <<>> /\ SoleInv(r)
    BY <1>1 DEF IngestInv, RequestInv, RepairInv, Active
  <2>4. ToSet(todo[r]) = {}
    BY <2>3 DEF ToSet
  <2>5. \A s \in batch[r] : Settled(TraceOf[s], SeenSpans(r), SeenRollups(r))
    BY <1>1, <2>3, <2>4 DEF SoleInv
  <2> QED
    BY <2>2, <2>5 DEF Settled, Current
<1>2. IngestInv /\ RepairInv /\ [Next]_vars =>
          [\A r \in Requests :
              pc[r] = "answered" /\ pc'[r] = "done" /\ alone[r]
                  => \A s \in batch[r] : Current(TraceOf[s])']_vars
  BY <1>1
<1> QED
  BY <1>2, IngestInvHolds, IngestStep, RepairStart, RepairStep, PTL DEF Spec, Repairs
=============================================================================
