--------------------------- MODULE DeliveryProofs ----------------------------
(***************************************************************************)
(* Proofs about what is sent over a network that fails: the spans of the   *)
(* SDK's client, for every number of spans and every size of the queue and *)
(* of the batches, and the notifications of the alert rules, for every set *)
(* of rules and of passes that overlap, and every cooldown.                *)
(***************************************************************************)
EXTENDS TracingClient, AlertRules, FiniteSetTheorems, TLAPS

CallStates == {"new", "full", "counted", "evicted", "queued", "lost"}
Callers(state) == {s \in Spans : call[s] = state}

Transactions == [spans : SUBSET Spans, answered : BOOLEAN]
ServerTypeOK == open \subseteq Transactions /\ stored \subseteq Spans /\ undone \subseteq Spans

ClientTypeOK ==
    /\ ServerTypeOK
    /\ queue \in Seq(Spans) /\ batch \in Seq(Spans)
    /\ call \in [Spans -> CallStates]
    /\ sent \in Nat /\ failed \in Nat /\ dropped \in Nat
    /\ evicted \subseteq Spans

Distinct(q) == \A i, j \in DOMAIN q : q[i] = q[j] => i = j

\* The spans that the server has answered for, whatever became of them, and those
\* that have ever reached it.
Confirmed == stored \cup Answered \cup undone
Touched == {s \in Spans : s \in stored \cup undone \/ \E t \in open : s \in t.spans}

\* A set of spans that is to be counted: Sent are those that sent counts, Failed
\* those that failed counts. Every span that entered the queue is in one place.
Ledger(Sent, Failed) ==
    /\ Sent \subseteq Confirmed
    /\ Touched \subseteq Sent \cup Failed \cup Elements(batch)
    /\ Cardinality(Sent) = sent
    /\ Cardinality(Failed) = failed
    /\ Callers("queued") = Elements(queue) \cup Elements(batch) \cup Sent \cup Failed \cup evicted
    /\ \A s \in Elements(queue) : s \notin Elements(batch) \cup Sent \cup Failed \cup evicted
    /\ \A s \in Elements(batch) : s \notin Sent \cup Failed \cup evicted
    /\ \A s \in Sent : s \notin Failed \cup evicted
    /\ \A s \in Failed : s \notin evicted

LedgerInv ==
    /\ Distinct(queue) /\ Distinct(batch)
    /\ \E Sent, Failed \in SUBSET Spans : Ledger(Sent, Failed)

\* A counted drop that is under way has lost nothing yet when the oldest span is
\* still to be taken out, and can lose one more after that.
Balanced(out, lost, counted, again, drops) ==
    /\ out + lost + 2 * counted + again <= 2 * drops
    /\ drops <= out + lost + counted

DropInv == Balanced(Cardinality(evicted), Cardinality(Callers("lost")),
                    Cardinality(Callers("counted")), Cardinality(Callers("evicted")), dropped)

ClientInv == ClientTypeOK /\ LedgerInv /\ DropInv

-----------------------------------------------------------------------------
(* Sequences and sets.                                                     *)

LEMMA AppendElements ==
    ASSUME NEW S, NEW q \in Seq(S), NEW x \in S
    PROVE  /\ Append(q, x) \in Seq(S)
           /\ Elements(Append(q, x)) = Elements(q) \cup {x}
           /\ Distinct(q) /\ x \notin Elements(q) => Distinct(Append(q, x))
<1> DEFINE p == Append(q, x)
<1>1. /\ p \in Seq(S) /\ DOMAIN p = DOMAIN q \cup {Len(q) + 1}
      /\ p[Len(q) + 1] = x
      /\ \A i \in DOMAIN q : p[i] = q[i] /\ i # Len(q) + 1
  OBVIOUS
<1> HIDE DEF p
<1>2. Elements(p) = Elements(q) \cup {x}
  BY <1>1 DEF Elements
<1>3. Distinct(q) /\ x \notin Elements(q) => Distinct(p)
  BY <1>1 DEF Elements, Distinct
<1> QED
  BY <1>1, <1>2, <1>3 DEF p

LEMMA TailElements ==
    ASSUME NEW S, NEW q \in Seq(S), q # <<>>, Distinct(q)
    PROVE  /\ Tail(q) \in Seq(S) /\ Head(q) \in S
           /\ Head(q) \in Elements(q)
           /\ Elements(Tail(q)) = Elements(q) \ {Head(q)}
           /\ Distinct(Tail(q))
<1> DEFINE p == Tail(q)
<1>1. /\ Len(q) \in Nat \ {0} /\ DOMAIN q = 1..Len(q)
      /\ p \in Seq(S) /\ DOMAIN p = 1..(Len(q) - 1)
      /\ \A i \in 1..(Len(q) - 1) : p[i] = q[i + 1]
      /\ Head(q) = q[1] /\ q[1] \in S
  OBVIOUS
<1> HIDE DEF p
<1>2. \A i \in DOMAIN q : i = 1 \/ (i - 1 \in DOMAIN p /\ p[i - 1] = q[i])
  BY <1>1
<1>3. \A i \in DOMAIN p : i + 1 \in DOMAIN q /\ p[i] = q[i + 1] /\ i + 1 # 1
  BY <1>1
<1>4. 1 \in DOMAIN q
  BY <1>1
<1>5. \A i \in DOMAIN p : p[i] # q[1]
  BY <1>3, <1>4 DEF Distinct
<1>6. Elements(p) = Elements(q) \ {q[1]}
  BY <1>2, <1>3, <1>5 DEF Elements
<1>7. Distinct(p)
  <2> SUFFICES ASSUME NEW i \in DOMAIN p, NEW j \in DOMAIN p, p[i] = p[j] PROVE i = j
    BY DEF Distinct
  <2>1. i + 1 = j + 1
    BY <1>3 DEF Distinct
  <2> QED
    BY <1>1, <2>1
<1> QED
  BY <1>1, <1>4, <1>6, <1>7 DEF p, Elements

LEMMA LenIsCardinality ==
    ASSUME NEW S, NEW q \in Seq(S), Distinct(q)
    PROVE  /\ IsFiniteSet(Elements(q)) /\ Cardinality(Elements(q)) = Len(q)
           /\ Len(q) \in Nat
<1>1. Len(q) \in Nat /\ DOMAIN q = 1..Len(q)
  OBVIOUS
<1>2. IsFiniteSet(1..Len(q)) /\ Cardinality(1..Len(q)) = Len(q)
  BY <1>1, FS_Interval
<1>3. q \in Bijection(1..Len(q), Elements(q))
  BY <1>1 DEF Bijection, Injection, Surjection, IsInjective, Elements, Distinct
<1>4. ExistsBijection(1..Len(q), Elements(q))
  BY <1>3 DEF ExistsBijection
<1> QED
  BY <1>1, <1>2, <1>4, FS_Bijection

LEMMA FiniteSpans ==
    ASSUME NEW S \in SUBSET Spans
    PROVE  IsFiniteSet(S) /\ Cardinality(S) \in Nat
BY TracingClientAssumption, FS_Subset, FS_CardinalityType

LEMMA DisjointUnion ==
    ASSUME NEW S \in SUBSET Spans, NEW T \in SUBSET Spans, \A s \in S : s \notin T
    PROVE  Cardinality(S \cup T) = Cardinality(S) + Cardinality(T)
<1>1. S \cap T = {}
  OBVIOUS
<1>2. Cardinality(S \cap T) = 0
  BY <1>1, FS_EmptySet
<1>3. Cardinality(S) \in Nat /\ Cardinality(T) \in Nat
  BY FiniteSpans
<1>4. Cardinality(S \cup T) = Cardinality(S) + Cardinality(T) - Cardinality(S \cap T)
  BY FiniteSpans, FS_Union
<1> QED
  BY <1>2, <1>3, <1>4

\* A submit call that moves on is counted where it is now.
LEMMA CallMoves ==
    ASSUME ClientTypeOK, NEW s \in Spans, NEW from \in CallStates, NEW to \in CallStates,
           from # to, At(s, from, to)
    PROVE  /\ call' \in [Spans -> CallStates]
           /\ Callers(to)' = Callers(to) \cup {s} /\ s \notin Callers(to)
           /\ Callers(from)' = Callers(from) \ {s} /\ s \in Callers(from)
           /\ \A x \in CallStates \ {from, to} : Callers(x)' = Callers(x)
           /\ Cardinality(Callers(to))' = Cardinality(Callers(to)) + 1
           /\ Cardinality(Callers(from))' = Cardinality(Callers(from)) - 1
           /\ \A x \in CallStates : Cardinality(Callers(x)) \in Nat
<1>1. call[s] = from /\ call' = [call EXCEPT ![s] = to] /\ call \in [Spans -> CallStates]
  BY DEF At, ClientTypeOK
<1>2. /\ call' \in [Spans -> CallStates]
      /\ Callers(to)' = Callers(to) \cup {s} /\ s \notin Callers(to)
      /\ Callers(from)' = Callers(from) \ {s} /\ s \in Callers(from)
      /\ \A x \in CallStates \ {from, to} : Callers(x)' = Callers(x)
  BY <1>1 DEF Callers
<1>3. \A x \in CallStates : IsFiniteSet(Callers(x)) /\ Cardinality(Callers(x)) \in Nat
  BY FiniteSpans DEF Callers
<1>4. /\ Cardinality(Callers(to) \cup {s}) = Cardinality(Callers(to)) + 1
      /\ Cardinality(Callers(from) \ {s}) = Cardinality(Callers(from)) - 1
  BY <1>2, <1>3, FS_AddElement, FS_RemoveElement
<1> QED
  BY <1>2, <1>3, <1>4

-----------------------------------------------------------------------------
(* The ledger.                                                             *)

LEMMA EnqueueKeepsLedger ==
    ASSUME ClientTypeOK, LedgerInv, NEW s \in Spans, queue' = Append(queue, s),
           s \notin Callers("queued"), Callers("queued")' = Callers("queued") \cup {s},
           UNCHANGED <<batch, sent, failed, evicted, Confirmed, Touched>>
    PROVE  LedgerInv'
<1>1. PICK Sent \in SUBSET Spans, Failed \in SUBSET Spans : Ledger(Sent, Failed)
  BY DEF LedgerInv
<1>2. s \notin Elements(queue) \cup Elements(batch) \cup Sent \cup Failed \cup evicted
  BY <1>1 DEF Ledger
<1>3. Elements(queue') = Elements(queue) \cup {s} /\ Distinct(queue')
  BY <1>2, AppendElements DEF ClientTypeOK, LedgerInv
<1>4. Ledger(Sent, Failed)'
  BY <1>1, <1>2, <1>3 DEF Ledger
<1> QED
  BY <1>3, <1>4 DEF LedgerInv

LEMMA EvictKeepsLedger ==
    ASSUME ClientTypeOK, LedgerInv, queue # <<>>, queue' = Tail(queue),
           evicted' = evicted \cup {Head(queue)},
           Callers("queued")' = Callers("queued"),
           UNCHANGED <<batch, sent, failed, Confirmed, Touched>>
    PROVE  LedgerInv' /\ Head(queue) \in Callers("queued") \ evicted
<1>1. PICK Sent \in SUBSET Spans, Failed \in SUBSET Spans : Ledger(Sent, Failed)
  BY DEF LedgerInv
<1>2. /\ Head(queue) \in Elements(queue)
      /\ Elements(queue') = Elements(queue) \ {Head(queue)} /\ Distinct(queue')
  BY TailElements DEF ClientTypeOK, LedgerInv
<1>3. Head(queue) \notin Elements(batch) \cup Sent \cup Failed \cup evicted
  BY <1>1, <1>2 DEF Ledger
<1>4. Ledger(Sent, Failed)'
  BY <1>1, <1>2, <1>3 DEF Ledger
<1> QED
  BY <1>1, <1>2, <1>3, <1>4 DEF LedgerInv, Ledger

\* Get and Drain.
LEMMA TakeKeepsLedger ==
    ASSUME ClientTypeOK, LedgerInv, queue # <<>>, queue' = Tail(queue),
           batch' = Append(batch, Head(queue)),
           UNCHANGED <<call, sent, failed, evicted, Confirmed, Touched>>
    PROVE  LedgerInv'
<1>1. PICK Sent \in SUBSET Spans, Failed \in SUBSET Spans : Ledger(Sent, Failed)
  BY DEF LedgerInv
<1>2. /\ Head(queue) \in Elements(queue) /\ Head(queue) \in Spans
      /\ Elements(queue') = Elements(queue) \ {Head(queue)} /\ Distinct(queue')
  BY TailElements DEF ClientTypeOK, LedgerInv
<1>3. Head(queue) \notin Elements(batch) \cup Sent \cup Failed \cup evicted
  BY <1>1, <1>2 DEF Ledger
<1>4. Elements(batch') = Elements(batch) \cup {Head(queue)} /\ Distinct(batch')
  BY <1>2, <1>3, AppendElements DEF ClientTypeOK, LedgerInv
<1>5. Callers("queued")' = Callers("queued")
  BY DEF Callers
<1>6. Ledger(Sent, Failed)'
  BY <1>1, <1>2, <1>3, <1>4, <1>5 DEF Ledger
<1> QED
  BY <1>2, <1>4, <1>6 DEF LedgerInv

LEMMA NoElements == Elements(<<>>) = {} /\ Distinct(<<>>)
BY DEF Elements, Distinct

LEMMA AcceptedKeepsLedger ==
    ASSUME ClientTypeOK, LedgerInv, batch' = <<>>, sent' = sent + Len(batch),
           Confirmed \cup Elements(batch) \subseteq Confirmed',
           Touched' \subseteq Touched \cup Elements(batch),
           UNCHANGED <<queue, call, failed, evicted>>
    PROVE  LedgerInv'
<1>1. PICK Sent \in SUBSET Spans, Failed \in SUBSET Spans : Ledger(Sent, Failed)
  BY DEF LedgerInv
<1>2. Elements(batch') = {} /\ Distinct(batch')
  BY NoElements
<1>3. Elements(batch) \subseteq Spans
  BY DEF ClientTypeOK, Elements
<1>4. Cardinality(Elements(batch)) = Len(batch)
  BY LenIsCardinality DEF ClientTypeOK, LedgerInv
<1>5. \A s \in Sent : s \notin Elements(batch)
  BY <1>1 DEF Ledger
<1>6. PICK Posted \in SUBSET Spans : Posted = Sent \cup Elements(batch)
  BY <1>3
<1>7. Cardinality(Posted) = sent'
  BY <1>1, <1>3, <1>5, <1>6, <1>4, DisjointUnion DEF Ledger
<1>8. Callers("queued")' = Callers("queued")
  BY DEF Callers
<1>9. Ledger(Posted, Failed)'
  BY <1>1, <1>2, <1>6, <1>7, <1>8 DEF Ledger
<1> QED
  BY <1>2, <1>9 DEF LedgerInv

LEMMA FailedKeepsLedger ==
    ASSUME ClientTypeOK, LedgerInv, batch' = <<>>, failed' = failed + Len(batch),
           Confirmed \subseteq Confirmed', Touched' \subseteq Touched \cup Elements(batch),
           UNCHANGED <<queue, call, sent, evicted>>
    PROVE  LedgerInv'
<1>1. PICK Sent \in SUBSET Spans, Failed \in SUBSET Spans : Ledger(Sent, Failed)
  BY DEF LedgerInv
<1>2. Elements(batch') = {} /\ Distinct(batch')
  BY NoElements
<1>3. Elements(batch) \subseteq Spans
  BY DEF ClientTypeOK, Elements
<1>4. Cardinality(Elements(batch)) = Len(batch)
  BY LenIsCardinality DEF ClientTypeOK, LedgerInv
<1>5. \A s \in Failed : s \notin Elements(batch)
  BY <1>1 DEF Ledger
<1>6. PICK Posted \in SUBSET Spans : Posted = Failed \cup Elements(batch)
  BY <1>3
<1>7. Cardinality(Posted) = failed'
  BY <1>1, <1>3, <1>5, <1>6, <1>4, DisjointUnion DEF Ledger
<1>8. Callers("queued")' = Callers("queued")
  BY DEF Callers
<1>9. Ledger(Sent, Posted)'
  BY <1>1, <1>2, <1>6, <1>7, <1>8 DEF Ledger
<1> QED
  BY <1>2, <1>9 DEF LedgerInv

\* Steps that put no span elsewhere.
LEMMA StayKeepsLedger ==
    ASSUME LedgerInv, Callers("queued")' = Callers("queued"),
           Confirmed \subseteq Confirmed', Touched' \subseteq Touched \cup Elements(batch),
           UNCHANGED <<queue, batch, sent, failed, evicted>>
    PROVE  LedgerInv'
<1>1. PICK Sent \in SUBSET Spans, Failed \in SUBSET Spans : Ledger(Sent, Failed)
  BY DEF LedgerInv
<1>2. Ledger(Sent, Failed)'
  BY <1>1 DEF Ledger
<1> QED
  BY <1>2 DEF LedgerInv

-----------------------------------------------------------------------------
(* Submits.                                                                *)

LEMMA SubmitKeeps == ASSUME ClientInv, NEW s \in Spans, Submit(s) PROVE ClientInv'
<1>1. /\ Cardinality(evicted) \in Nat /\ dropped \in Nat
      /\ Cardinality(Callers("lost")) \in Nat /\ Cardinality(Callers("counted")) \in Nat
      /\ Cardinality(Callers("evicted")) \in Nat
  BY FiniteSpans DEF ClientInv, ClientTypeOK, Callers
<1>2. /\ ClientTypeOK /\ LedgerInv /\ DropInv /\ Cardinality(evicted) \in Nat
  BY <1>1 DEF ClientInv
<1> DEFINE out == Cardinality(evicted)
           lost == Cardinality(Callers("lost"))
           counted == Cardinality(Callers("counted"))
           again == Cardinality(Callers("evicted"))
<1>3. /\ Balanced(out, lost, counted + 1, again, dropped + 1)
      /\ Balanced(out + 1, lost, counted - 1, again + 1, dropped)
      /\ Balanced(out, lost + 1, counted - 1, again, dropped)
      /\ Balanced(out, lost, counted, again - 1, dropped)
      /\ Balanced(out, lost + 1, counted, again - 1, dropped)
  BY <1>1, <1>2 DEF DropInv, Balanced
<1>4. ASSUME NEW from \in CallStates, NEW to \in CallStates, At(s, from, to)
      PROVE  UNCHANGED <<batch, sent, failed, server, Confirmed, Touched>>
  BY <1>4 DEF At, worker, server, Confirmed, Answered, Touched
<1>5. CASE Put(s)
  <2>1. At(s, "new", "queued") /\ queue' = Append(queue, s) /\ UNCHANGED <<dropped, evicted>>
    BY <1>5 DEF Put
  <2>2. LedgerInv'
    BY <1>2, <1>4, <2>1, CallMoves, EnqueueKeepsLedger DEF CallStates
  <2>3. DropInv'
    BY <1>2, <2>1, CallMoves DEF DropInv, CallStates
  <2>4. ClientTypeOK'
    BY <1>2, <1>4, <2>1, CallMoves, AppendElements
       DEF ClientTypeOK, ServerTypeOK, server, CallStates
  <2> QED
    BY <2>2, <2>3, <2>4 DEF ClientInv
<1>6. CASE PutFull(s)
  <2>1. At(s, "new", "full") /\ UNCHANGED <<queue, dropped, evicted>>
    BY <1>6 DEF PutFull
  <2>2. LedgerInv'
    BY <1>2, <1>4, <2>1, CallMoves, StayKeepsLedger DEF CallStates
  <2>3. DropInv'
    BY <1>2, <2>1, CallMoves DEF DropInv, CallStates
  <2>4. ClientTypeOK'
    BY <1>2, <1>4, <2>1, CallMoves DEF ClientTypeOK, ServerTypeOK, server, CallStates
  <2> QED
    BY <2>2, <2>3, <2>4 DEF ClientInv
<1>7. CASE CountDrop(s)
  <2>1. At(s, "full", "counted") /\ dropped' = dropped + 1 /\ UNCHANGED <<queue, evicted>>
    BY <1>7 DEF CountDrop
  <2>2. LedgerInv'
    BY <1>2, <1>4, <2>1, CallMoves, StayKeepsLedger DEF CallStates
  <2>3. /\ Cardinality(Callers("counted"))' = Cardinality(Callers("counted")) + 1
        /\ Callers("lost")' = Callers("lost") /\ Callers("evicted")' = Callers("evicted")
    BY <1>2, <2>1, CallMoves DEF CallStates
  <2>4. DropInv'
    BY <1>3, <2>1, <2>3 DEF DropInv
  <2>5. ClientTypeOK'
    BY <1>2, <1>4, <2>1, CallMoves DEF ClientTypeOK, ServerTypeOK, server, CallStates
  <2> QED
    BY <2>2, <2>4, <2>5 DEF ClientInv
<1>8. CASE EvictOldest(s)
  <2>1. /\ At(s, "counted", "evicted") /\ queue # <<>> /\ queue' = Tail(queue)
        /\ evicted' = evicted \cup {Head(queue)} /\ UNCHANGED dropped
    BY <1>8 DEF EvictOldest
  <2>2. /\ Cardinality(Callers("counted"))' = Cardinality(Callers("counted")) - 1
        /\ Cardinality(Callers("evicted"))' = Cardinality(Callers("evicted")) + 1
        /\ Callers("lost")' = Callers("lost") /\ Callers("queued")' = Callers("queued")
    BY <1>2, <2>1, CallMoves DEF CallStates
  <2>3. LedgerInv' /\ Head(queue) \in Callers("queued") \ evicted
    BY <1>2, <1>4, <2>1, <2>2, EvictKeepsLedger DEF CallStates
  <2>4. Cardinality(evicted') = Cardinality(evicted) + 1
    BY <1>2, <2>1, <2>3, FiniteSpans, FS_AddElement DEF ClientTypeOK
  <2>5. DropInv'
    BY <1>3, <2>1, <2>2, <2>4 DEF DropInv
  <2>6. ClientTypeOK'
    <3>1. queue' \in Seq(Spans) /\ evicted' \subseteq Spans
      BY <1>2, <2>1, TailElements DEF ClientTypeOK, LedgerInv
    <3> QED
      BY <1>2, <1>4, <2>1, <3>1, CallMoves DEF ClientTypeOK, ServerTypeOK, server, CallStates
  <2> QED
    BY <2>3, <2>5, <2>6 DEF ClientInv
<1>9. CASE EvictNothing(s)
  <2>1. At(s, "counted", "lost") /\ UNCHANGED <<queue, dropped, evicted>>
    BY <1>9 DEF EvictNothing
  <2>2. LedgerInv'
    BY <1>2, <1>4, <2>1, CallMoves, StayKeepsLedger DEF CallStates
  <2>3. /\ Cardinality(Callers("counted"))' = Cardinality(Callers("counted")) - 1
        /\ Cardinality(Callers("lost"))' = Cardinality(Callers("lost")) + 1
        /\ Callers("evicted")' = Callers("evicted")
    BY <1>2, <2>1, CallMoves DEF CallStates
  <2>4. DropInv'
    BY <1>3, <2>1, <2>3 DEF DropInv
  <2>5. ClientTypeOK'
    BY <1>2, <1>4, <2>1, CallMoves DEF ClientTypeOK, ServerTypeOK, server, CallStates
  <2> QED
    BY <2>2, <2>4, <2>5 DEF ClientInv
<1>10. CASE PutAgain(s)
  <2>1. At(s, "evicted", "queued") /\ queue' = Append(queue, s) /\ UNCHANGED <<dropped, evicted>>
    BY <1>10 DEF PutAgain
  <2>2. LedgerInv'
    BY <1>2, <1>4, <2>1, CallMoves, EnqueueKeepsLedger DEF CallStates
  <2>3. /\ Cardinality(Callers("evicted"))' = Cardinality(Callers("evicted")) - 1
        /\ Callers("lost")' = Callers("lost") /\ Callers("counted")' = Callers("counted")
    BY <1>2, <2>1, CallMoves DEF CallStates
  <2>4. DropInv'
    BY <1>3, <2>1, <2>3 DEF DropInv
  <2>5. ClientTypeOK'
    BY <1>2, <1>4, <2>1, CallMoves, AppendElements
       DEF ClientTypeOK, ServerTypeOK, server, CallStates
  <2> QED
    BY <2>2, <2>4, <2>5 DEF ClientInv
<1>11. CASE PutAgainFull(s)
  <2>1. At(s, "evicted", "lost") /\ UNCHANGED <<queue, dropped, evicted>>
    BY <1>11 DEF PutAgainFull
  <2>2. LedgerInv'
    BY <1>2, <1>4, <2>1, CallMoves, StayKeepsLedger DEF CallStates
  <2>3. /\ Cardinality(Callers("evicted"))' = Cardinality(Callers("evicted")) - 1
        /\ Cardinality(Callers("lost"))' = Cardinality(Callers("lost")) + 1
        /\ Callers("counted")' = Callers("counted")
    BY <1>2, <2>1, CallMoves DEF CallStates
  <2>4. DropInv'
    BY <1>3, <2>1, <2>3 DEF DropInv
  <2>5. ClientTypeOK'
    BY <1>2, <1>4, <2>1, CallMoves DEF ClientTypeOK, ServerTypeOK, server, CallStates
  <2> QED
    BY <2>2, <2>4, <2>5 DEF ClientInv
<1> QED
  BY <1>5, <1>6, <1>7, <1>8, <1>9, <1>10, <1>11 DEF Submit

-----------------------------------------------------------------------------
(* The worker thread, and the rest.                                        *)

\* No step of the worker loses a span that has to be counted as dropped.
LEMMA OtherStep ==
    ASSUME ClientInv, UNCHANGED <<call, dropped, evicted>>, LedgerInv',
           queue' \in Seq(Spans), batch' \in Seq(Spans), sent' \in Nat, failed' \in Nat,
           ServerTypeOK'
    PROVE  ClientInv'
<1>1. ClientTypeOK'
  BY DEF ClientInv, ClientTypeOK
<1>2. DropInv'
  BY DEF ClientInv, DropInv, Callers
<1> QED
  BY <1>1, <1>2 DEF ClientInv

\* Nothing happens at the server.
LEMMA ServerStays ==
    ASSUME ServerTypeOK, UNCHANGED server
    PROVE  UNCHANGED <<Confirmed, Touched>> /\ ServerTypeOK'
BY DEF server, Confirmed, Answered, Touched, ServerTypeOK

\* A transaction begins, with the spans of the batch.
LEMMA ServerOpens ==
    ASSUME ServerTypeOK, Elements(batch) \subseteq Spans, NEW answered \in BOOLEAN,
           open' = open \cup {Transaction(answered)}, UNCHANGED <<stored, undone>>
    PROVE  /\ Confirmed \subseteq Confirmed' /\ Touched' \subseteq Touched \cup Elements(batch)
           /\ answered => Elements(batch) \subseteq Confirmed'
           /\ ServerTypeOK'
<1> DEFINE t == Transaction(answered)
<1>1. /\ t \in Transactions
      /\ t.spans = Elements(batch) /\ t.answered = answered
  BY DEF Transaction, Transactions
<1>2. open' = open \cup {t}
  OBVIOUS
<1> HIDE DEF t
<1> QED
  BY <1>1, <1>2 DEF Confirmed, Answered, Touched, ServerTypeOK

\* A transaction ends.
LEMMA ServerEnds ==
    ASSUME ServerTypeOK, ServerCommits \/ ServerAborts
    PROVE  /\ Confirmed \subseteq Confirmed' /\ Touched' \subseteq Touched
           /\ ServerTypeOK'
<1>1. PICK t \in open :
         /\ open' = open \ {t}
         /\ \/ stored' = stored \cup t.spans /\ undone' = undone
            \/ stored' = stored /\ undone' = undone \cup t.spans
  BY DEF ServerCommits, ServerAborts
<1>2. t.spans \subseteq Spans
  BY DEF ServerTypeOK, Transactions
<1> QED
  BY <1>1, <1>2 DEF Confirmed, Answered, Touched, ServerTypeOK

LEMMA TakeKeeps == ASSUME ClientInv, Get \/ Drain PROVE ClientInv'
<1>1. /\ queue # <<>> /\ queue' = Tail(queue) /\ batch' = Append(batch, Head(queue))
      /\ UNCHANGED <<call, dropped, sent, failed, server, evicted>>
  BY DEF Get, Drain, submits
<1>2. ClientTypeOK /\ LedgerInv /\ ServerTypeOK
  BY DEF ClientInv, ClientTypeOK
<1>3. queue' \in Seq(Spans) /\ batch' \in Seq(Spans)
  BY <1>1, <1>2, TailElements, AppendElements DEF ClientTypeOK, LedgerInv
<1>4. LedgerInv'
  BY <1>1, <1>2, TakeKeepsLedger, ServerStays
<1> QED
  BY <1>1, <1>2, <1>3, <1>4, OtherStep, ServerStays DEF ClientTypeOK

LEMMA PostKeeps == ASSUME ClientInv, PostAccepted \/ Retry \/ GiveUp \/ PostRejected PROVE ClientInv'
<1>1. ClientTypeOK /\ LedgerInv /\ Elements(batch) \subseteq Spans /\ Len(batch) \in Nat
  BY DEF ClientInv, ClientTypeOK, Elements
<1>2. UNCHANGED <<queue, call, dropped, evicted>>
  BY DEF PostAccepted, Retry, GiveUp, PostRejected, AttemptFails, submits
<1>3. ASSUME Retry \/ GiveUp \/ PostRejected
      PROVE  /\ Confirmed \subseteq Confirmed' /\ Touched' \subseteq Touched \cup Elements(batch)
             /\ ServerTypeOK'
  <2>1. \/ UNCHANGED server
        \/ open' = open \cup {Transaction(FALSE)} /\ UNCHANGED <<stored, undone>>
    BY <1>3 DEF Retry, GiveUp, PostRejected, AttemptFails, server
  <2> QED
    BY <1>1, <2>1, ServerStays, ServerOpens DEF ClientTypeOK
<1>4. CASE PostAccepted
  <2>1. /\ batch' = <<>> /\ sent' = sent + Len(batch) /\ UNCHANGED failed
        /\ open' = open \cup {Transaction(TRUE)} /\ UNCHANGED <<stored, undone>>
    BY <1>4 DEF PostAccepted, EndPost
  <2>2. /\ Confirmed \subseteq Confirmed' /\ Touched' \subseteq Touched \cup Elements(batch)
        /\ Elements(batch) \subseteq Confirmed' /\ ServerTypeOK'
    BY <1>1, <2>1, ServerOpens DEF ClientTypeOK
  <2>3. LedgerInv'
    BY <1>1, <1>2, <2>1, <2>2, AcceptedKeepsLedger
  <2>4. batch' \in Seq(Spans) /\ sent' \in Nat
    BY <1>1, <2>1 DEF ClientTypeOK
  <2> QED
    BY <1>1, <1>2, <2>1, <2>2, <2>3, <2>4, OtherStep DEF ClientTypeOK
<1>5. CASE Retry
  <2>1. UNCHANGED <<batch, sent, failed>>
    BY <1>5 DEF Retry, AttemptFails
  <2>2. LedgerInv'
    BY <1>1, <1>2, <1>3, <1>5, <2>1, StayKeepsLedger DEF Callers
  <2> QED
    BY <1>1, <1>2, <1>3, <1>5, <2>1, <2>2, OtherStep DEF ClientTypeOK
<1>6. CASE GiveUp \/ PostRejected
  <2>1. batch' = <<>> /\ failed' = failed + Len(batch) /\ UNCHANGED sent
    BY <1>6 DEF GiveUp, PostRejected, AttemptFails, EndPost
  <2>2. LedgerInv'
    BY <1>1, <1>2, <1>3, <1>6, <2>1, FailedKeepsLedger
  <2>3. batch' \in Seq(Spans) /\ failed' \in Nat
    BY <1>1, <2>1 DEF ClientTypeOK
  <2> QED
    BY <1>1, <1>2, <1>3, <1>6, <2>1, <2>2, <2>3, OtherStep DEF ClientTypeOK
<1> QED
  BY <1>4, <1>5, <1>6

LEMMA ServerKeeps == ASSUME ClientInv, ServerCommits \/ ServerAborts PROVE ClientInv'
<1>1. UNCHANGED <<queue, call, dropped, evicted, batch, sent, failed>>
  BY DEF ServerCommits, ServerAborts, submits, worker
<1>2. ClientTypeOK /\ LedgerInv /\ ServerTypeOK
  BY DEF ClientInv, ClientTypeOK
<1>3. Confirmed \subseteq Confirmed' /\ Touched' \subseteq Touched /\ ServerTypeOK'
  BY <1>2, ServerEnds
<1>4. LedgerInv'
  BY <1>1, <1>2, <1>3, StayKeepsLedger DEF Callers
<1> QED
  BY <1>1, <1>2, <1>3, <1>4, OtherStep DEF ClientTypeOK

LEMMA IdleKeeps ==
    ASSUME ClientInv, UNCHANGED <<queue, call, dropped, evicted, batch, sent, failed, server>>
    PROVE  ClientInv'
<1>1. UNCHANGED <<Confirmed, Touched>> /\ ServerTypeOK'
  BY ServerStays DEF ClientInv, ClientTypeOK
<1>2. LedgerInv'
  BY <1>1, StayKeepsLedger DEF ClientInv, Callers
<1> QED
  BY <1>1, <1>2, OtherStep DEF ClientInv, ClientTypeOK

-----------------------------------------------------------------------------
(* The theorems.                                                           *)

LEMMA ClientStart == Init => ClientInv
<1> SUFFICES ASSUME Init PROVE ClientInv
  OBVIOUS
<1>1. ClientTypeOK
  BY DEF Init, ClientTypeOK, ServerTypeOK, CallStates
<1>2. Callers("queued") = {} /\ Callers("lost") = {} /\ Callers("counted") = {} /\ Callers("evicted") = {}
  BY DEF Init, Callers
<1>3. Cardinality({}) = 0
  BY FS_EmptySet
<1>4. Ledger({}, {})
  BY <1>2, <1>3, NoElements DEF Init, Ledger, Touched
<1>5. LedgerInv
  BY <1>4, NoElements DEF Init, LedgerInv
<1>6. DropInv
  <2>1. Balanced(0, 0, 0, 0, 0)
    BY DEF Balanced
  <2> QED
    BY <1>2, <1>3, <2>1 DEF Init, DropInv
<1> QED
  BY <1>1, <1>5, <1>6 DEF ClientInv

LEMMA ClientStep == ClientInv /\ [Next]_vars => ClientInv'
<1> SUFFICES ASSUME ClientInv, [Next]_vars PROVE ClientInv'
  OBVIOUS
<1>1. ASSUME IntervalPasses \/ CheckStop \/ GetTimesOut \/ DrainEnds \/ Shutdown \/ JoinReturns
             \/ UNCHANGED vars
      PROVE  UNCHANGED <<queue, call, dropped, evicted, batch, sent, failed, server>>
  BY <1>1 DEF IntervalPasses, CheckStop, GetTimesOut, DrainEnds, Shutdown, JoinReturns, vars, submits, worker, server
<1> QED
  BY <1>1, SubmitKeeps, TakeKeeps, PostKeeps, ServerKeeps, IdleKeeps DEF Next, Worker

\* The types, the ledger of where each span is, and the count of the drops hold in
\* every reachable state, for any number of threads and sizes of queue and batch.
THEOREM ClientInvHolds == Spec => []ClientInv
BY ClientStart, ClientStep, PTL DEF Spec

\* However many threads race at a full queue, the counters account for every span
\* that entered it, and no loss is silent.
THEOREM SpansAreAccounted == Spec => []EverySpanAccounted
<1>1. ClientInv => EverySpanAccounted
  <2> SUFFICES ASSUME ClientInv PROVE EverySpanAccounted
    OBVIOUS
  <2>1. ClientTypeOK /\ LedgerInv /\ DropInv
    BY DEF ClientInv
  <2>2. PICK Sent \in SUBSET Spans, Failed \in SUBSET Spans : Ledger(Sent, Failed)
    BY <2>1 DEF LedgerInv
  <2> DEFINE Q == Elements(queue)
             B == Elements(batch)
  <2>3. Q \in SUBSET Spans /\ B \in SUBSET Spans /\ evicted \in SUBSET Spans
    BY <2>1 DEF ClientTypeOK, Elements
  <2>4. Cardinality(Q) = Len(queue) /\ Cardinality(B) = Len(batch)
    BY <2>1, LenIsCardinality DEF ClientTypeOK, LedgerInv
  <2>5. /\ \A s \in Q : s \notin B \cup Sent \cup Failed \cup evicted
        /\ \A s \in B : s \notin Sent \cup Failed \cup evicted
        /\ \A s \in Sent : s \notin Failed \cup evicted
        /\ \A s \in Failed : s \notin evicted
        /\ Cardinality(Sent) = sent /\ Cardinality(Failed) = failed
        /\ Queued = Q \cup B \cup Sent \cup Failed \cup evicted
    BY <2>2 DEF Ledger, Queued, Callers
  <2> HIDE DEF Q, B
  <2>6. Cardinality(Failed \cup evicted) = failed + Cardinality(evicted)
    BY <2>3, <2>5, DisjointUnion
  <2>7. Cardinality(Sent \cup (Failed \cup evicted)) = sent + Cardinality(Failed \cup evicted)
    BY <2>3, <2>5, DisjointUnion
  <2>8. Cardinality(B \cup (Sent \cup (Failed \cup evicted))) =
           Len(batch) + Cardinality(Sent \cup (Failed \cup evicted))
    BY <2>3, <2>4, <2>5, DisjointUnion
  <2>9. Cardinality(Q \cup (B \cup (Sent \cup (Failed \cup evicted)))) =
           Len(queue) + Cardinality(B \cup (Sent \cup (Failed \cup evicted)))
    <3>1. /\ B \cup (Sent \cup (Failed \cup evicted)) \in SUBSET Spans
          /\ \A s \in Q : s \notin B \cup (Sent \cup (Failed \cup evicted))
      BY <2>3, <2>5
    <3> QED
      BY <2>3, <2>4, <3>1, DisjointUnion
  <2>10. Queued = Q \cup (B \cup (Sent \cup (Failed \cup evicted)))
    BY <2>5
  <2>11. /\ Len(queue) \in Nat /\ Len(batch) \in Nat /\ sent \in Nat /\ failed \in Nat
         /\ Cardinality(evicted) \in Nat /\ dropped \in Nat
    BY <2>1, <2>3, FiniteSpans DEF ClientTypeOK
  <2>12. Cardinality(Queued) = Len(queue) + Len(batch) + sent + failed + Cardinality(evicted)
    BY <2>6, <2>7, <2>8, <2>9, <2>10, <2>11
  <2>13. Cardinality(Lost) = Cardinality(evicted) + Cardinality(Callers("lost"))
    <3>1. \A s \in evicted : s \notin Callers("lost")
      BY <2>5 DEF Queued, Callers
    <3>2. Lost = evicted \cup Callers("lost") /\ Callers("lost") \in SUBSET Spans
      BY DEF Lost, Callers
    <3> QED
      BY <2>3, <3>1, <3>2, DisjointUnion
  <2> DEFINE dropping == {s \in Spans : call[s] \in {"counted", "evicted"}}
  <2>14. Cardinality(Callers("counted")) <= Cardinality(dropping)
    <3>1. Callers("counted") \in SUBSET dropping /\ dropping \in SUBSET Spans
      BY DEF Callers
    <3> QED
      BY <3>1, FiniteSpans, FS_Subset
  <2>15. /\ Cardinality(Callers("counted")) \in Nat /\ Cardinality(Callers("lost")) \in Nat
         /\ Cardinality(Callers("evicted")) \in Nat /\ Cardinality(dropping) \in Nat
    BY FiniteSpans DEF Callers
  <2>16. /\ Cardinality(Lost) <= 2 * dropped
         /\ dropped <= Cardinality(Lost) + Cardinality(dropping)
    <3> HIDE DEF dropping
    <3> QED
      BY <2>1, <2>11, <2>13, <2>14, <2>15 DEF DropInv, Balanced
  <2> QED
    BY <2>12, <2>16 DEF EverySpanAccounted, stats
<1> QED
  BY <1>1, ClientInvHolds, PTL

\* Whatever is retried, whichever answers are lost and whichever commits fail after
\* their answer: a span counted as sent has been answered for, and is stored unless
\* its transaction has not ended or was undone; a dropped span is not stored.
THEOREM CountsAlwaysHold == Spec => []CountsHold
<1>1. ClientInv => CountsHold
  <2> SUFFICES ASSUME ClientInv PROVE CountsHold
    OBVIOUS
  <2>1. PICK Sent \in SUBSET Spans, Failed \in SUBSET Spans : Ledger(Sent, Failed)
    BY DEF ClientInv, LedgerInv
  <2>2. IsFiniteSet(Confirmed)
    BY FiniteSpans DEF ClientInv, ClientTypeOK, ServerTypeOK, Confirmed, Answered
  <2>3. sent <= Cardinality(Confirmed)
    BY <2>1, <2>2, FS_Subset DEF Ledger
  <2>4. \A s \in Lost : s \notin Touched
    <3>1. \A s \in Touched : s \in Callers("queued") /\ s \notin evicted
      BY <2>1 DEF Ledger
    <3> QED
      BY <3>1 DEF Lost, Callers
  <2>5. \A s \in Lost : s \in Spans
    BY DEF Lost, ClientInv, ClientTypeOK
  <2> QED
    BY <2>3, <2>4, <2>5 DEF CountsHold, Confirmed, Touched
<1> QED
  BY <1>1, ClientInvHolds, PTL

-----------------------------------------------------------------------------
(* Alert rules: the types, and what each pass knows.                       *)

Ages == 0..Cooldown
Statuses == {"new", "enabled", "disabled", "deleted", "clean"}
Rows == [status : Statuses, age : Ages, failures : Nat]

RulesTypeOK ==
    /\ rule \in [Rules -> Rows]
    /\ \A r \in Rules : rule[r].status # "clean"
    /\ pc \in [Passes -> {"idle", "check", "posting", "waiting", "commit"}]
    /\ todo \in [Passes -> Seq(Rules)]
    /\ loaded \in [Passes -> [Rules -> Rows]]
    /\ stamp \in [Passes -> Ages]
    /\ dirty \in [Passes -> [Rules -> Rows]]
    /\ since \in [Rules -> Ages]

\* A rule that is still to be done has not been written yet.
PassInv(p) ==
    /\ Distinct(todo[p])
    /\ pc[p] = "idle" => dirty[p] = NoRows
    /\ pc[p] \in {"check", "posting", "waiting"} => todo[p] # <<>>
    /\ \A r \in Elements(todo[p]) : dirty[p][r].status = "clean"

Doing(p, r) == pc[p] \in {"posting", "waiting"} /\ Head(todo[p]) = r

\* The time of the last notification of the rule is in the row that the pass has
\* written, in the stamp it is about to write, or in the row it has read.
Kept(p, r) ==
    /\ dirty[p][r].status # "clean" => dirty[p][r].age = since[r]
    /\ dirty[p][r].status = "clean" /\ Doing(p, r) => stamp[p] = since[r]
    /\ dirty[p][r].status = "clean" /\ ~Doing(p, r) =>
          /\ rule[r].status # "deleted" => rule[r].age = since[r]
          /\ r \in Elements(todo[p]) => loaded[p][r].age = since[r]

RowKept(r) == rule[r].status # "deleted" => rule[r].age = since[r]

\* While a rule is in its cooldown, no two passes overlap.
RuleInv(r) ==
    since[r] < Cooldown =>
       /\ \A p \in Passes : pc[p] # "idle" => Alone(p) /\ Kept(p, r)
       /\ (\A p \in Passes : pc[p] = "idle") => RowKept(r)

CooldownInv ==
    /\ RulesTypeOK
    /\ \A p \in Passes : PassInv(p)
    /\ \A r \in Rules : RuleInv(r)

LEMMA NoRowsType == NoRows \in [Rules -> Rows] /\ Forgotten \in [Rules -> Ages] /\ Clean \in Rows
<1>1. Cooldown \in Ages /\ 0 \in Nat
  BY AlertRulesAssumption DEF Ages
<1>2. Clean \in Rows
  BY <1>1 DEF Clean, Rows, Statuses
<1> QED
  BY <1>1, <1>2 DEF NoRows, Forgotten

\* A step of one pass, seen from the others.
LEMMA PassMoves ==
    ASSUME CooldownInv, RulesTypeOK', NEW p \in Passes, PassInv(p)',
           \A o \in Passes \ {p} : /\ pc'[o] = pc[o] /\ todo'[o] = todo[o]
                                   /\ dirty'[o] = dirty[o],
           \A r \in Rules : since'[r] < Cooldown =>
              /\ Alone(p)
              /\ pc'[p] # "idle" => Kept(p, r)'
              /\ pc'[p] = "idle" => RowKept(r)'
    PROVE  CooldownInv'
<1>1. \A o \in Passes : PassInv(o)'
  <2> SUFFICES ASSUME NEW o \in Passes \ {p} PROVE PassInv(o)'
    OBVIOUS
  <2> QED
    BY DEF CooldownInv, PassInv
<1>2. ASSUME NEW r \in Rules, since'[r] < Cooldown
      PROVE  RuleInv(r)'
  <2>1. /\ \A o \in Passes \ {p} : pc'[o] = "idle"
        /\ pc'[p] # "idle" => Kept(p, r)'
        /\ pc'[p] = "idle" => RowKept(r)'
    BY <1>2 DEF Alone
  <2>2. ASSUME NEW o \in Passes, pc'[o] # "idle" PROVE Alone(o)' /\ Kept(o, r)'
    BY <2>1, <2>2 DEF Alone
  <2>3. (\A o \in Passes : pc'[o] = "idle") => RowKept(r)'
    BY <2>1
  <2> QED
    BY <2>2, <2>3 DEF RuleInv
<1>3. \A r \in Rules : RuleInv(r)'
  BY <1>2 DEF RuleInv
<1> QED
  BY <1>1, <1>3 DEF CooldownInv

LEMMA OlderIsAge ==
    ASSUME NEW x \in Ages
    PROVE  /\ Older(x) \in Ages /\ Older(Cooldown) = Cooldown
           /\ Older(x) < Cooldown => x < Cooldown
BY AlertRulesAssumption DEF Older, Ages

LEMMA OlderRowsType ==
    ASSUME NEW rows \in [Rules -> Rows]
    PROVE  /\ OlderRows(rows) \in [Rules -> Rows]
           /\ \A r \in Rules : /\ OlderRows(rows)[r].status = rows[r].status
                               /\ OlderRows(rows)[r].age = Older(rows[r].age)
<1>1. ASSUME NEW r \in Rules
      PROVE  /\ OlderRows(rows)[r] = [rows[r] EXCEPT !.age = Older(@)]
             /\ OlderRows(rows)[r].status = rows[r].status
             /\ OlderRows(rows)[r].age = Older(rows[r].age)
             /\ OlderRows(rows)[r] \in Rows
  <2>1. OlderRows(rows)[r] = [rows[r] EXCEPT !.age = Older(@)]
    BY DEF OlderRows
  <2>2. rows[r] \in Rows /\ rows[r].age \in Ages
    BY DEF Rows
  <2>3. Older(rows[r].age) \in Ages
    BY <2>2, OlderIsAge
  <2> QED
    BY <2>1, <2>2, <2>3 DEF Rows
<1> QED
  BY <1>1 DEF OlderRows

LEMMA TickKeeps == ASSUME CooldownInv, Tick PROVE CooldownInv'
<1>1. /\ rule' = OlderRows(rule) /\ UNCHANGED <<pc, todo>>
      /\ \A p \in Passes : /\ loaded'[p] = OlderRows(loaded[p])
                           /\ dirty'[p] = OlderRows(dirty[p])
                           /\ stamp'[p] = Older(stamp[p])
      /\ \A r \in Rules : since'[r] = Older(since[r])
  BY DEF Tick
<1>2. RulesTypeOK
  BY DEF CooldownInv
<1>3. RulesTypeOK'
  <2>1. /\ loaded' \in [Passes -> [Rules -> Rows]] /\ dirty' \in [Passes -> [Rules -> Rows]]
        /\ rule' \in [Rules -> Rows]
    BY <1>2, OlderRowsType DEF Tick, RulesTypeOK
  <2>2. stamp' \in [Passes -> Ages] /\ since' \in [Rules -> Ages]
    BY <1>2, OlderIsAge DEF Tick, RulesTypeOK
  <2>3. \A r \in Rules : rule'[r].status # "clean"
    BY <1>1, <1>2, OlderRowsType DEF RulesTypeOK
  <2> QED
    BY <1>1, <1>2, <2>1, <2>2, <2>3 DEF RulesTypeOK
<1>4. OlderRows(NoRows) = NoRows
  <2>1. [Clean EXCEPT !.age = Older(@)] = Clean
    BY AlertRulesAssumption DEF Clean, Older
  <2> QED
    BY <2>1 DEF OlderRows, NoRows
<1>5. \A p \in Passes, r \in Rules :
         /\ dirty'[p][r].status = dirty[p][r].status
         /\ dirty'[p][r].age = Older(dirty[p][r].age)
         /\ loaded'[p][r].age = Older(loaded[p][r].age)
  <2> SUFFICES ASSUME NEW p \in Passes
      PROVE  \A r \in Rules : /\ dirty'[p][r].status = dirty[p][r].status
                             /\ dirty'[p][r].age = Older(dirty[p][r].age)
                             /\ loaded'[p][r].age = Older(loaded[p][r].age)
    OBVIOUS
  <2>1. loaded[p] \in [Rules -> Rows] /\ dirty[p] \in [Rules -> Rows]
    BY <1>2 DEF RulesTypeOK
  <2> QED
    BY <1>1, <2>1, OlderRowsType
<1>6. \A r \in Rules : rule'[r].status = rule[r].status /\ rule'[r].age = Older(rule[r].age)
  BY <1>1, <1>2, OlderRowsType DEF RulesTypeOK
<1>7. ASSUME NEW p \in Passes PROVE PassInv(p)'
  <2>1. Elements(todo[p]) \subseteq Rules
    BY <1>2 DEF RulesTypeOK, Elements
  <2>2. PassInv(p)
    BY DEF CooldownInv
  <2> QED
    BY <1>1, <1>4, <1>5, <2>1, <2>2 DEF PassInv
<1>8. ASSUME NEW r \in Rules, since'[r] < Cooldown PROVE RuleInv(r)'
  <2>1. since[r] < Cooldown
    BY <1>1, <1>2, <1>8, OlderIsAge DEF RulesTypeOK
  <2>2. RuleInv(r)
    BY DEF CooldownInv
  <2>3. ASSUME NEW p \in Passes, pc'[p] # "idle" PROVE Alone(p)' /\ Kept(p, r)'
    <3>1. Alone(p) /\ Kept(p, r)
      BY <1>1, <2>1, <2>2, <2>3 DEF RuleInv
    <3>2. Doing(p, r)' <=> Doing(p, r)
      BY <1>1 DEF Doing
    <3> QED
      BY <1>1, <1>5, <1>6, <3>1, <3>2 DEF Alone, Kept
  <2>4. (\A p \in Passes : pc'[p] = "idle") => RowKept(r)'
    BY <1>1, <1>6, <2>1, <2>2 DEF RuleInv, RowKept
  <2> QED
    BY <2>3, <2>4 DEF RuleInv
<1> QED
  BY <1>3, <1>7, <1>8 DEF CooldownInv, RuleInv

\* The API, between two steps of the passes.
LEMMA ApiKeeps ==
    ASSUME CooldownInv, NEW r \in Rules, Create(r) \/ Delete(r) PROVE CooldownInv'
<1>1. /\ UNCHANGED <<pc, todo, loaded, stamp, dirty, since>>
      /\ \A x \in Rules \ {r} : rule'[x] = rule[x]
  BY DEF Create, Delete, own, CooldownInv, RulesTypeOK
<1>2. RulesTypeOK
  BY DEF CooldownInv
<1>3. /\ rule'[r] \in Rows /\ rule'[r].status # "clean"
      /\ \/ rule'[r].age = rule[r].age /\ rule[r].status # "deleted"
         \/ /\ rule'[r].status = "deleted"
            /\ \A p \in Passes : dirty[p][r].status = "clean"
  <2>1. CASE Create(r)
    <3>1. rule'[r] = [rule[r] EXCEPT !.status = "enabled"] /\ rule[r].status = "new"
      BY <1>2, <2>1 DEF Create, RulesTypeOK
    <3> QED
      BY <1>2, <3>1 DEF RulesTypeOK, Rows, Statuses
  <2>2. CASE Delete(r)
    <3>1. rule'[r] = [Clean EXCEPT !.status = "deleted"]
      BY <1>2, <2>2 DEF Delete, RulesTypeOK
    <3>2. \A p \in Passes : dirty[p][r].status = "clean"
      BY <2>2 DEF Delete, Held
    <3> QED
      BY <3>1, <3>2, NoRowsType DEF Rows, Statuses
  <2> QED
    BY <2>1, <2>2
<1>4. RulesTypeOK'
  <2>1. rule' \in [Rules -> Rows]
    <3>1. rule' = [x \in Rules |-> rule'[x]]
      BY <1>2 DEF Create, Delete, RulesTypeOK
    <3> QED
      BY <1>1, <1>2, <1>3, <3>1 DEF RulesTypeOK
  <2>2. \A x \in Rules : rule'[x].status # "clean"
    BY <1>1, <1>2, <1>3 DEF RulesTypeOK
  <2> QED
    BY <1>1, <1>2, <2>1, <2>2 DEF RulesTypeOK
<1>5. \A p \in Passes : PassInv(p)'
  BY <1>1 DEF CooldownInv, PassInv
<1>6. ASSUME NEW x \in Rules, RowKept(x) PROVE RowKept(x)'
  BY <1>1, <1>3, <1>6 DEF RowKept
<1>7. ASSUME NEW x \in Rules, NEW p \in Passes, Kept(p, x) PROVE Kept(p, x)'
  <2>1. Doing(p, x)' <=> Doing(p, x)
    BY <1>1 DEF Doing
  <2> QED
    BY <1>1, <1>6, <1>7, <2>1 DEF Kept, RowKept
<1>8. ASSUME NEW x \in Rules PROVE RuleInv(x)'
  <2>1. RuleInv(x)
    BY DEF CooldownInv
  <2> QED
    BY <1>1, <1>6, <1>7, <2>1 DEF RuleInv, Alone
<1> QED
  BY <1>4, <1>5, <1>8 DEF CooldownInv

-----------------------------------------------------------------------------
(* The steps of a pass.                                                    *)

LEMMA BeginPassKeeps ==
    ASSUME CooldownInv, NEW p \in Passes, BeginPass(p) PROVE CooldownInv'
<1>1. RulesTypeOK /\ PassInv(p)
  BY DEF CooldownInv
<1>2. PICK order \in SetToSeqs(Enabled) : todo' = [todo EXCEPT ![p] = order]
  BY DEF BeginPass
<1>3. /\ order \in Seq(Rules) /\ Distinct(order) /\ order # <<>>
      /\ \A r \in Elements(order) : r \in Enabled
  <2>1. IsFiniteSet(Enabled) /\ Enabled # {} /\ Enabled \subseteq Rules
    BY AlertRulesAssumption, FS_Subset DEF BeginPass, Enabled
  <2>2. Cardinality(Enabled) \in Nat /\ Cardinality(Enabled) # 0
    BY <2>1, FS_CardinalityType, FS_EmptySet
  <2>3. /\ order \in [1..Cardinality(Enabled) -> Enabled]
        /\ \A i, j \in 1..Cardinality(Enabled) : i # j => order[i] # order[j]
    BY DEF SetToSeqs
  <2>4. Distinct(order) /\ \A r \in Elements(order) : r \in Enabled
    BY <2>3 DEF Distinct, Elements
  <2>5. order \in Seq(Rules)
    BY <2>1, <2>2, <2>3
  <2>6. order # <<>>
    BY <2>2, <2>3
  <2> QED
    BY <2>4, <2>5, <2>6
<1>4. /\ pc' = [pc EXCEPT ![p] = "check"] /\ pc[p] = "idle"
      /\ loaded' = [loaded EXCEPT ![p] = [r \in Rules |-> IF r \in Enabled THEN rule[r] ELSE Clean]]
      /\ since' = IF Alone(p) THEN since ELSE Forgotten
      /\ UNCHANGED <<rule, stamp, dirty>>
  BY DEF BeginPass
<1>5. /\ pc'[p] = "check" /\ todo'[p] = order /\ dirty'[p] = NoRows
      /\ \A r \in Enabled : loaded'[p][r] = rule[r]
      /\ \A o \in Passes \ {p} : pc'[o] = pc[o] /\ todo'[o] = todo[o] /\ dirty'[o] = dirty[o]
  BY <1>1, <1>2, <1>4 DEF RulesTypeOK, PassInv, Enabled
<1>6. RulesTypeOK'
  <2>1. [r \in Rules |-> IF r \in Enabled THEN rule[r] ELSE Clean] \in [Rules -> Rows]
    BY <1>1, NoRowsType DEF RulesTypeOK
  <2>2. loaded' \in [Passes -> [Rules -> Rows]]
    BY <1>1, <1>4, <2>1 DEF RulesTypeOK
  <2>3. since' \in [Rules -> Ages]
    BY <1>1, <1>4, NoRowsType DEF RulesTypeOK
  <2> QED
    BY <1>1, <1>2, <1>3, <1>4, <2>2, <2>3 DEF RulesTypeOK
<1>7. \A r \in Rules : NoRows[r].status = "clean"
  BY DEF NoRows, Clean
<1>8. PassInv(p)'
  <2>1. Elements(order) \subseteq Rules
    BY <1>3 DEF Enabled
  <2> QED
    BY <1>3, <1>5, <1>7, <2>1 DEF PassInv
<1>9. ASSUME NEW r \in Rules, since'[r] < Cooldown
      PROVE  Alone(p) /\ Kept(p, r)'
  <2>1. Alone(p) /\ since' = since
    BY <1>4, <1>9, AlertRulesAssumption DEF Forgotten
  <2>2. RowKept(r)
    BY <1>4, <1>9, <2>1 DEF CooldownInv, RuleInv, Alone
  <2>3. dirty'[p][r].status = "clean" /\ ~Doing(p, r)'
    BY <1>5, <1>7 DEF Doing
  <2>4. r \in Elements(order) => loaded'[p][r] = rule[r] /\ rule[r].status = "enabled"
    BY <1>3, <1>5 DEF Enabled
  <2> QED
    BY <1>4, <1>5, <2>1, <2>2, <2>3, <2>4 DEF Kept, RowKept
<1> QED
  BY <1>5, <1>6, <1>8, <1>9, PassMoves

\* What NextRule does to its pass.
LEMMA NextRuleMoves ==
    ASSUME RulesTypeOK, NEW p \in Passes, PassInv(p), todo[p] # <<>>, NextRule(p)
    PROVE  /\ pc' \in [Passes -> {"idle", "check", "posting", "waiting", "commit"}]
           /\ todo' \in [Passes -> Seq(Rules)] /\ loaded' \in [Passes -> [Rules -> Rows]]
           /\ stamp' \in [Passes -> Ages]
           /\ Head(todo[p]) \in Rules /\ Head(todo[p]) \in Elements(todo[p])
           /\ pc'[p] \in {"check", "commit"} /\ (pc'[p] = "check" => todo'[p] # <<>>)
           /\ Distinct(todo'[p])
           /\ Elements(todo'[p]) = Elements(todo[p]) \ {Head(todo[p])}
           /\ \A r \in Rules \ {Head(todo[p])} : loaded'[p][r] = loaded[p][r]
           /\ \A o \in Passes \ {p} : pc'[o] = pc[o] /\ todo'[o] = todo[o]
<1> DEFINE q == todo[p]
<1>1. q \in Seq(Rules) /\ Distinct(q) /\ q # <<>>
  BY DEF RulesTypeOK, PassInv
<1>2. /\ Tail(q) \in Seq(Rules) /\ Head(q) \in Rules /\ Head(q) \in Elements(q)
      /\ Elements(Tail(q)) = Elements(q) \ {Head(q)} /\ Distinct(Tail(q))
  BY <1>1, TailElements
<1>3. /\ todo' = [todo EXCEPT ![p] = Tail(q)]
      /\ pc' = [pc EXCEPT ![p] = IF Tail(q) = <<>> THEN "commit" ELSE "check"]
      /\ stamp' = [stamp EXCEPT ![p] = Cooldown]
      /\ loaded' = [loaded EXCEPT ![p] = [loaded[p] EXCEPT ![Head(q)] = Clean]]
  BY DEF NextRule
<1> HIDE DEF q
<1>4. /\ [loaded[p] EXCEPT ![Head(q)] = Clean] \in [Rules -> Rows]
      /\ \A r \in Rules \ {Head(q)} : [loaded[p] EXCEPT ![Head(q)] = Clean][r] = loaded[p][r]
  <2>1. loaded[p] \in [Rules -> Rows]
    BY DEF RulesTypeOK
  <2> QED
    BY <2>1, NoRowsType
<1>5. loaded' \in [Passes -> [Rules -> Rows]]
  BY <1>3, <1>4 DEF RulesTypeOK
<1>6. loaded'[p] = [loaded[p] EXCEPT ![Head(q)] = Clean]
  BY <1>3 DEF RulesTypeOK
<1>7. /\ pc' \in [Passes -> {"idle", "check", "posting", "waiting", "commit"}]
      /\ pc'[p] \in {"check", "commit"} /\ (pc'[p] = "check" => Tail(q) # <<>>)
      /\ \A o \in Passes \ {p} : pc'[o] = pc[o]
  <2>1. PICK to \in {"check", "commit"} : /\ pc' = [pc EXCEPT ![p] = to]
                                          /\ to = "check" => Tail(q) # <<>>
    BY <1>3, ZenonT(20)
  <2> QED
    BY <2>1 DEF RulesTypeOK
<1>8. /\ todo' \in [Passes -> Seq(Rules)] /\ todo'[p] = Tail(q)
      /\ \A o \in Passes \ {p} : todo'[o] = todo[o]
  BY <1>2, <1>3 DEF RulesTypeOK
<1>9. stamp' \in [Passes -> Ages]
  <2>1. Cooldown \in Ages
    BY AlertRulesAssumption DEF Ages
  <2> QED
    BY <1>3, <2>1 DEF RulesTypeOK
<1> QED
  BY <1>2, <1>4, <1>5, <1>6, <1>7, <1>8, <1>9 DEF q

LEMMA QuietKeeps ==
    ASSUME CooldownInv, NEW p \in Passes, Quiet(p) PROVE CooldownInv'
<1>1. RulesTypeOK /\ PassInv(p)
  BY DEF CooldownInv
<1>2. pc[p] = "check" /\ NextRule(p) /\ UNCHANGED <<rule, dirty, since>> /\ todo[p] # <<>>
  BY <1>1 DEF Quiet, PassInv
<1>3. RulesTypeOK'
  BY <1>1, <1>2, NextRuleMoves DEF RulesTypeOK
<1>4. PassInv(p)'
  <2>1. \A r \in Elements(todo'[p]) : dirty'[p][r].status = "clean"
    BY <1>1, <1>2, NextRuleMoves DEF PassInv
  <2> QED
    BY <1>1, <1>2, <2>1, NextRuleMoves DEF PassInv
<1>5. ASSUME NEW r \in Rules, since'[r] < Cooldown
      PROVE  Alone(p) /\ Kept(p, r)'
  <2>1. Alone(p) /\ Kept(p, r)
    BY <1>2, <1>5 DEF CooldownInv, RuleInv
  <2>2. ~Doing(p, r) /\ ~Doing(p, r)'
    BY <1>1, <1>2, NextRuleMoves DEF Doing
  <2>3. r \in Elements(todo'[p]) => r \in Elements(todo[p]) /\ loaded'[p][r] = loaded[p][r]
    BY <1>1, <1>2, NextRuleMoves
  <2> QED
    BY <1>2, <2>1, <2>2, <2>3 DEF Kept
<1>6. pc'[p] # "idle" /\ \A o \in Passes \ {p} : pc'[o] = pc[o] /\ todo'[o] = todo[o] /\ dirty'[o] = dirty[o]
  BY <1>1, <1>2, NextRuleMoves
<1> QED
  BY <1>3, <1>4, <1>5, <1>6, PassMoves

LEMMA NotifyKeeps ==
    ASSUME CooldownInv, NEW p \in Passes, Notify(p) PROVE CooldownInv'
<1> DEFINE h == Head(todo[p])
<1>1. RulesTypeOK /\ PassInv(p)
  BY DEF CooldownInv
<1>2. /\ pc[p] = "check" /\ pc' = [pc EXCEPT ![p] = "posting"]
      /\ stamp' = [stamp EXCEPT ![p] = 0]
      /\ since' = IF Alone(p) THEN [since EXCEPT ![h] = 0] ELSE since
      /\ UNCHANGED <<rule, todo, loaded, dirty>>
  BY DEF Notify
<1>3. h \in Rules /\ h \in Elements(todo[p])
  BY <1>1, <1>2, TailElements DEF RulesTypeOK, PassInv
<1> HIDE DEF h
<1>4. 0 \in Ages
  BY AlertRulesAssumption DEF Ages
<1>5. /\ pc'[p] = "posting" /\ stamp'[p] = 0
      /\ \A o \in Passes \ {p} : pc'[o] = pc[o]
  BY <1>1, <1>2 DEF RulesTypeOK
<1>6. RulesTypeOK'
  BY <1>1, <1>2, <1>4 DEF RulesTypeOK
<1>7. PassInv(p)'
  BY <1>1, <1>2, <1>5 DEF PassInv
<1>8. ASSUME NEW r \in Rules, since'[r] < Cooldown
      PROVE  Alone(p) /\ Kept(p, r)'
  <2>1. CASE r = h /\ Alone(p)
    <3>1. since'[r] = 0 /\ stamp'[p] = 0 /\ dirty'[p][r].status = "clean"
      BY <1>1, <1>2, <1>3, <1>5, <2>1 DEF RulesTypeOK, PassInv
    <3>2. Doing(p, r)'
      BY <1>2, <1>5, <2>1 DEF Doing, h
    <3> QED
      BY <2>1, <3>1, <3>2 DEF Kept
  <2>2. CASE ~(r = h /\ Alone(p))
    <3>1. since'[r] = since[r]
      BY <1>1, <1>2, <2>2 DEF RulesTypeOK
    <3>2. Alone(p) /\ Kept(p, r)
      BY <1>2, <1>8, <3>1 DEF CooldownInv, RuleInv
    <3>3. ~Doing(p, r) /\ ~Doing(p, r)'
      BY <1>2, <2>2, <3>2 DEF Doing, h
    <3> QED
      BY <1>2, <3>1, <3>2, <3>3 DEF Kept
  <2> QED
    BY <2>1, <2>2
<1> QED
  BY <1>2, <1>5, <1>6, <1>7, <1>8, PassMoves

LEMMA WaitKeeps ==
    ASSUME CooldownInv, NEW p \in Passes, Wait(p) PROVE CooldownInv'
<1>1. RulesTypeOK /\ PassInv(p)
  BY DEF CooldownInv
<1>2. /\ pc[p] = "posting" /\ pc' = [pc EXCEPT ![p] = "waiting"]
      /\ UNCHANGED <<rule, todo, loaded, stamp, dirty, since>>
  BY DEF Wait, own
<1>3. pc'[p] = "waiting" /\ \A o \in Passes \ {p} : pc'[o] = pc[o]
  BY <1>1, <1>2 DEF RulesTypeOK
<1>4. RulesTypeOK'
  BY <1>1, <1>2 DEF RulesTypeOK
<1>5. PassInv(p)'
  BY <1>1, <1>2, <1>3 DEF PassInv
<1>6. ASSUME NEW r \in Rules, since'[r] < Cooldown
      PROVE  Alone(p) /\ Kept(p, r)'
  <2>1. Alone(p) /\ Kept(p, r)
    BY <1>2, <1>6 DEF CooldownInv, RuleInv
  <2>2. Doing(p, r)' <=> Doing(p, r)
    BY <1>2, <1>3 DEF Doing
  <2> QED
    BY <1>2, <2>1, <2>2 DEF Kept
<1> QED
  BY <1>2, <1>3, <1>4, <1>5, <1>6, PassMoves

\* The stamp is written whether the notification was delivered or not.
LEMMA StampedAge ==
    ASSUME NEW row \in Rows, NEW read \in Rows, NEW age \in Ages, NEW ok \in BOOLEAN,
           row.status # "clean"
    PROVE  /\ Stamped(row, read, age, ok) \in Rows /\ Stamped(row, read, age, ok).age = age
           /\ Stamped(row, read, age, ok).status # "clean"
<1> DEFINE failures == IF ok THEN 0 ELSE read.failures + 1
<1>1. failures \in Nat
  BY DEF Rows
<1>2. PICK counted \in Nat, status \in Statuses \ {"clean"} :
         Stamped(row, read, age, ok) =
            [row EXCEPT !.age = age, !.failures = counted, !.status = status]
  <2>1. row.failures \in Nat /\ row.status \in Statuses \ {"clean"} /\ "disabled" \in Statuses \ {"clean"}
    BY DEF Rows, Statuses
  <2> HIDE DEF failures
  <2>2. /\ (IF failures = read.failures THEN row.failures ELSE failures) \in Nat
        /\ (IF failures >= MaxFailures THEN "disabled" ELSE row.status) \in Statuses \ {"clean"}
    BY <1>1, <2>1
  <2>3. Stamped(row, read, age, ok) =
          [row EXCEPT !.age = age,
                      !.failures = IF failures = read.failures THEN row.failures ELSE failures,
                      !.status = IF failures >= MaxFailures THEN "disabled" ELSE row.status]
    BY DEF Stamped, failures, Rows
  <2> QED
    BY <2>2, <2>3
<1> QED
  BY <1>2 DEF Rows

LEMMA StampKeeps ==
    ASSUME CooldownInv, NEW p \in Passes, Stamp(p) PROVE CooldownInv'
<1> DEFINE h == Head(todo[p])
<1>1. RulesTypeOK /\ PassInv(p)
  BY DEF CooldownInv
<1>2. /\ pc[p] \in {"posting", "waiting"} /\ NextRule(p) /\ UNCHANGED <<rule, since>>
      /\ todo[p] # <<>>
  BY <1>1 DEF Stamp, Granted, PassInv
<1>3. h \in Rules /\ h \in Elements(todo[p])
  BY <1>1, <1>2, NextRuleMoves
<1>4. PICK ok \in BOOLEAN :
         dirty' = [dirty EXCEPT ![p] = [dirty[p] EXCEPT ![h] =
                                           Stamped(rule[h], loaded[p][h], stamp[p], ok)]]
  BY DEF Stamp
<1> HIDE DEF h
<1>5. PICK row \in Rows : /\ dirty' = [dirty EXCEPT ![p] = [dirty[p] EXCEPT ![h] = row]]
                          /\ row.age = stamp[p] /\ row.status # "clean"
  <2>1. /\ rule[h] \in Rows /\ rule[h].status # "clean" /\ loaded[p][h] \in Rows
        /\ stamp[p] \in Ages
    BY <1>1, <1>3 DEF RulesTypeOK
  <2> QED
    BY <1>4, <2>1, StampedAge
<1>6. /\ dirty' \in [Passes -> [Rules -> Rows]]
      /\ dirty'[p] = [dirty[p] EXCEPT ![h] = row]
      /\ \A o \in Passes \ {p} : dirty'[o] = dirty[o]
  <2>1. [dirty[p] EXCEPT ![h] = row] \in [Rules -> Rows]
    BY <1>1, <1>3 DEF RulesTypeOK
  <2> QED
    BY <1>1, <1>5, <2>1 DEF RulesTypeOK
<1>7. dirty'[p][h] = row /\ \A r \in Rules \ {h} : dirty'[p][r] = dirty[p][r]
  <2>1. dirty[p] \in [Rules -> Rows]
    BY <1>1 DEF RulesTypeOK
  <2> QED
    BY <1>3, <1>6, <2>1
<1>8. RulesTypeOK'
  BY <1>1, <1>2, <1>6, NextRuleMoves DEF RulesTypeOK
<1>9. /\ Elements(todo'[p]) = Elements(todo[p]) \ {h} /\ Elements(todo[p]) \subseteq Rules
      /\ \A r \in Rules \ {h} : loaded'[p][r] = loaded[p][r]
      /\ pc'[p] \in {"check", "commit"}
  <2>1. todo[p] \in Seq(Rules)
    BY <1>1 DEF RulesTypeOK
  <2>2. Elements(todo[p]) \subseteq Rules
    BY <2>1 DEF Elements
  <2> QED
    BY <1>1, <1>2, <2>2, NextRuleMoves DEF h
<1>10. PassInv(p)'
  <2>1. \A r \in Elements(todo'[p]) : dirty'[p][r].status = "clean"
    BY <1>1, <1>7, <1>9 DEF PassInv
  <2> QED
    BY <1>1, <1>2, <2>1, NextRuleMoves DEF PassInv
<1>11. ASSUME NEW r \in Rules, since'[r] < Cooldown
       PROVE  Alone(p) /\ Kept(p, r)'
  <2>1. Alone(p) /\ Kept(p, r)
    BY <1>2, <1>11 DEF CooldownInv, RuleInv
  <2>2. ~Doing(p, r)'
    BY <1>9 DEF Doing
  <2>3. CASE r = h
    <3>1. Doing(p, r) /\ dirty[p][r].status = "clean"
      BY <1>1, <1>2, <1>3, <2>3 DEF Doing, PassInv, h
    <3>2. dirty'[p][r].age = since'[r] /\ dirty'[p][r].status # "clean"
      BY <1>2, <1>5, <1>7, <2>1, <2>3, <3>1 DEF Kept
    <3> QED
      BY <2>1, <3>2 DEF Kept
  <2>4. CASE r # h
    <3>1. ~Doing(p, r)
      BY <2>4 DEF Doing, h
    <3> QED
      BY <1>2, <1>7, <1>9, <2>1, <2>2, <2>4, <3>1 DEF Kept
  <2> QED
    BY <2>3, <2>4
<1>12. pc'[p] # "idle" /\ \A o \in Passes \ {p} : pc'[o] = pc[o] /\ todo'[o] = todo[o] /\ dirty'[o] = dirty[o]
  BY <1>1, <1>2, <1>6, NextRuleMoves
<1> QED
  BY <1>8, <1>10, <1>11, <1>12, PassMoves

\* A pass that ends.
LEMMA ForgetMoves ==
    ASSUME RulesTypeOK, NEW p \in Passes, Forget(p),
           rule' \in [Rules -> Rows], since' \in [Rules -> Ages],
           \A r \in Rules : rule'[r].status # "clean"
    PROVE  /\ RulesTypeOK' /\ PassInv(p)' /\ pc'[p] = "idle"
           /\ \A o \in Passes \ {p} : /\ pc'[o] = pc[o] /\ todo'[o] = todo[o]
                                       /\ dirty'[o] = dirty[o]
<1>1. Cooldown \in Ages
  BY AlertRulesAssumption DEF Ages
<1>2. /\ todo' \in [Passes -> Seq(Rules)] /\ todo'[p] = <<>>
      /\ \A o \in Passes \ {p} : todo'[o] = todo[o]
  BY DEF Forget, RulesTypeOK
<1>3. /\ dirty' \in [Passes -> [Rules -> Rows]] /\ dirty'[p] = NoRows
      /\ loaded' \in [Passes -> [Rules -> Rows]]
      /\ \A o \in Passes \ {p} : dirty'[o] = dirty[o]
  BY NoRowsType DEF Forget, RulesTypeOK
<1>4. stamp' \in [Passes -> Ages]
  BY <1>1 DEF Forget, RulesTypeOK
<1>5. /\ pc' \in [Passes -> {"idle", "check", "posting", "waiting", "commit"}]
      /\ pc'[p] = "idle" /\ \A o \in Passes \ {p} : pc'[o] = pc[o]
  BY DEF Forget, RulesTypeOK
<1>6. RulesTypeOK'
  BY <1>2, <1>3, <1>4, <1>5 DEF RulesTypeOK
<1>7. PassInv(p)'
  BY <1>2, <1>3, <1>5, NoElements DEF PassInv
<1> QED
  BY <1>2, <1>3, <1>5, <1>6, <1>7

LEMMA CommitPassKeeps ==
    ASSUME CooldownInv, NEW p \in Passes, CommitPass(p) PROVE CooldownInv'
<1>1. RulesTypeOK /\ PassInv(p)
  BY DEF CooldownInv
<1>2. /\ pc[p] = "commit" /\ Forget(p) /\ UNCHANGED since
      /\ rule' = [r \in Rules |-> IF Held(r, {p}) THEN dirty[p][r] ELSE rule[r]]
  BY DEF CommitPass
<1>3. \A r \in Rules : Held(r, {p}) <=> dirty[p][r].status # "clean"
  BY DEF Held
<1>4. rule' \in [Rules -> Rows] /\ \A r \in Rules : rule'[r].status # "clean"
  BY <1>1, <1>2, <1>3 DEF RulesTypeOK
<1>5. ASSUME NEW r \in Rules, since'[r] < Cooldown
      PROVE  Alone(p) /\ RowKept(r)'
  <2>1. Alone(p) /\ Kept(p, r)
    BY <1>2, <1>5 DEF CooldownInv, RuleInv
  <2>2. ~Doing(p, r)
    BY <1>2 DEF Doing
  <2> QED
    BY <1>2, <1>3, <2>1, <2>2 DEF Kept, RowKept
<1>6. since' \in [Rules -> Ages]
  BY <1>1, <1>2 DEF RulesTypeOK
<1> QED
  BY <1>1, <1>2, <1>4, <1>5, <1>6, ForgetMoves, PassMoves

\* A pass that is lost: what it has sent may be sent again.
LEMMA LostPassKeeps ==
    ASSUME CooldownInv, NEW p \in Passes, StampDeleted(p) \/ Crash(p) \/ BreakDeadlock(p)
    PROVE  CooldownInv'
<1>1. RulesTypeOK
  BY DEF CooldownInv
<1>2. Forget(p) /\ since' = Forgotten /\ UNCHANGED rule
  BY DEF StampDeleted, Crash, BreakDeadlock
<1>3. since' \in [Rules -> Ages] /\ \A r \in Rules : ~(since'[r] < Cooldown)
  BY <1>2, NoRowsType, AlertRulesAssumption DEF Forgotten
<1>4. rule' \in [Rules -> Rows] /\ \A r \in Rules : rule'[r].status # "clean"
  BY <1>1, <1>2 DEF RulesTypeOK
<1> QED
  BY <1>1, <1>2, <1>3, <1>4, ForgetMoves, PassMoves

LEMMA CooldownStart == RulesInit => CooldownInv
<1> SUFFICES ASSUME RulesInit PROVE CooldownInv
  OBVIOUS
<1>1. RulesTypeOK
  <2>1. rule \in [Rules -> Rows] /\ \A r \in Rules : rule[r].status # "clean"
    <3>1. [Clean EXCEPT !.status = "new"] \in Rows /\ [Clean EXCEPT !.status = "new"].status = "new"
      BY NoRowsType DEF Rows, Statuses
    <3> QED
      BY <3>1 DEF RulesInit
  <2>2. Cooldown \in Ages
    BY AlertRulesAssumption DEF Ages
  <2> QED
    BY <2>1, <2>2, NoRowsType DEF RulesInit, RulesTypeOK
<1>2. \A p \in Passes : PassInv(p)
  BY NoElements DEF RulesInit, PassInv
<1>3. \A r \in Rules : RuleInv(r)
  BY AlertRulesAssumption DEF RulesInit, RuleInv, Forgotten
<1> QED
  BY <1>1, <1>2, <1>3 DEF CooldownInv

LEMMA CooldownStep == CooldownInv /\ [RulesNext]_rulesVars => CooldownInv'
<1> SUFFICES ASSUME CooldownInv, [RulesNext]_rulesVars PROVE CooldownInv'
  OBVIOUS
<1>1. CASE UNCHANGED rulesVars
  <2>1. UNCHANGED <<rule, pc, todo, loaded, stamp, dirty, since>>
    BY <1>1 DEF rulesVars, own
  <2>2. RulesTypeOK' /\ \A p \in Passes : PassInv(p)'
    BY <2>1 DEF CooldownInv, RulesTypeOK, PassInv
  <2>3. ASSUME NEW r \in Rules PROVE RuleInv(r)'
    BY <2>1 DEF CooldownInv, RuleInv, Alone, Kept, Doing, RowKept
  <2> QED
    BY <2>2, <2>3 DEF CooldownInv
<1>2. CASE Tick
  BY <1>2, TickKeeps
<1>3. ASSUME NEW r \in Rules, Create(r) \/ Delete(r) PROVE CooldownInv'
  BY <1>3, ApiKeeps
<1>4. ASSUME NEW p \in Passes, Pass(p) \/ Crash(p) PROVE CooldownInv'
  BY <1>4, BeginPassKeeps, QuietKeeps, NotifyKeeps, WaitKeeps, StampKeeps, CommitPassKeeps,
     LostPassKeeps DEF Pass
<1> QED
  BY <1>1, <1>2, <1>3, <1>4 DEF RulesNext

\* The rows and the passes are well formed, and while a rule is in its cooldown the
\* time of its last notification is in the row, or in the one pass that runs.
THEOREM CooldownInvHolds == RulesSpec => []CooldownInv
BY CooldownStart, CooldownStep, PTL DEF RulesSpec

\* A rule is not notified again within its cooldown, delivered or not, unless
\* passes overlapped or a pass was lost: for every number of rules and passes.
THEOREM NoticesKeepTheCooldown == RulesSpec => CooldownHolds
<1>1. ASSUME CooldownInv, NEW p \in Passes, Notify(p)
      PROVE  since[Head(todo[p])] = Cooldown
  <2> DEFINE h == Head(todo[p])
  <2>1. RulesTypeOK /\ PassInv(p) /\ pc[p] = "check" /\ ~(loaded[p][h].age < Cooldown)
    BY <1>1 DEF CooldownInv, Notify, Cooling
  <2>2. h \in Rules /\ h \in Elements(todo[p]) /\ dirty[p][h].status = "clean"
    BY <2>1, TailElements DEF RulesTypeOK, PassInv
  <2>3. since[h] < Cooldown => Kept(p, h)
    BY <1>1, <2>1, <2>2 DEF CooldownInv, RuleInv
  <2>4. ~Doing(p, h)
    BY <2>1 DEF Doing
  <2>5. since[h] \in Ages
    BY <2>1, <2>2 DEF RulesTypeOK
  <2> HIDE DEF h
  <2>6. ~(since[h] < Cooldown)
    BY <2>1, <2>2, <2>3, <2>4 DEF Kept
  <2>7. since[h] = Cooldown
    BY <2>5, <2>6, AlertRulesAssumption DEF Ages
  <2> QED
    BY <2>7 DEF h
<1>2. CooldownInv => \A p \in Passes : Notify(p) => since[Head(todo[p])] = Cooldown
  BY <1>1
<1> QED
  BY <1>2, CooldownInvHolds, PTL DEF RulesSpec, CooldownHolds
=============================================================================
