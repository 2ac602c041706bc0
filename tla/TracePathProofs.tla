-------------------------- MODULE TracePathProofs --------------------------
(***************************************************************************)
(* Proofs about TracePath and its parts, for every set of ids, of tasks    *)
(* and threads and of requests, every number of rows and every depth: what *)
(* the spans of a program record (SdkSpans), what an exporter is answered  *)
(* (OtlpExport), and what build_tree makes of any rows (SpanTree), of a    *)
(* program's, and of an exporter's. What a recursive function gives is     *)
(* proved by a least counterexample (FoldFacts).                           *)
(***************************************************************************)
EXTENDS TracePath, FoldFacts, TLAPS

-----------------------------------------------------------------------------
(* SdkSpans: a program's blocks, tasks, threads and generators.            *)

Link == Ids \cup {None}

SpanRow == [parent : Link, trace : Link, status : {"ok", "error", "lost"},
            token : Link, where : Contexts \cup {None}]
ContextRow == [live : BOOLEAN, current : Link, blocks : Seq(Ids), base : Link,
               raising : BOOLEAN, leaked : BOOLEAN]

ProgramTypeOK ==
    /\ opened \in Seq(Ids)
    /\ span \in [Ids -> SpanRow]
    /\ ctx \in [Contexts -> ContextRow]
    /\ submitted \subseteq Ids
    /\ encloser \in [Ids -> Link]

\* Nothing refers to a span that is not drawn yet.
NoFutureSpan ==
    /\ \A s \in Drawn : span[s].token \in Drawn \cup {None}
    /\ \A c \in Contexts : /\ ctx[c].current \in Drawn \cup {None}
                           /\ ToSet(ctx[c].blocks) \subseteq Drawn

\* What stands around the k-th block of a context.
Before(row, k) == IF k = 1 THEN row.base ELSE row.blocks[k - 1]

\* The ContextVar holds the innermost block, and the tokens of the open blocks
\* are the blocks around them, one by one ...
Nested(c) ==
    /\ ctx[c].current = Innermost(c)
    /\ \A k \in DOMAIN ctx[c].blocks : span[ctx[c].blocks[k]].token = Before(ctx[c], k)

\* ... in every context that no generator has left a block open in: there the
\* spans that are not submitted are exactly the open blocks.
Discipline ==
    /\ \A c \in Contexts : ~ctx[c].leaked => Nested(c)
    /\ \A s \in Drawn :
          /\ span[s].where \in Contexts
          /\ s \notin submitted /\ ~ctx[span[s].where].leaked
                => s \in ToSet(ctx[span[s].where].blocks)

ProgramInv == ProgramTypeOK /\ NoFutureSpan /\ Discipline /\ ParentIsEncloser /\ OneRootPerTrace

-----------------------------------------------------------------------------
(* Sequences.                                                              *)

\* A sequence with one element more.
LEMMA AppendFacts ==
    ASSUME NEW S, NEW q \in Seq(S), NEW e \in S
    PROVE  /\ Append(q, e) \in Seq(S)
           /\ Len(Append(q, e)) = Len(q) + 1
           /\ DOMAIN Append(q, e) = 1..(Len(q) + 1)
           /\ \A k \in 1..Len(q) : Append(q, e)[k] = q[k]
           /\ Append(q, e)[Len(q) + 1] = e
           /\ Append(q, e) # <<>>
           /\ Last(Append(q, e)) = e
           /\ ToSet(Append(q, e)) = ToSet(q) \cup {e}
<1>1. /\ Append(q, e) \in Seq(S)
      /\ Len(Append(q, e)) = Len(q) + 1
      /\ DOMAIN Append(q, e) = 1..(Len(q) + 1)
      /\ \A k \in 1..Len(q) : Append(q, e)[k] = q[k]
      /\ Append(q, e)[Len(q) + 1] = e
      /\ Append(q, e) # <<>>
  OBVIOUS
<1>2. Last(Append(q, e)) = e
  BY <1>1 DEF Last
<1>3. DOMAIN q = 1..Len(q) /\ Len(q) \in Nat
  OBVIOUS
<1>4. ToSet(Append(q, e)) \subseteq ToSet(q) \cup {e}
  BY <1>1, <1>3 DEF ToSet
<1>5. ToSet(q) \subseteq ToSet(Append(q, e))
  <2>1. SUFFICES ASSUME NEW k \in 1..Len(q) PROVE q[k] \in ToSet(Append(q, e))
    BY <1>3 DEF ToSet
  <2> QED
    BY <1>1, <1>3 DEF ToSet
<1>6. e \in ToSet(Append(q, e))
  BY <1>1, <1>3 DEF ToSet
<1> QED
  BY <1>1, <1>2, <1>4, <1>5, <1>6

\* A sequence without its last element.
LEMMA FrontFacts ==
    ASSUME NEW S, NEW q \in Seq(S), q # <<>>
    PROVE  /\ Front(q) \in Seq(S)
           /\ Len(q) \in Nat \ {0}
           /\ Len(Front(q)) = Len(q) - 1
           /\ DOMAIN Front(q) = 1..(Len(q) - 1)
           /\ \A k \in 1..(Len(q) - 1) : Front(q)[k] = q[k]
           /\ Last(q) = q[Len(q)]
           /\ Last(q) \in S /\ Last(q) \in ToSet(q)
           /\ ToSet(q) = ToSet(Front(q)) \cup {Last(q)}
<1>1. Len(q) \in Nat \ {0} /\ DOMAIN q = 1..Len(q)
  OBVIOUS
<1>2. /\ Front(q) \in Seq(S)
      /\ Len(Front(q)) = Len(q) - 1
      /\ DOMAIN Front(q) = 1..(Len(q) - 1)
      /\ \A k \in 1..(Len(q) - 1) : Front(q)[k] = q[k]
  BY <1>1 DEF Front
<1>3. Last(q) = q[Len(q)] /\ Last(q) \in S /\ Last(q) \in ToSet(q)
  BY <1>1 DEF Last, ToSet
<1>4. ToSet(Front(q)) \subseteq ToSet(q)
  BY <1>1, <1>2 DEF ToSet
<1>5. ToSet(q) \subseteq ToSet(Front(q)) \cup {Last(q)}
  <2>1. SUFFICES ASSUME NEW k \in 1..Len(q) PROVE q[k] \in ToSet(Front(q)) \cup {Last(q)}
    BY <1>1 DEF ToSet
  <2>2. CASE k = Len(q)
    BY <2>2, <1>3
  <2>3. CASE k \in 1..(Len(q) - 1)
    BY <2>3, <1>2 DEF ToSet
  <2>4. \A m \in Nat : \A j \in 1..m : j = m \/ j \in 1..(m - 1)
    OBVIOUS
  <2>5. k = Len(q) \/ k \in 1..(Len(q) - 1)
    BY <1>1, <2>4
  <2> QED
    BY <2>2, <2>3, <2>5
<1> QED
  BY <1>1, <1>2, <1>3, <1>4, <1>5
-----------------------------------------------------------------------------
(* What the actions do, field by field.                                    *)

\* NewSpan: the span drawn, and the others as they were.
LEMMA NewSpanEffect ==
    ASSUME ProgramTypeOK, NEW c \in Contexts, NEW s \in Ids, NewSpan(c, s)
    PROVE  /\ opened' = Append(opened, s) /\ opened' \in Seq(Ids)
           /\ s \notin Drawn /\ Drawn' = Drawn \cup {s}
           /\ span' \in [Ids -> SpanRow]
           /\ \A i \in Ids \ {s} : span'[i] = span[i]
           /\ span'[s].parent = ctx[c].current /\ span'[s].token = ctx[c].current
           /\ span'[s].trace = Trace(s, ctx[c].current) /\ span'[s].where = c
           /\ encloser' \in [Ids -> Link]
           /\ \A i \in Ids \ {s} : encloser'[i] = encloser[i]
           /\ encloser'[s] = IF ctx[c].leaked THEN ctx[c].current ELSE Innermost(c)
           /\ submitted' = submitted
<1>1. ctx[c] \in ContextRow
  BY DEF ProgramTypeOK
<1>2. Trace(s, ctx[c].current) \in Link
  <2>1. ctx[c].current \in Link
    BY <1>1 DEF ContextRow
  <2>2. \A i \in Ids : span[i].trace \in Link
    BY DEF ProgramTypeOK, SpanRow
  <2> QED
    BY <2>1, <2>2 DEF Trace, Link
<1>3. Innermost(c) \in Link
  <2>1. CASE ctx[c].blocks = <<>>
    BY <2>1, <1>1 DEF Innermost, ContextRow
  <2>2. CASE ctx[c].blocks # <<>>
    BY <2>2, <1>1, FrontFacts DEF Innermost, ContextRow, Link
  <2> QED
    BY <2>1, <2>2
<1>4. opened' = Append(opened, s) /\ opened' \in Seq(Ids)
  BY AppendFacts DEF ProgramTypeOK, NewSpan
<1>5. s \notin Drawn /\ Drawn' = Drawn \cup {s}
  BY AppendFacts DEF ProgramTypeOK, NewSpan, Drawn
<1> DEFINE row == [parent |-> ctx[c].current, trace |-> Trace(s, ctx[c].current),
                   status |-> "ok", token |-> ctx[c].current, where |-> c]
<1>6. row \in SpanRow
  BY <1>1, <1>2 DEF SpanRow, ContextRow
<1>7. span' = [span EXCEPT ![s] = row]
  BY DEF NewSpan
<1>8. span' \in [Ids -> SpanRow] /\ span'[s] = row /\ \A i \in Ids \ {s} : span'[i] = span[i]
  BY <1>6, <1>7 DEF ProgramTypeOK
<1>9. /\ encloser' \in [Ids -> Link]
      /\ \A i \in Ids \ {s} : encloser'[i] = encloser[i]
      /\ encloser'[s] = IF ctx[c].leaked THEN ctx[c].current ELSE Innermost(c)
  BY <1>1, <1>3 DEF ProgramTypeOK, NewSpan, ContextRow
<1>10. submitted' = submitted
  BY DEF NewSpan
<1> QED
  BY <1>4, <1>5, <1>8, <1>9, <1>10

\* The contexts other than c stay as they are.
OnlyContext(c) ==
    /\ ctx' \in [Contexts -> ContextRow]
    /\ \A d \in Contexts \ {c} : ctx'[d] = ctx[d]

\* Enter and CallModel.
LEMMA PushEffect ==
    ASSUME ProgramTypeOK, NEW c \in Contexts, NEW s \in Ids,
           ctx' = [ctx EXCEPT ![c].current = s, ![c].blocks = Append(@, s)]
    PROVE  /\ OnlyContext(c)
           /\ ctx'[c].current = s /\ ctx'[c].blocks = Append(ctx[c].blocks, s)
           /\ ctx'[c].base = ctx[c].base /\ ctx'[c].leaked = ctx[c].leaked
<1>1. ctx[c] \in ContextRow /\ Append(ctx[c].blocks, s) \in Seq(Ids)
  BY AppendFacts DEF ProgramTypeOK, ContextRow
<1> QED
  BY <1>1 DEF ProgramTypeOK, ContextRow, OnlyContext, Link

\* Leave.
LEMMA PopEffect ==
    ASSUME ProgramTypeOK, NEW c \in Contexts, ctx[c].blocks # <<>>, Leave(c)
    PROVE  LET s == Last(ctx[c].blocks) IN
           /\ OnlyContext(c) /\ s \in Ids
           /\ ctx'[c].current = span[s].token /\ ctx'[c].blocks = Front(ctx[c].blocks)
           /\ ctx'[c].base = ctx[c].base /\ ctx'[c].leaked = ctx[c].leaked
           /\ span' \in [Ids -> SpanRow]
           /\ \A i \in Ids : /\ span'[i].parent = span[i].parent /\ span'[i].trace = span[i].trace
                              /\ span'[i].token = span[i].token /\ span'[i].where = span[i].where
           /\ submitted' = submitted \cup {s}
           /\ opened' = opened /\ encloser' = encloser
<1> DEFINE s == Last(ctx[c].blocks)
<1>1. ctx[c] \in ContextRow
  BY DEF ProgramTypeOK
<1>2. s \in Ids /\ Front(ctx[c].blocks) \in Seq(Ids)
  BY <1>1, FrontFacts DEF ContextRow
<1>3. span[s] \in SpanRow
  BY <1>2 DEF ProgramTypeOK
<1>4. /\ ctx' = [ctx EXCEPT ![c].current = span[s].token, ![c].blocks = Front(@)]
      /\ span' = [span EXCEPT ![s].status = IF ctx[c].raising THEN "error" ELSE "ok"]
      /\ submitted' = submitted \cup {s}
      /\ opened' = opened /\ encloser' = encloser
  BY DEF Leave
<1> HIDE DEF s
<1>5. span[s].token \in Link
  BY <1>3 DEF SpanRow
<1>6. /\ OnlyContext(c)
      /\ ctx'[c].current = span[s].token /\ ctx'[c].blocks = Front(ctx[c].blocks)
      /\ ctx'[c].base = ctx[c].base /\ ctx'[c].leaked = ctx[c].leaked
  BY <1>1, <1>2, <1>4, <1>5 DEF ProgramTypeOK, ContextRow, OnlyContext
<1>7. /\ span' \in [Ids -> SpanRow]
      /\ \A i \in Ids : /\ span'[i].parent = span[i].parent /\ span'[i].trace = span[i].trace
                         /\ span'[i].token = span[i].token /\ span'[i].where = span[i].where
  BY <1>2, <1>3, <1>4 DEF ProgramTypeOK, SpanRow
<1> QED
  BY <1>2, <1>4, <1>6, <1>7 DEF s

-----------------------------------------------------------------------------
(* Traces.                                                                 *)

\* A new span goes below the span that its context holds.
LEMMA RootOfNewSpan ==
    ASSUME ProgramInv, NEW c \in Contexts, NEW s \in Ids, NewSpan(c, s)
    PROVE  OneRootPerTrace' /\ ParentIsEncloser'
<1> USE DEF ProgramInv
<1> DEFINE n == Len(opened)
<1>0. opened \in Seq(Ids) /\ n \in Nat /\ DOMAIN opened = 1..n
  BY DEF ProgramTypeOK
<1>1. /\ opened' = Append(opened, s) /\ s \notin Drawn /\ Drawn' = Drawn \cup {s}
      /\ \A i \in Ids \ {s} : span'[i] = span[i] /\ encloser'[i] = encloser[i]
      /\ span'[s].parent = ctx[c].current /\ span'[s].trace = Trace(s, ctx[c].current)
      /\ encloser'[s] = IF ctx[c].leaked THEN ctx[c].current ELSE Innermost(c)
  BY NewSpanEffect
<1>2. Drawn \subseteq Ids \ {s} /\ None \notin Ids
  BY <1>0, <1>1, SpanIdsAssumption DEF Drawn, ToSet
<1>3. ParentIsEncloser'
  <2>1. encloser'[s] = ctx[c].current
    BY <1>1 DEF Discipline, Nested
  <2> QED
    BY <1>1, <1>2, <2>1 DEF ParentIsEncloser
<1>4. DOMAIN opened' = 1..(n + 1) /\ opened'[n + 1] = s /\ \A i \in 1..n : opened'[i] = opened[i]
  BY <1>0, <1>1, AppendFacts
<1>5. ASSUME NEW i \in 1..(n + 1) PROVE SubSeq(opened', 1, i - 1) = SubSeq(opened, 1, i - 1)
  BY <1>0, <1>1
<1>6. SubSeq(opened, 1, n) = opened
  BY <1>0
<1>7. ASSUME NEW i \in 1..(n + 1)
      PROVE  LET j == opened'[i] IN
             IF span'[j].parent = None THEN span'[j].trace = j
             ELSE /\ span'[j].parent \in ToSet(SubSeq(opened', 1, i - 1))
                  /\ span'[span'[j].parent].trace = span'[j].trace
  <2>1. CASE i \in 1..n
    <3> DEFINE j == opened[i]
    <3>1. opened'[i] = j /\ j \in Drawn /\ span'[j] = span[j]
      BY <1>0, <1>1, <1>2, <1>4, <2>1 DEF Drawn, ToSet
    <3>2. IF span[j].parent = None THEN span[j].trace = j
          ELSE /\ span[j].parent \in ToSet(SubSeq(opened, 1, i - 1))
               /\ span[span[j].parent].trace = span[j].trace
      BY <1>0, <2>1 DEF OneRootPerTrace
    <3>3. ToSet(SubSeq(opened, 1, i - 1)) \subseteq Drawn
      BY <1>0, <2>1 DEF ToSet, Drawn
    <3> HIDE DEF j
    <3> QED
      BY <1>1, <1>2, <1>5, <3>1, <3>2, <3>3
  <2>2. CASE i = n + 1
    <3>0. i - 1 = n
      BY <1>0, <2>2
    <3>1. opened'[i] = s /\ ToSet(SubSeq(opened', 1, i - 1)) = Drawn
      BY <1>4, <1>5, <1>6, <2>2, <3>0 DEF Drawn
    <3>2. ctx[c].current \in Drawn \cup {None}
      BY DEF NoFutureSpan
    <3> QED
      BY <1>1, <1>2, <3>1, <3>2 DEF Trace
  <2>3. i \in 1..n \/ i = n + 1
    BY <1>0
  <2> QED
    BY <2>1, <2>2, <2>3
<1> QED
  BY <1>3, <1>4, <1>7 DEF OneRootPerTrace

\* No other step touches what these two say.
LEMMA RootsKept ==
    ASSUME ProgramInv, opened' = opened, encloser' = encloser,
           \A i \in Ids : span'[i].parent = span[i].parent /\ span'[i].trace = span[i].trace
    PROVE  OneRootPerTrace' /\ ParentIsEncloser'
<1> USE DEF ProgramInv
<1>1. /\ Drawn' = Drawn /\ Drawn \subseteq Ids
      /\ \A i \in DOMAIN opened : opened[i] \in Drawn
      /\ \A i \in DOMAIN opened : ToSet(SubSeq(opened, 1, i - 1)) \subseteq Ids
  BY DEF ProgramTypeOK, Drawn, ToSet
<1>2. ParentIsEncloser'
  BY <1>1 DEF ParentIsEncloser
<1>3. ASSUME NEW i \in DOMAIN opened
      PROVE  LET j == opened[i] IN
             IF span'[j].parent = None THEN span'[j].trace = j
             ELSE /\ span'[j].parent \in ToSet(SubSeq(opened, 1, i - 1))
                  /\ span'[span'[j].parent].trace = span'[j].trace
  BY <1>1, <1>3 DEF OneRootPerTrace
<1> QED
  BY <1>2, <1>3 DEF OneRootPerTrace

-----------------------------------------------------------------------------
(* Blocks.                                                                 *)

\* What a context that a step leaves alone knows of its blocks, it knows after.
LEMMA NestedKept ==
    ASSUME ProgramInv, NEW d \in Contexts, ctx'[d] = ctx[d],
           \A i \in Drawn : span'[i].token = span[i].token
    PROVE  ~ctx'[d].leaked => Nested(d)'
<1> USE DEF ProgramInv
<1>1. ToSet(ctx[d].blocks) \subseteq Drawn
  BY DEF NoFutureSpan
<1>2. \A k \in DOMAIN ctx[d].blocks : ctx[d].blocks[k] \in Drawn
  BY <1>1 DEF ToSet
<1>3. ~ctx[d].leaked => Nested(d)
  BY DEF Discipline
<1> QED
  BY <1>2, <1>3 DEF Nested, Innermost, Before

\* Enter and CallModel: the new block stands inside the others.
LEMMA PushKeeps ==
    ASSUME ProgramInv, NEW c \in Contexts, NEW s \in Ids, NewSpan(c, s),
           ctx' = [ctx EXCEPT ![c].current = s, ![c].blocks = Append(@, s)]
    PROVE  ProgramInv'
<1> DEFINE b == ctx[c].blocks
<1>0. ctx[c] \in ContextRow /\ b \in Seq(Ids)
  BY DEF ProgramInv, ProgramTypeOK, ContextRow
<1>1. /\ opened' \in Seq(Ids) /\ s \notin Drawn /\ Drawn' = Drawn \cup {s}
      /\ span' \in [Ids -> SpanRow] /\ encloser' \in [Ids -> Link] /\ submitted' = submitted
      /\ \A i \in Ids \ {s} : span'[i] = span[i]
      /\ span'[s].token = ctx[c].current /\ span'[s].where = c
  BY NewSpanEffect DEF ProgramInv
<1>2. /\ OnlyContext(c)
      /\ ctx'[c].current = s /\ ctx'[c].blocks = Append(b, s)
      /\ ctx'[c].base = ctx[c].base /\ ctx'[c].leaked = ctx[c].leaked
  BY PushEffect DEF ProgramInv
<1>3. /\ DOMAIN Append(b, s) = 1..(Len(b) + 1) /\ Append(b, s)[Len(b) + 1] = s
      /\ \A k \in 1..Len(b) : Append(b, s)[k] = b[k]
      /\ Append(b, s) # <<>> /\ Last(Append(b, s)) = s
      /\ ToSet(Append(b, s)) = ToSet(b) \cup {s} /\ Len(b) \in Nat /\ DOMAIN b = 1..Len(b)
  BY <1>0, AppendFacts
<1> HIDE DEF b
<1>4. Drawn \subseteq Ids \ {s}
  BY <1>1 DEF ProgramInv, ProgramTypeOK, Drawn, ToSet
<1>5. ProgramTypeOK'
  BY <1>1, <1>2 DEF ProgramInv, ProgramTypeOK, OnlyContext
<1>6. NoFutureSpan'
  <2>1. \A i \in Drawn' : span'[i].token \in Drawn' \cup {None}
    BY <1>1, <1>4 DEF ProgramInv, NoFutureSpan
  <2>2. \A d \in Contexts : /\ ctx'[d].current \in Drawn' \cup {None}
                            /\ ToSet(ctx'[d].blocks) \subseteq Drawn'
    BY <1>1, <1>2, <1>3 DEF ProgramInv, NoFutureSpan, OnlyContext, b
  <2> QED
    BY <2>1, <2>2 DEF NoFutureSpan
<1>7. ASSUME NEW d \in Contexts, ~ctx'[d].leaked PROVE Nested(d)'
  <2>1. CASE d # c
    BY <1>1, <1>2, <1>4, <1>7, <2>1, NestedKept DEF OnlyContext
  <2>2. CASE d = c
    <3>1. Nested(c)
      BY <1>2, <1>7, <2>2 DEF ProgramInv, Discipline
    <3>2. ctx'[c].current = Innermost(c)'
      BY <1>2, <1>3 DEF Innermost
    <3>3. ASSUME NEW k \in 1..Len(b)
          PROVE  span'[ctx'[c].blocks[k]].token = Before(ctx'[c], k)
      <4>1. b[k] \in Drawn /\ span[b[k]].token = Before(ctx[c], k)
        BY <1>3, <3>1 DEF ProgramInv, NoFutureSpan, Nested, ToSet, b
      <4>2. \A n \in Nat : \A j \in 1..n : j # 1 => j - 1 \in 1..n
        OBVIOUS
      <4>3. Before(ctx'[c], k) = Before(ctx[c], k)
        <5>1. k = 1 \/ Append(b, s)[k - 1] = b[k - 1]
          BY <1>3, <4>2
        <5> QED
          BY <1>2, <5>1 DEF Before, b
      <4>4. ctx'[c].blocks[k] = b[k] /\ span'[b[k]] = span[b[k]]
        BY <1>1, <1>2, <1>3, <1>4, <4>1
      <4> QED
        BY <4>1, <4>3, <4>4
    <3>4. span'[ctx'[c].blocks[Len(b) + 1]].token = Before(ctx'[c], Len(b) + 1)
      <4>1. span'[ctx'[c].blocks[Len(b) + 1]].token = Innermost(c)
        BY <1>1, <1>2, <1>3, <3>1 DEF Nested
      <4>2. CASE b = <<>>
        BY <1>2, <4>1, <4>2 DEF Innermost, Before, b
      <4>3. CASE b # <<>>
        <5>1. Last(b) = b[Len(b)] /\ Len(b) \in Nat \ {0}
          BY <1>0, <4>3, FrontFacts DEF b
        <5>2. Len(b) + 1 # 1 /\ (Len(b) + 1) - 1 = Len(b) /\ Len(b) \in 1..Len(b)
          BY <5>1
        <5> QED
          BY <1>2, <1>3, <4>1, <4>3, <5>1, <5>2 DEF Innermost, Before, b
      <4> QED
        BY <4>2, <4>3
    <3>5. \A n \in Nat : \A k \in 1..(n + 1) : k \in 1..n \/ k = n + 1
      OBVIOUS
    <3>6. \A k \in DOMAIN ctx'[c].blocks : span'[ctx'[c].blocks[k]].token = Before(ctx'[c], k)
      BY <1>2, <1>3, <3>3, <3>4, <3>5
    <3> QED
      BY <2>2, <3>2, <3>6 DEF Nested
  <2> QED
    BY <2>1, <2>2
<1>8. ASSUME NEW i \in Drawn'
      PROVE  /\ span'[i].where \in Contexts
             /\ i \notin submitted' /\ ~ctx'[span'[i].where].leaked
                   => i \in ToSet(ctx'[span'[i].where].blocks)
  <2>1. CASE i = s
    BY <1>1, <1>2, <1>3, <2>1
  <2>2. CASE i \in Drawn
    <3>1. span'[i] = span[i] /\ span[i].where \in Contexts
      BY <1>1, <1>4, <2>2 DEF ProgramInv, Discipline
    <3>2. /\ ctx'[span[i].where].leaked = ctx[span[i].where].leaked
          /\ ToSet(ctx[span[i].where].blocks) \subseteq ToSet(ctx'[span[i].where].blocks)
      BY <1>2, <1>3, <3>1 DEF OnlyContext, b
    <3> QED
      BY <1>1, <2>2, <3>1, <3>2 DEF ProgramInv, Discipline
  <2> QED
    BY <1>1, <2>1, <2>2
<1>9. OneRootPerTrace' /\ ParentIsEncloser'
  BY RootOfNewSpan
<1> QED
  BY <1>5, <1>6, <1>7, <1>8, <1>9 DEF ProgramInv, Discipline

\* Leave: the token of the innermost block is the block around it.
LEMMA PopKeeps ==
    ASSUME ProgramInv, NEW c \in Contexts, ctx[c].blocks # <<>>, Leave(c)
    PROVE  ProgramInv'
<1> DEFINE b == ctx[c].blocks
           s == Last(b)
<1>0. ctx[c] \in ContextRow /\ b \in Seq(Ids) /\ b # <<>>
  BY DEF ProgramInv, ProgramTypeOK, ContextRow
<1>1. /\ OnlyContext(c) /\ s \in Ids
      /\ ctx'[c].current = span[s].token /\ ctx'[c].blocks = Front(b)
      /\ ctx'[c].base = ctx[c].base /\ ctx'[c].leaked = ctx[c].leaked
      /\ span' \in [Ids -> SpanRow]
      /\ \A i \in Ids : /\ span'[i].parent = span[i].parent /\ span'[i].trace = span[i].trace
                         /\ span'[i].token = span[i].token /\ span'[i].where = span[i].where
      /\ submitted' = submitted \cup {s}
      /\ opened' = opened /\ encloser' = encloser
  BY PopEffect DEF ProgramInv
<1>2. /\ Front(b) \in Seq(Ids) /\ Len(b) \in Nat \ {0} /\ DOMAIN b = 1..Len(b)
      /\ Len(Front(b)) = Len(b) - 1 /\ DOMAIN Front(b) = 1..(Len(b) - 1)
      /\ \A k \in 1..(Len(b) - 1) : Front(b)[k] = b[k]
      /\ s = b[Len(b)] /\ ToSet(b) = ToSet(Front(b)) \cup {s} /\ s \in ToSet(b)
  <2> HIDE DEF b
  <2>1. DOMAIN b = 1..Len(b)
    BY <1>0
  <2> QED
    BY <1>0, <2>1, FrontFacts
<1> HIDE DEF b, s
<1>3. Drawn' = Drawn /\ Drawn \subseteq Ids /\ ToSet(b) \subseteq Drawn
  <2>1. Drawn' = Drawn
    BY <1>1 DEF Drawn
  <2>2. Drawn \subseteq Ids
    BY DEF ProgramInv, ProgramTypeOK, Drawn, ToSet
  <2>3. ToSet(b) \subseteq Drawn
    BY DEF ProgramInv, NoFutureSpan, b
  <2> QED
    BY <2>1, <2>2, <2>3
<1>4. ProgramTypeOK'
  BY <1>1 DEF ProgramInv, ProgramTypeOK, OnlyContext
<1>5. NoFutureSpan'
  <2>1. \A i \in Drawn' : span'[i].token \in Drawn' \cup {None}
    BY <1>1, <1>3 DEF ProgramInv, NoFutureSpan
  <2>2. ctx'[c].current \in Drawn' \cup {None} /\ ToSet(ctx'[c].blocks) \subseteq Drawn'
    BY <1>1, <1>2, <1>3 DEF ProgramInv, NoFutureSpan
  <2>3. \A d \in Contexts \ {c} : /\ ctx'[d].current \in Drawn' \cup {None}
                                  /\ ToSet(ctx'[d].blocks) \subseteq Drawn'
    BY <1>1, <1>3 DEF ProgramInv, NoFutureSpan, OnlyContext
  <2> QED
    BY <2>1, <2>2, <2>3 DEF NoFutureSpan
<1>6. ASSUME NEW d \in Contexts, ~ctx'[d].leaked PROVE Nested(d)'
  <2>1. CASE d # c
    BY <1>1, <1>3, <1>6, <2>1, NestedKept DEF OnlyContext
  <2>2. CASE d = c
    <3>1. \A k \in 1..Len(b) : b[k] \in Ids /\ span[b[k]].token = Before(ctx[c], k)
      BY <1>0, <1>1, <1>2, <1>6, <2>2 DEF ProgramInv, Discipline, Nested, b
    <3>2. ctx'[c].current = Before(ctx[c], Len(b))
      BY <1>1, <1>2, <3>1
    <3>3. \A n \in Nat : \A k \in 1..(n - 1) : k \in 1..n /\ (k # 1 => k - 1 \in 1..(n - 1))
      OBVIOUS
    <3>4. ASSUME NEW k \in 1..(Len(b) - 1)
          PROVE  span'[ctx'[c].blocks[k]].token = Before(ctx'[c], k)
      <4>1. k \in 1..Len(b) /\ (k = 1 \/ k - 1 \in 1..(Len(b) - 1))
        BY <1>2, <3>3
      <4>2. Before(ctx'[c], k) = Before(ctx[c], k)
        <5>1. k = 1 \/ Front(b)[k - 1] = b[k - 1]
          BY <1>2, <4>1
        <5> QED
          BY <1>1, <5>1 DEF Before, b
      <4>3. ctx'[c].blocks[k] = b[k] /\ span'[b[k]].token = span[b[k]].token
        BY <1>1, <1>2, <3>1, <4>1
      <4> QED
        BY <3>1, <4>1, <4>2, <4>3
    <3>5. ctx'[c].current = Innermost(c)'
      <4>1. CASE Len(b) = 1
        <5>1. Front(b) = <<>>
          BY <1>2, <4>1
        <5> QED
          BY <1>1, <3>2, <4>1, <5>1 DEF Before, Innermost
      <4>2. CASE Len(b) # 1
        <5>1. Front(b) # <<>> /\ Len(b) - 1 \in 1..(Len(b) - 1)
          BY <1>2, <4>2
        <5>2. Last(Front(b)) = b[Len(b) - 1]
          BY <1>2, <5>1 DEF Last
        <5> QED
          BY <1>1, <3>2, <4>2, <5>1, <5>2 DEF Before, Innermost, b
      <4> QED
        BY <4>1, <4>2
    <3> QED
      BY <1>1, <1>2, <2>2, <3>4, <3>5 DEF Nested
  <2> QED
    BY <2>1, <2>2
<1>7. ASSUME NEW i \in Drawn'
      PROVE  /\ span'[i].where \in Contexts
             /\ i \notin submitted' /\ ~ctx'[span'[i].where].leaked
                   => i \in ToSet(ctx'[span'[i].where].blocks)
  <2>1. span'[i].where = span[i].where /\ span[i].where \in Contexts
    BY <1>1, <1>3 DEF ProgramInv, Discipline
  <2>2. /\ ctx'[span[i].where].leaked = ctx[span[i].where].leaked
        /\ ToSet(ctx[span[i].where].blocks) \subseteq ToSet(ctx'[span[i].where].blocks) \cup {s}
    BY <1>1, <1>2, <2>1 DEF OnlyContext, b
  <2> QED
    BY <1>1, <1>3, <2>1, <2>2 DEF ProgramInv, Discipline
<1>8. OneRootPerTrace' /\ ParentIsEncloser'
  BY <1>1, RootsKept
<1> QED
  BY <1>4, <1>5, <1>6, <1>7, <1>8 DEF ProgramInv, Discipline

\* Raise and Catch touch neither spans nor blocks; ExitElsewhere loses a span
\* whose block is not among those of its context.
LEMMA RaisingKeeps ==
    ASSUME ProgramInv, NEW c \in Contexts, NEW raised \in BOOLEAN,
           ctx' = [ctx EXCEPT ![c].raising = raised],
           opened' = opened, submitted' = submitted, encloser' = encloser,
           span' \in [Ids -> SpanRow],
           \A i \in Ids : /\ span'[i].parent = span[i].parent /\ span'[i].trace = span[i].trace
                          /\ span'[i].token = span[i].token /\ span'[i].where = span[i].where
    PROVE  ProgramInv'
<1>1. ctx[c] \in ContextRow
  BY DEF ProgramInv, ProgramTypeOK
<1>2. /\ ctx' \in [Contexts -> ContextRow]
      /\ \A d \in Contexts : /\ ctx'[d].current = ctx[d].current /\ ctx'[d].blocks = ctx[d].blocks
                             /\ ctx'[d].base = ctx[d].base /\ ctx'[d].leaked = ctx[d].leaked
  BY <1>1 DEF ProgramInv, ProgramTypeOK, ContextRow
<1>3. Drawn' = Drawn /\ Drawn \subseteq Ids
  BY DEF ProgramInv, ProgramTypeOK, Drawn, ToSet
<1>4. ProgramTypeOK'
  BY <1>2 DEF ProgramInv, ProgramTypeOK
<1>5. NoFutureSpan'
  BY <1>2, <1>3 DEF ProgramInv, NoFutureSpan
<1>6. ASSUME NEW d \in Contexts, ~ctx'[d].leaked PROVE Nested(d)'
  <2>1. Nested(d)
    BY <1>2, <1>6 DEF ProgramInv, Discipline
  <2>2. \A k \in DOMAIN ctx[d].blocks : ctx[d].blocks[k] \in Ids
    BY <1>3 DEF ProgramInv, NoFutureSpan, ToSet
  <2> QED
    BY <1>2, <2>1, <2>2 DEF Nested, Innermost, Before
<1>7. Discipline'
  <2>1. \A i \in Drawn' : span'[i].where = span[i].where /\ span[i].where \in Contexts
    BY <1>3 DEF ProgramInv, Discipline
  <2> QED
    BY <1>2, <1>3, <1>6, <2>1 DEF ProgramInv, Discipline
<1>8. OneRootPerTrace' /\ ParentIsEncloser'
  BY RootsKept
<1> QED
  BY <1>4, <1>5, <1>7, <1>8 DEF ProgramInv

\* A sleeping context begins: what it holds is drawn, and it has no blocks.
LEMMA WakeKeeps ==
    ASSUME ProgramInv, NEW d \in Contexts, ctx[d] = Asleep,
           NEW row \in ContextRow, ctx' = [ctx EXCEPT ![d] = row],
           row.blocks = <<>>, row.current \in Drawn \cup {None},
           ~row.leaked => row.current = row.base,
           opened' = opened, submitted' = submitted, encloser' = encloser, span' = span
    PROVE  ProgramInv'
<1>1. ctx' \in [Contexts -> ContextRow] /\ ctx'[d] = row /\ \A e \in Contexts \ {d} : ctx'[e] = ctx[e]
  BY DEF ProgramInv, ProgramTypeOK
<1>2. Drawn' = Drawn
  BY DEF Drawn
<1>3. ToSet(row.blocks) = {} /\ ToSet(ctx[d].blocks) = {} /\ ~ctx[d].leaked
  BY DEF ToSet, Asleep
<1>4. ProgramTypeOK'
  BY <1>1 DEF ProgramInv, ProgramTypeOK
<1>5. NoFutureSpan'
  BY <1>1, <1>2, <1>3 DEF ProgramInv, NoFutureSpan
<1>6. ASSUME NEW e \in Contexts, ~ctx'[e].leaked PROVE Nested(e)'
  <2>1. CASE e # d
    BY <1>1, <1>6, <2>1, NestedKept
  <2>2. CASE e = d
    BY <1>1, <1>6, <2>2 DEF Nested, Innermost
  <2> QED
    BY <2>1, <2>2
<1>7. ASSUME NEW i \in Drawn'
      PROVE  /\ span'[i].where \in Contexts
             /\ i \notin submitted' /\ ~ctx'[span'[i].where].leaked
                   => i \in ToSet(ctx'[span'[i].where].blocks)
  BY <1>1, <1>2, <1>3 DEF ProgramInv, Discipline
<1>8. OneRootPerTrace' /\ ParentIsEncloser'
  BY RootsKept
<1> QED
  BY <1>4, <1>5, <1>6, <1>7, <1>8 DEF ProgramInv, Discipline

\* A block inside a generator leaves its context without discipline.
LEMMA EnterSuspendedKeeps ==
    ASSUME ProgramInv, NEW c \in Contexts, NEW s \in Ids, EnterSuspended(c, s)
    PROVE  ProgramInv'
<1>0. ctx[c] \in ContextRow /\ NewSpan(c, s)
  BY DEF ProgramInv, ProgramTypeOK, EnterSuspended
<1>1. /\ opened' \in Seq(Ids) /\ s \notin Drawn /\ Drawn' = Drawn \cup {s}
      /\ span' \in [Ids -> SpanRow] /\ encloser' \in [Ids -> Link] /\ submitted' = submitted
      /\ \A i \in Ids \ {s} : span'[i] = span[i]
      /\ span'[s].token = ctx[c].current /\ span'[s].where = c
  BY <1>0, NewSpanEffect DEF ProgramInv
<1>2. ctx' = [ctx EXCEPT ![c].current = s, ![c].leaked = TRUE]
  BY DEF EnterSuspended
<1>3. /\ OnlyContext(c) /\ ctx'[c].current = s
      /\ ctx'[c].blocks = ctx[c].blocks /\ ctx'[c].leaked
  BY <1>0, <1>2 DEF ProgramInv, ProgramTypeOK, ContextRow, Link, OnlyContext
<1>4. Drawn \subseteq Ids \ {s}
  BY <1>1 DEF ProgramInv, ProgramTypeOK, Drawn, ToSet
<1>5. ProgramTypeOK'
  BY <1>1, <1>3 DEF ProgramInv, ProgramTypeOK, OnlyContext
<1>6. NoFutureSpan'
  <2>1. \A i \in Drawn' : span'[i].token \in Drawn' \cup {None}
    BY <1>1, <1>4 DEF ProgramInv, NoFutureSpan
  <2>2. \A d \in Contexts : /\ ctx'[d].current \in Drawn' \cup {None}
                            /\ ToSet(ctx'[d].blocks) \subseteq Drawn'
    BY <1>1, <1>3 DEF ProgramInv, NoFutureSpan, OnlyContext
  <2> QED
    BY <2>1, <2>2 DEF NoFutureSpan
<1>7. ASSUME NEW d \in Contexts, ~ctx'[d].leaked PROVE Nested(d)'
  BY <1>1, <1>3, <1>4, <1>7, NestedKept DEF OnlyContext
<1>8. ASSUME NEW i \in Drawn'
      PROVE  /\ span'[i].where \in Contexts
             /\ i \notin submitted' /\ ~ctx'[span'[i].where].leaked
                   => i \in ToSet(ctx'[span'[i].where].blocks)
  BY <1>1, <1>3, <1>4 DEF ProgramInv, Discipline, OnlyContext
<1>9. OneRootPerTrace' /\ ParentIsEncloser'
  BY <1>0, RootOfNewSpan
<1> QED
  BY <1>5, <1>6, <1>7, <1>8, <1>9 DEF ProgramInv, Discipline

\* A block outside the context's own is left only where a generator left it.
LEMMA ExitSuspendedKeeps ==
    ASSUME ProgramInv, NEW c \in Contexts, NEW s \in Ids, ExitSuspended(c, s)
    PROVE  ProgramInv'
<1>0. /\ ctx[c] \in ContextRow /\ ctx' = [ctx EXCEPT ![c].current = span[s].token]
      /\ submitted' = submitted \cup {s} /\ opened' = opened /\ span' = span /\ encloser' = encloser
  BY DEF ProgramInv, ProgramTypeOK, ExitSuspended
<1>1. s \in Drawn /\ s \notin submitted /\ span[s].where = c /\ s \notin ToSet(ctx[c].blocks)
  BY DEF ExitSuspended, Suspended
<1>2. ctx[c].leaked
  BY <1>1 DEF ProgramInv, Discipline
<1>3. span[s].token \in Link /\ span[s].token \in Drawn \cup {None}
  BY <1>1 DEF ProgramInv, ProgramTypeOK, SpanRow, NoFutureSpan
<1>4. /\ OnlyContext(c) /\ ctx'[c].current = span[s].token
      /\ ctx'[c].blocks = ctx[c].blocks /\ ctx'[c].leaked = ctx[c].leaked
  BY <1>0, <1>3 DEF ProgramInv, ProgramTypeOK, ContextRow, OnlyContext
<1>5. Drawn' = Drawn
  BY <1>0 DEF Drawn
<1>6. ProgramTypeOK'
  BY <1>0, <1>4 DEF ProgramInv, ProgramTypeOK, OnlyContext
<1>7. NoFutureSpan'
  BY <1>0, <1>3, <1>4, <1>5 DEF ProgramInv, NoFutureSpan, OnlyContext
<1>8. ASSUME NEW d \in Contexts, ~ctx'[d].leaked PROVE Nested(d)'
  BY <1>0, <1>2, <1>4, <1>8, NestedKept DEF OnlyContext
<1>9. ASSUME NEW i \in Drawn'
      PROVE  /\ span'[i].where \in Contexts
             /\ i \notin submitted' /\ ~ctx'[span'[i].where].leaked
                   => i \in ToSet(ctx'[span'[i].where].blocks)
  BY <1>0, <1>2, <1>4, <1>5 DEF ProgramInv, Discipline, OnlyContext
<1>10. OneRootPerTrace' /\ ParentIsEncloser'
  BY <1>0, RootsKept
<1> QED
  BY <1>6, <1>7, <1>8, <1>9, <1>10 DEF ProgramInv, Discipline

\* A context that sleeps.
LEMMA AsleepFacts ==
    /\ Asleep \in ContextRow /\ Asleep.blocks = <<>> /\ Asleep.current = None
    /\ Asleep.base = None /\ Asleep.leaked = FALSE
<1>1. FALSE \in BOOLEAN /\ None \in Link /\ <<>> \in Seq(Ids)
  BY DEF Link
<1> QED
  BY <1>1 DEF Asleep, ContextRow

\* Tasks and threads begin.
LEMMA TaskKeeps ==
    ASSUME ProgramInv, NEW c \in Contexts, NEW d \in Contexts, CreateTask(c, d) \/ StartThread(c, d)
    PROVE  ProgramInv'
<1>1. /\ ctx[c] \in ContextRow /\ ctx[d] \in ContextRow /\ ctx[d] = Asleep
      /\ opened' = opened /\ submitted' = submitted /\ encloser' = encloser /\ span' = span
  BY DEF ProgramInv, ProgramTypeOK, CreateTask, StartThread
<1>2. CASE StartThread(c, d)
  <2> DEFINE row == [Asleep EXCEPT !.live = TRUE]
  <2>1. /\ row \in ContextRow /\ row.blocks = <<>> /\ row.current = None
        /\ row.base = None
    BY AsleepFacts DEF ContextRow
  <2>2. ctx' = [ctx EXCEPT ![d] = row]
    BY <1>1, <1>2 DEF StartThread
  <2> HIDE DEF row
  <2> QED
    BY <1>1, <2>1, <2>2, WakeKeeps
<1>3. CASE CreateTask(c, d)
  <2> DEFINE row == [Asleep EXCEPT !.live = TRUE, !.current = ctx[c].current,
                                   !.base = Innermost(c), !.leaked = ctx[c].leaked]
  <2>1. ctx[c].current \in Link /\ ctx[c].leaked \in BOOLEAN
    BY <1>1 DEF ContextRow
  <2>2. Innermost(c) \in Link
    <3>1. CASE ctx[c].blocks = <<>>
      BY <1>1, <3>1 DEF Innermost, ContextRow
    <3>2. CASE ctx[c].blocks # <<>>
      BY <1>1, <3>2, FrontFacts DEF Innermost, ContextRow, Link
    <3> QED
      BY <3>1, <3>2
  <2>3. /\ row \in ContextRow /\ row.blocks = <<>> /\ row.current = ctx[c].current
        /\ row.base = Innermost(c) /\ row.leaked = ctx[c].leaked
    BY <2>1, <2>2, AsleepFacts DEF ContextRow
  <2>4. ctx' = [ctx EXCEPT ![d] = row]
    BY <1>3 DEF CreateTask
  <2> HIDE DEF row
  <2>5. row.current \in Drawn \cup {None} /\ (~row.leaked => row.current = row.base)
    BY <2>3 DEF ProgramInv, NoFutureSpan, Discipline, Nested
  <2> QED
    BY <1>1, <2>3, <2>4, <2>5, WakeKeeps
<1> QED
  BY <1>2, <1>3

-----------------------------------------------------------------------------
(* The theorem.                                                            *)

\* The invariant holds at first ...
LEMMA ProgramStart == ProgramInit => ProgramInv
<1> SUFFICES ASSUME ProgramInit PROVE ProgramInv
  OBVIOUS
<1>1. /\ opened = <<>> /\ submitted = {} /\ span = [s \in Ids |-> Unused]
      /\ encloser = [s \in Ids |-> None]
      /\ ctx = [c \in Contexts |-> [Asleep EXCEPT !.live = (c = Main)]]
  BY DEF ProgramInit
<1>2. Unused \in SpanRow
  BY DEF Unused, SpanRow, Link
<1>3. \A c \in Contexts :
         /\ ctx[c] \in ContextRow /\ ctx[c].blocks = <<>>
         /\ ctx[c].current = None /\ ctx[c].base = None
  <2> TAKE c \in Contexts
  <2>1. ctx[c] = [Asleep EXCEPT !.live = (c = Main)] /\ (c = Main) \in BOOLEAN
    BY <1>1
  <2> DEFINE first == (c = Main)
  <2> HIDE DEF first
  <2>2. ctx[c] = [Asleep EXCEPT !.live = first] /\ first \in BOOLEAN
    BY <2>1 DEF first
  <2> QED
    BY <2>2, AsleepFacts DEF ContextRow
<1>4. Drawn = {} /\ DOMAIN opened = {} /\ \A c \in Contexts : ToSet(ctx[c].blocks) = {}
  BY <1>1, <1>3 DEF Drawn, ToSet
<1>5. ProgramTypeOK
  BY <1>1, <1>2, <1>3 DEF ProgramTypeOK, Link
<1>6. NoFutureSpan /\ ParentIsEncloser /\ OneRootPerTrace
  BY <1>3, <1>4 DEF NoFutureSpan, ParentIsEncloser, OneRootPerTrace
<1>7. Discipline
  BY <1>3, <1>4 DEF Discipline, Nested, Innermost
<1> QED
  BY <1>5, <1>6, <1>7 DEF ProgramInv

\* ... and every step of the program keeps it.
LEMMA ProgramStep == ProgramInv /\ [ProgramNext]_program => ProgramInv'
<1> SUFFICES ASSUME ProgramInv, [ProgramNext]_program PROVE ProgramInv'
  OBVIOUS
<1>0. span \in [Ids -> SpanRow]
  BY DEF ProgramInv, ProgramTypeOK
<1>1. ASSUME NEW c \in Contexts, NEW s \in Ids, Enter(c, s) \/ CallModel(c, s) PROVE ProgramInv'
  BY <1>1, PushKeeps DEF Enter, CallModel
<1>2. ASSUME NEW c \in Contexts, NEW s \in Ids, EnterSuspended(c, s) PROVE ProgramInv'
  BY <1>2, EnterSuspendedKeeps
<1>3. ASSUME NEW c \in Contexts, NEW s \in Ids, ExitSuspended(c, s) PROVE ProgramInv'
  BY <1>3, ExitSuspendedKeeps
<1>4. ASSUME NEW c \in Contexts, NEW s \in Ids, ExitElsewhere(c, s) PROVE ProgramInv'
  <2>1. /\ ctx' = [ctx EXCEPT ![c].raising = TRUE] /\ span' = [span EXCEPT ![s].status = "lost"]
        /\ opened' = opened /\ submitted' = submitted /\ encloser' = encloser
    BY <1>4 DEF ExitElsewhere
  <2>2. span' \in [Ids -> SpanRow]
    BY <1>0, <2>1 DEF SpanRow
  <2>3. \A i \in Ids : /\ span'[i].parent = span[i].parent /\ span'[i].trace = span[i].trace
                       /\ span'[i].token = span[i].token /\ span'[i].where = span[i].where
    BY <1>0, <2>1 DEF SpanRow
  <2> QED
    BY <2>1, <2>2, <2>3, RaisingKeeps
<1>5. ASSUME NEW c \in Contexts, Exit(c) PROVE ProgramInv'
  BY <1>5, PopKeeps DEF Exit
<1>6. ASSUME NEW c \in Contexts, Raise(c) \/ Catch(c) PROVE ProgramInv'
  BY <1>0, <1>6, RaisingKeeps DEF Raise, Catch
<1>7. ASSUME NEW c \in Contexts, NEW d \in Contexts, CreateTask(c, d) \/ StartThread(c, d)
      PROVE  ProgramInv'
  BY <1>7, TaskKeeps
<1>8. CASE UNCHANGED program
  BY <1>8 DEF program, ProgramInv, ProgramTypeOK, NoFutureSpan, Discipline, Nested, Innermost,
              Before, ParentIsEncloser, OneRootPerTrace, Drawn
<1> QED
  BY <1>1, <1>2, <1>3, <1>4, <1>5, <1>6, <1>7, <1>8 DEF ProgramNext

\* The types, the nesting of the blocks and what they say of parents and roots hold in
\* every state that a program reaches, for any number of spans and contexts.
THEOREM ProgramInvHolds == ProgramSpec => []ProgramInv
<1> QED
  BY ProgramStart, ProgramStep, PTL DEF ProgramSpec

\* The spans of a program make trees: whatever its blocks, tasks, threads and
\* generators do, a trace has one root and every other span an earlier parent.
THEOREM TracesHaveOneRoot == ProgramSpec => []OneRootPerTrace
<1>1. ProgramInv => OneRootPerTrace
  BY DEF ProgramInv
<1> QED
  BY <1>1, ProgramInvHolds, PTL

\* A span's parent is the block it was opened in, in every context that no
\* generator has left a block open in.
THEOREM ParentsAreEnclosers == ProgramSpec => []ParentIsEncloser
<1>1. ProgramInv => ParentIsEncloser
  BY DEF ProgramInv
<1> QED
  BY <1>1, ProgramInvHolds, PTL

-----------------------------------------------------------------------------
(* The recursive definitions: what they are at each argument.              *)

Total == Cardinality(Ids)

\* There are as many ids as a number says.
LEMMA TotalIsNat == Total \in Nat
BY SpanIdsAssumption, FS_CardinalityType DEF Total

LevelsAre(f) ==
    f = [d \in 1..Total |-> IF d = 1 THEN ToSet(Tops) ELSE UNION {ToSet(children[i]) : i \in f[d - 1]}]

\* The tree's levels, from the top.
LEMMA LevelSteps ==
    ASSUME children \in [Ids -> Seq(Ids)], ToSet(Tops) \subseteq Ids
    PROVE  /\ DOMAIN Level = 1..Total
           /\ \A d \in 1..Total :
                 Level[d] = IF d = 1 THEN ToSet(Tops)
                            ELSE UNION {ToSet(children[i]) : i \in Level[d - 1]}
<1> DEFINE V == SUBSET Ids
           below == [X \in V |-> UNION {ToSet(children[i]) : i \in X}]
           turn == [k \in Nat |-> below]
<1>1. below \in [V -> V]
  <2>1. \A i \in Ids : ToSet(children[i]) \subseteq Ids
    BY DEF ToSet
  <2> QED
    BY <2>1
<1>2. turn \in [Nat -> [V -> V]]
  BY <1>1
<1>3. PICK g \in [0..Total -> V] : Repeats(g, Total, ToSet(Tops), turn)
  BY <1>2, TotalIsNat, RepeatsExists
<1> DEFINE f == [d \in 1..Total |-> g[d - 1]]
<1>4. ASSUME NEW d \in 1..Total
      PROVE  f[d] = IF d = 1 THEN ToSet(Tops) ELSE UNION {ToSet(children[i]) : i \in f[d - 1]}
  <2>1. CASE d = 1
    BY <1>3, <1>4, <2>1 DEF Repeats
  <2>2. CASE d # 1
    <3>1. d - 1 \in 1..Total /\ d - 2 \in 0..Total /\ (d - 1) - 1 = d - 2 /\ d - 1 \in Nat
      BY <2>2, TotalIsNat
    <3>2. g[d - 1] = turn[d - 1][g[d - 2]] /\ g[d - 2] \in V
      BY <1>3, <3>1 DEF Repeats
    <3>3. f[d] = g[d - 1] /\ f[d - 1] = g[d - 2]
      BY <3>1
    <3>4. turn[d - 1][g[d - 2]] = UNION {ToSet(children[i]) : i \in g[d - 2]}
      BY <3>1, <3>2
    <3> HIDE DEF f, turn
    <3> QED
      BY <2>2, <3>2, <3>3, <3>4
  <2> QED
    BY <2>1, <2>2
<1>5. LevelsAre(f)
  <2> f = [d \in 1..Total |-> f[d]]
    OBVIOUS
  <2> HIDE DEF f
  <2> QED
    BY <1>4 DEF LevelsAre
<1>6. Level = CHOOSE h : LevelsAre(h)
  BY Zenon DEF Level, LevelsAre, Total
<1> HIDE DEF f
<1>7. LevelsAre(Level)
  BY <1>5, <1>6, Zenon
<1>8. PICK h : h = Level /\ h = [d \in 1..Total |-> IF d = 1 THEN ToSet(Tops) ELSE UNION {ToSet(children[i]) : i \in h[d - 1]}]
  BY <1>7, Zenon DEF LevelsAre
<1>9. DOMAIN h = 1..Total /\
      \A d \in 1..Total : h[d] = IF d = 1 THEN ToSet(Tops) ELSE UNION {ToSet(children[i]) : i \in h[d - 1]}
  BY <1>8, Zenon
<1> QED
  BY <1>8, <1>9

AncestorsAre(i, f) ==
    f = [n \in 0..Total |-> IF n = 0 THEN i
                            ELSE IF f[n - 1] \in Known THEN parent[f[n - 1]] ELSE None]

\* The way up from a span.
LEMMA AncestorSteps ==
    ASSUME parent \in [Ids -> Ids \cup {None}], Known \subseteq Ids, NEW i \in Ids
    PROVE  /\ DOMAIN Ancestor(i) = 0..Total
           /\ \A n \in 0..Total :
                 Ancestor(i)[n] = IF n = 0 THEN i
                                  ELSE IF Ancestor(i)[n - 1] \in Known THEN parent[Ancestor(i)[n - 1]]
                                  ELSE None
<1> DEFINE V == Ids \cup {None}
           up == [j \in V |-> IF j \in Known THEN parent[j] ELSE None]
           turn == [k \in Nat |-> up]
<1>1. turn \in [Nat -> [V -> V]]
  OBVIOUS
<1>2. PICK f \in [0..Total -> V] : Repeats(f, Total, i, turn)
  BY <1>1, TotalIsNat, RepeatsExists
<1>3. ASSUME NEW n \in 0..Total
      PROVE  f[n] = IF n = 0 THEN i ELSE IF f[n - 1] \in Known THEN parent[f[n - 1]] ELSE None
  <2>1. CASE n = 0
    BY <1>2, <2>1 DEF Repeats
  <2>2. CASE n # 0
    <3>1. n \in 1..Total /\ n - 1 \in 0..Total /\ n \in Nat
      BY <2>2, TotalIsNat
    <3>2. f[n] = turn[n][f[n - 1]] /\ f[n - 1] \in V
      BY <1>2, <3>1 DEF Repeats
    <3> QED
      BY <2>2, <3>1, <3>2
  <2> QED
    BY <2>1, <2>2
<1>4. AncestorsAre(i, f)
  <2> f = [n \in 0..Total |-> f[n]]
    OBVIOUS
  <2> QED
    BY <1>3 DEF AncestorsAre
<1>5. Ancestor(i) = CHOOSE h : AncestorsAre(i, h)
  BY Zenon DEF Ancestor, AncestorsAre, Total
<1>6. AncestorsAre(i, Ancestor(i))
  BY <1>4, <1>5, Zenon
<1>7. PICK h : h = Ancestor(i) /\ h = [n \in 0..Total |-> IF n = 0 THEN i
                            ELSE IF h[n - 1] \in Known THEN parent[h[n - 1]] ELSE None]
  BY <1>6, Zenon DEF AncestorsAre
<1>8. DOMAIN h = 0..Total /\
      \A n \in 0..Total : h[n] = IF n = 0 THEN i
                            ELSE IF h[n - 1] \in Known THEN parent[h[n - 1]] ELSE None
  BY <1>7, Zenon
<1> QED
  BY <1>7, <1>8

FlattensTo(seqs, f) ==
    f = [i \in 1..Len(seqs) |-> IF i = 1 THEN seqs[i] ELSE f[i - 1] \o seqs[i]]

\* Sequences put end to end.
LEMMA FlattenSteps ==
    ASSUME NEW S, NEW seqs \in Seq(Seq(S)), seqs # <<>>
    PROVE  \E f \in [1..Len(seqs) -> Seq(S)] :
              /\ FlattenSeq(seqs) = f[Len(seqs)]
              /\ \A i \in 1..Len(seqs) : f[i] = IF i = 1 THEN seqs[i] ELSE f[i - 1] \o seqs[i]
<1> DEFINE V == Seq(S)
           n == Len(seqs)
           turn == [k \in Nat |-> [v \in V |-> IF k + 1 \in 1..n THEN v \o seqs[k + 1] ELSE v]]
<1>0. n \in Nat /\ n # 0 /\ \A i \in 1..n : seqs[i] \in Seq(S)
  OBVIOUS
<1> HIDE DEF n
<1>1. turn \in [Nat -> [V -> V]]
  <2>1. ASSUME NEW k \in Nat, NEW v \in V
        PROVE  (IF k + 1 \in 1..n THEN v \o seqs[k + 1] ELSE v) \in V
    BY <1>0
  <2> QED
    BY <2>1
<1>2. seqs[1] \in V
  BY <1>0
<1>3. PICK g \in [0..n -> V] : Repeats(g, n, seqs[1], turn)
  <2> HIDE DEF turn, V
  <2> QED
    BY <1>0, <1>1, <1>2, RepeatsExists
<1> DEFINE f == [i \in 1..n |-> g[i - 1]]
<1>4. ASSUME NEW i \in 1..n
      PROVE  f[i] \in V /\ f[i] = IF i = 1 THEN seqs[i] ELSE f[i - 1] \o seqs[i]
  <2>0. i - 1 \in 0..n /\ f[i] = g[i - 1]
    BY <1>0
  <2>1. CASE i = 1
    BY <1>3, <2>0, <2>1 DEF Repeats
  <2>2. CASE i # 1
    <3>1. i - 1 \in 1..n /\ i - 2 \in 0..n /\ (i - 1) - 1 = i - 2 /\ i - 1 \in Nat /\ (i - 1) + 1 = i
      BY <2>2, <1>0
    <3>2. g[i - 1] = turn[i - 1][g[i - 2]] /\ g[i - 2] \in V
      BY <1>3, <3>1 DEF Repeats
    <3>3. turn[i - 1][g[i - 2]] = g[i - 2] \o seqs[i]
      BY <3>1, <3>2
    <3>4. f[i - 1] = g[i - 2]
      BY <3>1
    <3> HIDE DEF f, turn, V
    <3> QED
      BY <1>3, <2>0, <2>2, <3>2, <3>3, <3>4
  <2> QED
    BY <2>1, <2>2
<1>5. f \in [1..n -> V]
  <2> f = [i \in 1..n |-> f[i]]
    OBVIOUS
  <2> HIDE DEF f, V
  <2> QED
    BY <1>4
<1>6. FlattensTo(seqs, f)
  <2> f = [i \in 1..n |-> f[i]]
    OBVIOUS
  <2> HIDE DEF f
  <2> QED
    BY <1>4 DEF FlattensTo, n
<1>7. FlattenSeq(seqs) = (CHOOSE h : FlattensTo(seqs, h))[n]
  <2>1. Len(seqs) # 0
    BY <1>0 DEF n
  <2> QED
    BY <2>1, Zenon DEF FlattenSeq, FlattensTo, n
<1> HIDE DEF f, V
<1>8. PICK h : h = (CHOOSE x : FlattensTo(seqs, x)) /\ FlattensTo(seqs, h)
  BY <1>6, Zenon
<1>9. h = [i \in 1..n |-> IF i = 1 THEN seqs[i] ELSE h[i - 1] \o seqs[i]]
  BY <1>8, Zenon DEF FlattensTo, n
<1>10. \A i \in 1..n : h[i] = IF i = 1 THEN seqs[i] ELSE h[i - 1] \o seqs[i]
  BY <1>9, Zenon
<1> DEFINE B == {i \in 1..n : h[i] # f[i]}
<1>11. B = {}
  <2> SUFFICES ASSUME B # {} PROVE FALSE
    OBVIOUS
  <2>1. PICK i \in B : \A j \in B : i <= j
    <3>1. B \subseteq Nat
      BY <1>0
    <3> HIDE DEF B
    <3> QED
      BY <3>1, LeastNat
  <2>2. i \in 1..n /\ (i # 1 => i - 1 \in 1..n /\ i - 1 \notin B)
    BY <1>0, <2>1
  <2>3. h[i] = f[i]
    BY <1>4, <1>10, <2>2
  <2> QED
    BY <2>1, <2>3
<1>12. FlattenSeq(seqs) = f[n]
  <2>1. n \in 1..n
    BY <1>0
  <2>2. h[n] = f[n]
    BY <1>11, <2>1
  <2> QED
    BY <1>7, <1>8, <2>2
<1> QED
  BY <1>4, <1>5, <1>12 DEF n, V

-----------------------------------------------------------------------------
(* SpanTree: the invariant of build_tree, part by part.                    *)

Linked == {"link", "bound", "returned"}
Bounding == {"bound", "returned"}

WalkBlank == visited = {} /\ path = <<>> /\ current = None /\ cyclic = {}
LinkBlank == root = None /\ children = [i \in Ids |-> <<>>] /\ orphans = <<>>

PhaseInv ==
    /\ pc \in {"program", "export", "collect", "start", "follow"} \cup Linked
    /\ pc \in {"program", "export", "collect"} => WalkBlank /\ todo = <<>>
    /\ pc \in {"program", "export"} => rows = <<>> /\ order = <<>>
    /\ pc \notin Linked => LinkBlank
    /\ pc \notin Bounding => queue = <<>>
    /\ pc \in Bounding => todo = <<>>
    /\ pc = "returned" => queue = <<>>

TreeTypeOK ==
    /\ rows \in Seq(Row) /\ order \in Seq(Ids) /\ todo \in Seq(Ids)
    /\ parent \in [Ids -> Ids \cup {None}]
    /\ visited \subseteq Ids /\ cyclic \subseteq Ids
    /\ path \in Seq(Ids) /\ current \in Ids \cup {None}
    /\ root \in Ids \cup {None} /\ children \in [Ids -> Seq(Ids)] /\ orphans \in Seq(Ids)
    /\ queue \in Seq([node : Ids, depth : 1..MaxDepth])

TodoInv ==
    /\ IsInjective(order) /\ IsInjective(todo) /\ ToSet(todo) \subseteq Known

Acyclic(S) == \A X \in SUBSET S : X # {} => \E i \in X : parent[i] \notin X

WalkInv ==
    /\ cyclic \subseteq visited /\ visited \subseteq Known
    /\ \A i \in visited : parent[i] \in Known => parent[i] \in visited
    /\ \A i \in cyclic : parent[i] \in cyclic /\ OnCycle(i)
    /\ Acyclic(visited \ cyclic)

PathInv ==
    /\ IsInjective(path) /\ ToSet(path) \subseteq Known \ visited
    /\ \A k \in 1..(Len(path) - 1) : parent[path[k]] = path[k + 1]
    /\ pc = "follow" => IF path = <<>> THEN current \in Known \ visited
                        ELSE current = parent[path[Len(path)]]
    /\ pc # "follow" => path = <<>>

StillToWalk ==
    /\ pc = "start" => Known \ ToSet(todo) \subseteq visited
    /\ pc = "follow" => Known \ ToSet(todo) \subseteq visited \cup ToSet(path) \cup {current}
    /\ pc \in Linked => visited = Known

Placed == ToSet(Tops) \cup UNION {ToSet(children[i]) : i \in Ids}

LinkInv ==
    /\ root # None => root \in Known /\ parent[root] = None /\ root \notin ToSet(orphans)
    /\ \A i \in Ids : /\ IsInjective(children[i])
                      /\ \A j \in ToSet(children[i]) :
                            parent[j] = i /\ i \in Known /\ j \notin cyclic \cup ToSet(orphans)
    /\ IsInjective(orphans)
    /\ pc \in Linked => Placed = Known \ ToSet(todo)

Cut(i) ==
    \/ i \in cyclic
    \/ parent[i] = None /\ root # None
    \/ parent[i] # None /\ parent[i] \notin Known

InQueue == {queue[k].node : k \in DOMAIN queue}

Depths(dep) ==
    /\ \A k \in DOMAIN queue : dep[queue[k].node] = queue[k].depth
    /\ \A j, k \in DOMAIN queue : queue[j].node = queue[k].node => j = k
    /\ \A i \in Ids : dep[i] = 1 <=> i \in ToSet(Tops)
    /\ \A i \in Ids : dep[i] > 1 =>
          /\ parent[i] \in Ids \ InQueue /\ i \in ToSet(children[parent[i]])
          /\ dep[i] = dep[parent[i]] + 1
    /\ \A i \in Ids \ InQueue : dep[i] # 0 =>
          \A j \in ToSet(children[i]) : dep[j] = dep[i] + 1
    /\ \A i \in ToSet(orphans) : Cut(i) \/ (parent[i] \in Ids /\ dep[parent[i]] = MaxDepth)

OrphanInv ==
    /\ pc \notin Bounding => \A i \in ToSet(orphans) : Cut(i)
    /\ pc \in Bounding => \E dep \in [Ids -> 0..MaxDepth] : Depths(dep)

TreeInv ==
    /\ PhaseInv /\ TreeTypeOK /\ TodoInv /\ WalkInv /\ PathInv /\ StillToWalk /\ LinkInv
    /\ OrphanInv

-----------------------------------------------------------------------------

\* Sequences without repetitions, their tails, and two put end to end.
LEMMA InjectiveAppend ==
    ASSUME NEW S, NEW q \in Seq(S), NEW e \in S, IsInjective(q), e \notin ToSet(q)
    PROVE  IsInjective(Append(q, e))
<1> DEFINE p == Append(q, e)
<1>1. /\ DOMAIN p = DOMAIN q \cup {Len(q) + 1} /\ p[Len(q) + 1] = e
      /\ \A k \in DOMAIN q : p[k] = q[k] /\ k # Len(q) + 1
  OBVIOUS
<1> HIDE DEF p
<1>2. \A k \in DOMAIN q : p[k] # e
  BY <1>1 DEF ToSet
<1>3. IsInjective(p)
  BY <1>1, <1>2 DEF IsInjective
<1> QED
  BY <1>3 DEF p

\* The rest of a sequence, and its head.
LEMMA TailFacts ==
    ASSUME NEW S, NEW q \in Seq(S), q # <<>>
    PROVE  /\ Tail(q) \in Seq(S) /\ Head(q) \in S /\ Head(q) \in ToSet(q) /\ Head(q) = q[1]
           /\ Len(q) \in Nat \ {0} /\ 1 \in DOMAIN q
           /\ Len(Tail(q)) = Len(q) - 1 /\ DOMAIN Tail(q) = 1..(Len(q) - 1)
           /\ \A k \in DOMAIN Tail(q) : k + 1 \in DOMAIN q /\ Tail(q)[k] = q[k + 1]
           /\ ToSet(q) = ToSet(Tail(q)) \cup {Head(q)}
           /\ IsInjective(q) => IsInjective(Tail(q)) /\ Head(q) \notin ToSet(Tail(q))
<1> DEFINE p == Tail(q)
<1>1. /\ Len(q) \in Nat \ {0} /\ DOMAIN q = 1..Len(q)
      /\ p \in Seq(S) /\ Len(p) = Len(q) - 1 /\ DOMAIN p = 1..(Len(q) - 1)
      /\ \A k \in 1..(Len(q) - 1) : p[k] = q[k + 1]
      /\ Head(q) = q[1] /\ q[1] \in S
  OBVIOUS
<1> HIDE DEF p
<1>2. \A k \in DOMAIN q : k = 1 \/ (k - 1 \in DOMAIN p /\ p[k - 1] = q[k])
  BY <1>1
<1>3. \A k \in DOMAIN p : k + 1 \in DOMAIN q /\ p[k] = q[k + 1] /\ k + 1 # 1
  BY <1>1
<1>4. 1 \in DOMAIN q
  BY <1>1
<1>5. ToSet(q) = ToSet(p) \cup {q[1]}
  BY <1>2, <1>3, <1>4 DEF ToSet
<1>6. ASSUME IsInjective(q) PROVE IsInjective(p) /\ q[1] \notin ToSet(p)
  <2>1. q[1] \notin ToSet(p)
    BY <1>3, <1>4, <1>6 DEF IsInjective, ToSet
  <2>2. ASSUME NEW j \in DOMAIN p, NEW k \in DOMAIN p, p[j] = p[k] PROVE j = k
    <3>1. j + 1 = k + 1
      BY <1>3, <1>6, <2>2 DEF IsInjective
    <3> QED
      BY <1>1, <3>1
  <2> QED
    BY <2>1, <2>2 DEF IsInjective
<1> QED
  BY <1>1, <1>3, <1>4, <1>5, <1>6 DEF p, ToSet

\* Two sequences put end to end.
LEMMA ConcatFacts ==
    ASSUME NEW S, NEW p \in Seq(S), NEW q \in Seq(S)
    PROVE  /\ p \o q \in Seq(S) /\ ToSet(p \o q) = ToSet(p) \cup ToSet(q)
           /\ Len(p \o q) = Len(p) + Len(q) /\ Len(p) \in Nat /\ Len(q) \in Nat
           /\ DOMAIN (p \o q) = 1..(Len(p) + Len(q))
           /\ \A k \in DOMAIN (p \o q) :
                 \/ k \in DOMAIN p /\ (p \o q)[k] = p[k]
                 \/ k - Len(p) \in DOMAIN q /\ k > Len(p) /\ (p \o q)[k] = q[k - Len(p)]
           /\ IsInjective(p) /\ IsInjective(q) /\ ToSet(p) \cap ToSet(q) = {} => IsInjective(p \o q)
<1> DEFINE r == p \o q
           m == Len(p)
           n == Len(q)
<1>1. /\ m \in Nat /\ n \in Nat /\ DOMAIN p = 1..m /\ DOMAIN q = 1..n
      /\ r \in Seq(S) /\ Len(r) = m + n /\ DOMAIN r = 1..(m + n)
      /\ \A k \in 1..(m + n) : r[k] = IF k <= m THEN p[k] ELSE q[k - m]
  OBVIOUS
<1> HIDE DEF r, m, n
<1>2. \A k \in DOMAIN r : \/ k \in DOMAIN p /\ r[k] = p[k]
                          \/ k - m \in DOMAIN q /\ k > m /\ r[k] = q[k - m]
  <2>1. \A k \in 1..(m + n) : k <= m => k \in 1..m /\ r[k] = p[k]
    BY <1>1
  <2>2. \A k \in 1..(m + n) : ~(k <= m) => k - m \in 1..n /\ k > m /\ r[k] = q[k - m]
    BY <1>1
  <2>3. DOMAIN r = 1..(m + n) /\ DOMAIN p = 1..m /\ DOMAIN q = 1..n
    BY <1>1
  <2> QED
    BY <2>1, <2>2, <2>3
<1>3. \A k \in DOMAIN p : k \in DOMAIN r /\ r[k] = p[k]
  BY <1>1
<1>4. \A k \in DOMAIN q : m + k \in DOMAIN r /\ r[m + k] = q[k]
  BY <1>1
<1>5. ToSet(r) = ToSet(p) \cup ToSet(q)
  BY <1>2, <1>3, <1>4 DEF ToSet
<1>6. ASSUME IsInjective(p), IsInjective(q), ToSet(p) \cap ToSet(q) = {} PROVE IsInjective(r)
  <2> SUFFICES ASSUME NEW j \in DOMAIN r, NEW k \in DOMAIN r, r[j] = r[k] PROVE j = k
    BY DEF IsInjective
  <2>1. ~(j \in DOMAIN p /\ r[j] = p[j] /\ k - m \in DOMAIN q /\ r[k] = q[k - m])
    BY <1>6 DEF ToSet
  <2>2. ~(k \in DOMAIN p /\ r[k] = p[k] /\ j - m \in DOMAIN q /\ r[j] = q[j - m])
    BY <1>6 DEF ToSet
  <2>3. CASE j \in DOMAIN p /\ r[j] = p[j] /\ k \in DOMAIN p /\ r[k] = p[k]
    BY <1>6, <2>3 DEF IsInjective
  <2>4. CASE j - m \in DOMAIN q /\ r[j] = q[j - m] /\ k - m \in DOMAIN q /\ r[k] = q[k - m]
    <3>1. j - m = k - m
      BY <1>6, <2>4 DEF IsInjective
    <3> QED
      BY <1>1, <3>1
  <2> QED
    BY <1>2, <2>1, <2>2, <2>3, <2>4
<1> QED
  BY <1>1, <1>2, <1>5, <1>6 DEF r, m, n

\* The empty sequence.
LEMMA NoneInside == ToSet(<<>>) = {} /\ IsInjective(<<>>)
BY DEF ToSet, IsInjective

\* A sequence without repetitions over the ids is no longer than there are ids.
LEMMA InjectiveIsShort ==
    ASSUME NEW q \in Seq(Ids), IsInjective(q)
    PROVE  Len(q) \in Nat /\ Len(q) <= Total
<1>1. Len(q) \in Nat /\ DOMAIN q = 1..Len(q) /\ q \in [1..Len(q) -> Ids]
  OBVIOUS
<1>2. IsFiniteSet(1..Len(q)) /\ Cardinality(1..Len(q)) = Len(q)
  BY <1>1, FS_Interval
<1>3. q \in Injection(1..Len(q), Ids)
  BY <1>1 DEF Injection, IsInjective
<1> QED
  BY <1>1, <1>2, <1>3, SpanIdsAssumption, FS_Injection DEF Total

-----------------------------------------------------------------------------
(* Cycles: what the walks close, and that no cycle is left.                *)

\* What is known and who is whose parent decides who is on a cycle.
UpFrom(i, up, known) ==
    CHOOSE h : h = [n \in 0..Total |-> IF n = 0 THEN i
                                       ELSE IF h[n - 1] \in known THEN up[h[n - 1]] ELSE None]

\* A cycle depends on the ids known and their parents alone.
LEMMA CyclesStay ==
    ASSUME UNCHANGED <<order, parent>> PROVE \A i \in Ids : OnCycle(i)' <=> OnCycle(i)
<1>1. ASSUME NEW i PROVE Ancestor(i) = UpFrom(i, parent, Known)
  BY Zenon DEF Ancestor, UpFrom, Total
<1>2. ASSUME NEW i PROVE Ancestor(i)' = UpFrom(i, parent', Known')
  BY Zenon DEF Ancestor, UpFrom, Total
<1>3. Known' = Known
  BY DEF Known
<1>4. \A i : Ancestor(i)' = Ancestor(i)
  BY <1>1, <1>2, <1>3
<1> QED
  BY <1>4 DEF OnCycle

\* The stretch of a walk from where it met itself is a cycle.
LEMMA PathCycle ==
    ASSUME TreeTypeOK, PathInv, pc = "follow", NEW k \in DOMAIN path, path[k] = current,
           visited \subseteq Known, TodoInv
    PROVE  \A m \in k..Len(path) : OnCycle(path[m])
<1> DEFINE L == Len(path)
           n == (L - k) + 1
<1>1. /\ path \in Seq(Ids) /\ L \in Nat /\ DOMAIN path = 1..L /\ k \in 1..L
      /\ \A m \in 1..L : path[m] \in Known
      /\ \A m \in 1..(L - 1) : parent[path[m]] = path[m + 1]
      /\ parent[path[L]] = path[k]
  <2>1. path \in Seq(Ids) /\ path # <<>>
    BY DEF TreeTypeOK
  <2>2. \A m \in DOMAIN path : path[m] \in Known
    BY DEF PathInv, ToSet
  <2> QED
    BY <2>1, <2>2 DEF PathInv
<1>2. L <= Total /\ Total \in Nat
  BY <1>1, InjectiveIsShort, TotalIsNat DEF PathInv
<1> HIDE DEF L
<1>3. n \in 1..Total /\ n <= L
  BY <1>1, <1>2
<1> SUFFICES ASSUME NEW m \in k..L PROVE OnCycle(path[m])
  BY DEF L
<1> DEFINE c == [t \in 0..n |-> IF m + t <= L THEN path[m + t] ELSE path[(m + t) - n]]
           up == Ancestor(path[m])
<1>4. m \in 1..L /\ path[m] \in Ids
  BY <1>1 DEF L
<1>5. /\ \A t \in 0..Total : up[t] = IF t = 0 THEN path[m]
                               ELSE IF up[t - 1] \in Known THEN parent[up[t - 1]] ELSE None
  <2>1. Known \subseteq Ids
    BY DEF TreeTypeOK, Known, ToSet
  <2> QED
    BY <1>4, <2>1, AncestorSteps DEF TreeTypeOK
<1> HIDE DEF up
<1>6. c[0] = path[m]
  BY <1>3, <1>4
<1>0. L \in Nat /\ k \in 1..L /\ m \in k..L /\ n = (L - k) + 1 /\ n \in Nat
  BY <1>1
<1>7. ASSUME NEW t \in 1..n PROVE c[t - 1] \in Known /\ c[t] = parent[c[t - 1]]
  <2>1. t - 1 \in 0..n /\ t \in 0..n
    BY <1>3
  <2>2. CASE m + t <= L
    <3>1. c[t] = path[m + t] /\ c[t - 1] = path[(m + t) - 1]
      BY <1>0, <2>1, <2>2
    <3>2. (m + t) - 1 \in 1..(L - 1) /\ (m + t) - 1 \in 1..L /\ ((m + t) - 1) + 1 = m + t
      BY <1>0, <2>2
    <3> HIDE DEF c
    <3> QED
      BY <1>1, <3>1, <3>2
  <2>3. CASE m + t = L + 1
    <3>1. (m + t) - n = k /\ (m + t) - 1 = L /\ m + (t - 1) = L
      BY <1>0, <2>3
    <3>2. c[t] = path[k] /\ c[t - 1] = path[L]
      BY <1>0, <2>1, <2>3, <3>1
    <3>3. L \in 1..L
      BY <1>1
    <3> HIDE DEF c, n
    <3> QED
      BY <1>1, <3>2, <3>3
  <2>4. CASE m + t > L + 1
    <3>1. c[t] = path[(m + t) - n] /\ c[t - 1] = path[(m + (t - 1)) - n]
      BY <1>1, <1>3, <1>4, <2>1, <2>4
    <3>2. /\ (m + (t - 1)) - n \in 1..(L - 1) /\ (m + (t - 1)) - n \in 1..L
          /\ ((m + (t - 1)) - n) + 1 = (m + t) - n
      BY <1>1, <1>3, <1>4, <2>4
    <3> HIDE DEF c
    <3> QED
      BY <1>1, <3>1, <3>2
  <2> QED
    BY <1>1, <1>3, <1>4, <2>2, <2>3, <2>4
<1>8. c[n] = path[m]
  BY <1>1, <1>3, <1>4
<1> HIDE DEF c, n
<1> DEFINE B == {t \in 0..n : up[t] # c[t]}
<1>9. B = {}
  <2> SUFFICES ASSUME B # {} PROVE FALSE
    OBVIOUS
  <2>1. PICK t \in B : \A u \in B : t <= u
    <3>1. B \subseteq Nat
      BY <1>3
    <3> HIDE DEF B
    <3> QED
      BY <3>1, LeastNat
  <2>2. t \in 0..n /\ t \in 0..Total /\ up[t] # c[t]
    BY <1>2, <1>3, <2>1
  <2>3. CASE t = 0
    BY <1>5, <1>6, <2>2, <2>3
  <2>4. CASE t # 0
    <3>1. t \in 1..n /\ t - 1 \in 0..n /\ t - 1 \notin B
      BY <1>3, <2>1, <2>2, <2>4
    <3>2. up[t - 1] = c[t - 1]
      BY <3>1
    <3> QED
      BY <1>5, <1>7, <2>2, <2>4, <3>1, <3>2
  <2> QED
    BY <2>3, <2>4
<1>10. up[n] = path[m]
  <2>1. n \in 0..n
    BY <1>3
  <2>2. up[n] = c[n]
    BY <1>9, <2>1
  <2> QED
    BY <1>8, <2>2
<1> QED
  BY <1>3, <1>10 DEF OnCycle, up, Total

\* A closed way up is a cycle that the walks have found.
LEMMA CyclesAreFound ==
    ASSUME TreeTypeOK, WalkInv, visited = Known, NEW i \in Known, OnCycle(i)
    PROVE  i \in cyclic
<1> SUFFICES ASSUME i \notin cyclic PROVE FALSE
  OBVIOUS
<1>1. PICK n \in 1..Total : Ancestor(i)[n] = i
  BY DEF OnCycle, Total
<1> DEFINE up == Ancestor(i)
<1>2. Known \subseteq Ids /\ i \in Ids /\ None \notin Ids
  BY SpanIdsAssumption DEF TreeTypeOK, Known, ToSet
<1>3. /\ \A t \in 0..Total : up[t] = IF t = 0 THEN i
                               ELSE IF up[t - 1] \in Known THEN parent[up[t - 1]] ELSE None
  BY <1>2, AncestorSteps DEF TreeTypeOK
<1>4. up[n] = i
  BY <1>1
<1> HIDE DEF up
<1>5. n \in Nat /\ n # 0 /\ \A t \in 0..n : t \in 0..Total
  BY TotalIsNat
\* From a span that is not known, or is on a found cycle, the way does not come back.
<1> DEFINE Off(x) == x \notin Known \/ x \in cyclic
           B == {t \in 0..n : Off(up[t])}
<1>6. ASSUME NEW t \in 0..n, Off(up[t]) PROVE FALSE
  <2>1. PICK b \in B : \A u \in B : u <= b
    <3>1. t \in B /\ B \subseteq Nat /\ \A u \in B : u <= n
      BY <1>5, <1>6
    <3> HIDE DEF B
    <3> QED
      BY <1>5, <3>1, GreatestNat
  <2>2. b \in 0..n /\ Off(up[b])
    BY <2>1
  <2>3. b # n
    BY <1>4, <2>2
  <2>4. b + 1 \in 0..n /\ b + 1 \in 0..Total /\ (b + 1) - 1 = b /\ b + 1 # 0 /\ b + 1 \notin B
    BY <1>5, <2>1, <2>2, <2>3
  <2>5. up[b + 1] = IF up[b] \in Known THEN parent[up[b]] ELSE None
    BY <1>3, <2>4
  <2>6. Off(up[b + 1])
    BY <1>2, <2>2, <2>5 DEF WalkInv
  <2> QED
    BY <2>4, <2>6
<1> DEFINE X == {up[t] : t \in 0..(n - 1)}
<1>7. \A t \in 0..n : up[t] \in Known \ cyclic
  BY <1>6
<1>8. X \subseteq visited \ cyclic /\ X # {}
  <2>1. 0 \in 0..(n - 1) /\ \A t \in 0..(n - 1) : t \in 0..n
    BY <1>5
  <2>2. X \subseteq visited \ cyclic
    BY <1>7, <2>1
  <2> QED
    BY <2>1, <2>2
<1>9. ASSUME NEW t \in 0..(n - 1) PROVE parent[up[t]] \in X
  <2>1. t \in 0..n /\ t + 1 \in 0..n /\ t + 1 # 0 /\ (t + 1) - 1 = t
    BY <1>5
  <2>2. up[t + 1] = parent[up[t]]
    BY <1>3, <1>5, <1>7, <2>1
  <2>3. CASE t + 1 = n
    <3>1. up[t + 1] = i /\ up[0] = i /\ 0 \in 0..(n - 1)
      BY <1>3, <1>4, <1>5, <2>3
    <3> QED
      BY <2>2, <3>1
  <2>4. CASE t + 1 # n
    <3>1. t + 1 \in 0..(n - 1)
      BY <1>5, <2>4
    <3> QED
      BY <2>2, <3>1
  <2> QED
    BY <2>3, <2>4
<1>10. \A x \in X : parent[x] \in X
  BY <1>9
<1> HIDE DEF X
<1> QED
  BY <1>8, <1>10 DEF WalkInv, Acyclic

-----------------------------------------------------------------------------
(* Collecting the rows and walking the chains.                             *)

\* What is known are ids.
LEMMA KnownAreIds == TreeTypeOK => Known \subseteq Ids
BY DEF TreeTypeOK, Known, ToSet

\* Before the walks, nothing is marked.
LEMMA BlankWalk == WalkBlank => WalkInv
BY DEF WalkBlank, WalkInv, Acyclic

\* And after a step that leaves nothing marked.
LEMMA BlankWalkNext == WalkBlank' => WalkInv'
BY DEF WalkBlank, WalkInv, Acyclic

\* Before the links, nothing is placed.
LEMMA BlankLink ==
    LinkBlank /\ pc \notin Linked => LinkInv /\ OrphanInv
<1> SUFFICES ASSUME LinkBlank, pc \notin Linked PROVE LinkInv /\ OrphanInv
  OBVIOUS
<1>1. \A i \in Ids : children[i] = <<>>
  BY DEF LinkBlank
<1> QED
  BY <1>1, NoneInside DEF LinkBlank, LinkInv, OrphanInv, Linked, Bounding

\* And after a step that leaves nothing placed.
LEMMA BlankLinkNext ==
    LinkBlank' /\ pc' \notin Linked => LinkInv' /\ OrphanInv'
<1> SUFFICES ASSUME LinkBlank', pc' \notin Linked PROVE LinkInv' /\ OrphanInv'
  OBVIOUS
<1>1. \A i \in Ids : children'[i] = <<>>
  BY DEF LinkBlank
<1> QED
  BY <1>1, NoneInside DEF LinkBlank, LinkInv, OrphanInv, Linked, Bounding

\* Steps that mark nothing.
LEMMA WalkStays ==
    ASSUME TreeTypeOK, WalkInv, UNCHANGED <<order, parent, visited, cyclic>> PROVE WalkInv'
<1>1. Known' = Known /\ cyclic \subseteq Ids
  BY DEF Known, TreeTypeOK
<1>2. \A i \in cyclic : OnCycle(i)'
  BY <1>1, CyclesStay DEF WalkInv
<1> QED
  BY <1>1, <1>2 DEF WalkInv, Acyclic

\* A row is collected under its id, or passed over.
LEMMA CollectKeeps == ASSUME TreeInv, Collect PROVE TreeInv'
<1>1. /\ pc = "collect" /\ rows # <<>> /\ rows' = Tail(rows)
      /\ UNCHANGED <<pc, todo, visited, path, current, cyclic, root, children, orphans, queue>>
  BY DEF Collect, walk, tree
<1>2. PhaseInv /\ TreeTypeOK /\ TodoInv
  BY DEF TreeInv
<1>3. Head(rows) \in Row /\ Tail(rows) \in Seq(Row)
  BY <1>1, <1>2, TailFacts DEF TreeTypeOK
<1>4. /\ order' \in Seq(Ids) /\ IsInjective(order') /\ parent' \in [Ids -> Ids \cup {None}]
  <2>1. CASE Head(rows).id \in Known
    <3>1. order' = order /\ parent' = parent
      BY <2>1 DEF Collect
    <3> QED
      BY <1>2, <3>1 DEF TreeTypeOK, TodoInv
  <2>2. CASE Head(rows).id \notin Known
    <3> DEFINE i == Head(rows).id
               p == Head(rows).parent
    <3>1. order' = Append(order, i) /\ parent' = [parent EXCEPT ![i] = p]
      BY <2>2 DEF Collect
    <3>2. i \in Ids /\ p \in Ids \cup {None}
      BY <1>3 DEF Row
    <3>3. i \notin ToSet(order)
      BY <2>2 DEF Known
    <3> HIDE DEF i, p
    <3>4. order' \in Seq(Ids)
      BY <1>2, <3>1, <3>2 DEF TreeTypeOK
    <3>5. IsInjective(order')
      BY <1>2, <3>1, <3>2, <3>3, InjectiveAppend DEF TreeTypeOK, TodoInv
    <3>6. parent' \in [Ids -> Ids \cup {None}]
      BY <1>2, <3>1, <3>2 DEF TreeTypeOK
    <3> QED
      BY <3>4, <3>5, <3>6
  <2> QED
    BY <2>1, <2>2
<1>5. PhaseInv' /\ WalkBlank' /\ LinkBlank'
  BY <1>1, <1>2 DEF PhaseInv, WalkBlank, LinkBlank, Linked, Bounding
<1>6. TreeTypeOK'
  BY <1>1, <1>2, <1>3, <1>4 DEF TreeTypeOK
<1>7. TodoInv'
  BY <1>1, <1>2, <1>4, NoneInside DEF TodoInv, PhaseInv
<1>8. PathInv' /\ StillToWalk'
  BY <1>1, <1>5, NoneInside DEF WalkBlank, PathInv, StillToWalk, Linked
<1>9. pc' \notin Linked
  BY <1>1 DEF Linked
<1> QED
  BY <1>5, <1>6, <1>7, <1>8, <1>9, BlankWalkNext, BlankLinkNext DEF TreeInv

\* The walks begin with every id to do.
LEMMA StartWalksKeeps == ASSUME TreeInv, StartWalks PROVE TreeInv'
<1>1. /\ pc = "collect" /\ pc' = "start" /\ todo' = order
      /\ UNCHANGED <<rows, order, parent, visited, path, current, cyclic, root, children, orphans, queue>>
  BY DEF StartWalks, input, walk, tree
<1>2. PhaseInv /\ TreeTypeOK /\ TodoInv /\ WalkInv
  BY DEF TreeInv
<1>3. WalkBlank' /\ LinkBlank' /\ pc' \notin Linked
  BY <1>1, <1>2 DEF PhaseInv, WalkBlank, LinkBlank, Linked
<1>4. PhaseInv'
  BY <1>1, <1>2, <1>3 DEF PhaseInv, Linked, Bounding
<1>5. TreeTypeOK' /\ TodoInv'
  BY <1>1, <1>2 DEF TreeTypeOK, TodoInv, Known
<1>6. PathInv' /\ StillToWalk'
  BY <1>1, <1>3, NoneInside DEF WalkBlank, PathInv, StillToWalk, Known, Linked
<1> QED
  BY <1>3, <1>4, <1>5, <1>6, BlankWalkNext, BlankLinkNext DEF TreeInv

\* The steps of the walks leave the nodes alone.
LEMMA NodesStay ==
    ASSUME TreeInv, pc \notin Linked, pc' \notin Linked, UNCHANGED <<root, children, orphans>>
    PROVE  LinkInv' /\ OrphanInv' /\ LinkBlank'
<1>1. LinkBlank'
  BY DEF TreeInv, PhaseInv, LinkBlank
<1> QED
  BY <1>1, BlankLinkNext

\* A span walked before is not walked again.
LEMMA SkipStartKeeps == ASSUME TreeInv, SkipStart PROVE TreeInv'
<1>1. /\ pc = "start" /\ todo # <<>> /\ Head(todo) \in visited /\ todo' = Tail(todo)
      /\ UNCHANGED <<pc, rows, order, parent, visited, path, current, cyclic, root, children, orphans, queue>>
  BY DEF SkipStart, input, walk, tree
<1>2. PhaseInv /\ TreeTypeOK /\ TodoInv /\ WalkInv /\ PathInv /\ StillToWalk
  BY DEF TreeInv
<1>3. /\ Tail(todo) \in Seq(Ids) /\ IsInjective(Tail(todo)) /\ ToSet(todo) = ToSet(Tail(todo)) \cup {Head(todo)}
  BY <1>1, <1>2, TailFacts DEF TreeTypeOK, TodoInv
<1>4. LinkInv' /\ OrphanInv' /\ LinkBlank'
  BY <1>1, NodesStay DEF Linked
<1>5. PhaseInv'
  BY <1>1, <1>2, <1>4 DEF PhaseInv, Linked, Bounding
<1>6. TreeTypeOK' /\ TodoInv'
  BY <1>1, <1>2, <1>3 DEF TreeTypeOK, TodoInv, Known
<1>7. WalkInv'
  BY <1>1, <1>2, WalkStays
<1>8. PathInv' /\ StillToWalk'
  BY <1>1, <1>2, <1>3 DEF PathInv, StillToWalk, Known, Linked
<1> QED
  BY <1>4, <1>5, <1>6, <1>7, <1>8 DEF TreeInv

\* A walk begins at a span that no other has met.
LEMMA BeginWalkKeeps == ASSUME TreeInv, BeginWalk PROVE TreeInv'
<1>1. /\ pc = "start" /\ todo # <<>> /\ Head(todo) \notin visited /\ todo' = Tail(todo)
      /\ pc' = "follow" /\ current' = Head(todo)
      /\ UNCHANGED <<rows, order, parent, visited, path, cyclic, root, children, orphans, queue>>
  BY DEF BeginWalk, input, tree
<1>2. PhaseInv /\ TreeTypeOK /\ TodoInv /\ WalkInv /\ PathInv /\ StillToWalk
  BY DEF TreeInv
<1>3. /\ Tail(todo) \in Seq(Ids) /\ IsInjective(Tail(todo)) /\ ToSet(todo) = ToSet(Tail(todo)) \cup {Head(todo)}
      /\ Head(todo) \in Ids
  BY <1>1, <1>2, TailFacts DEF TreeTypeOK, TodoInv
<1>4. LinkInv' /\ OrphanInv' /\ LinkBlank'
  BY <1>1, NodesStay DEF Linked
<1>5. PhaseInv'
  BY <1>1, <1>2, <1>4 DEF PhaseInv, Linked, Bounding
<1>6. TreeTypeOK' /\ TodoInv'
  BY <1>1, <1>2, <1>3 DEF TreeTypeOK, TodoInv, Known
<1>7. WalkInv'
  BY <1>1, <1>2, WalkStays
<1>8. PathInv'
  BY <1>1, <1>2, <1>3, NoneInside DEF PathInv, TodoInv, Known
<1>9. StillToWalk'
  BY <1>1, <1>2, <1>3 DEF StillToWalk, Known, Linked
<1> QED
  BY <1>4, <1>5, <1>6, <1>7, <1>8, <1>9 DEF TreeInv

\* The walk goes on to the parent, which it has not met.
LEMMA FollowKeeps == ASSUME TreeInv, Follow PROVE TreeInv'
<1>1. /\ pc = "follow" /\ current \in Known \ (visited \cup ToSet(path))
      /\ path' = Append(path, current) /\ current' = parent[current]
      /\ UNCHANGED <<pc, rows, order, parent, todo, visited, cyclic, root, children, orphans, queue>>
  BY DEF Follow, input, tree
<1>2. PhaseInv /\ TreeTypeOK /\ TodoInv /\ WalkInv /\ PathInv /\ StillToWalk
  BY DEF TreeInv
<1>3. current \in Ids /\ parent[current] \in Ids \cup {None}
  BY <1>1, <1>2, KnownAreIds DEF TreeTypeOK
<1>4. /\ path' \in Seq(Ids) /\ Len(path') = Len(path) + 1 /\ ToSet(path') = ToSet(path) \cup {current}
      /\ \A k \in 1..Len(path) : path'[k] = path[k]
      /\ path'[Len(path) + 1] = current /\ path' # <<>>
  <2>1. path \in Seq(Ids)
    BY <1>2 DEF TreeTypeOK
  <2>2. /\ Append(path, current) \in Seq(Ids) /\ Len(Append(path, current)) = Len(path) + 1
        /\ ToSet(Append(path, current)) = ToSet(path) \cup {current}
        /\ \A k \in 1..Len(path) : Append(path, current)[k] = path[k]
        /\ Append(path, current)[Len(path) + 1] = current /\ Append(path, current) # <<>>
    BY <1>3, <2>1, AppendFacts
  <2> QED
    BY <1>1, <2>2
<1>0. Len(path) \in Nat
  BY <1>2 DEF TreeTypeOK
<1>5. IsInjective(path')
  BY <1>1, <1>2, <1>3, InjectiveAppend DEF TreeTypeOK, PathInv
<1>6. LinkInv' /\ OrphanInv' /\ LinkBlank'
  BY <1>1, NodesStay DEF Linked
<1>7. PhaseInv'
  BY <1>1, <1>2, <1>6 DEF PhaseInv, Linked, Bounding
<1>8. TreeTypeOK' /\ TodoInv'
  BY <1>1, <1>2, <1>3, <1>4 DEF TreeTypeOK, TodoInv, Known
<1>9. WalkInv'
  BY <1>1, <1>2, WalkStays
<1>10. PathInv'
  <2>1. ASSUME NEW k \in 1..(Len(path') - 1) PROVE parent[path'[k]] = path'[k + 1]
    <3>1. k \in 1..Len(path) /\ path'[k] = path[k]
      BY <1>0, <1>4
    <3>2. CASE k = Len(path)
      <4>1. path # <<>>
        BY <3>1
      <4> QED
        BY <1>1, <1>2, <1>4, <3>1, <3>2, <4>1 DEF PathInv
    <3>3. CASE k # Len(path)
      <4>1. k \in 1..(Len(path) - 1) /\ k + 1 \in 1..Len(path)
        BY <1>0, <3>1, <3>3
      <4> QED
        BY <1>2, <1>4, <3>1, <4>1 DEF PathInv
    <3> QED
      BY <3>2, <3>3
  <2>2. ToSet(path') \subseteq Known' \ visited'
    BY <1>1, <1>2, <1>4 DEF PathInv, Known
  <2>3. current' = parent'[path'[Len(path')]]
    BY <1>1, <1>4
  <2> QED
    BY <1>1, <1>4, <1>5, <2>1, <2>2, <2>3 DEF PathInv
<1>11. StillToWalk'
  BY <1>1, <1>2, <1>4 DEF StillToWalk, Known, Linked
<1> QED
  BY <1>6, <1>7, <1>8, <1>9, <1>10, <1>11 DEF TreeInv

\* A set closed upwards that the path meets holds the end of the path.
LEMMA PathClimbs ==
    ASSUME TreeTypeOK, PathInv, pc = "follow", NEW X, \A i \in X : parent[i] \in X,
           X \cap ToSet(path) # {}
    PROVE  path # <<>> /\ current \in X
<1>1. /\ path \in Seq(Ids) /\ Len(path) \in Nat /\ DOMAIN path = 1..Len(path)
  BY DEF TreeTypeOK
<1> DEFINE B == {k \in 1..Len(path) : path[k] \in X}
<1>2. PICK m \in B : \A k \in B : k <= m
  <2>1. B \subseteq Nat /\ B # {} /\ \A k \in B : k <= Len(path)
    BY <1>1 DEF ToSet
  <2> HIDE DEF B
  <2> QED
    BY <1>1, <2>1, GreatestNat
<1>3. m \in 1..Len(path) /\ path[m] \in X
  BY <1>2
<1>4. m = Len(path)
  <2> SUFFICES ASSUME m # Len(path) PROVE FALSE
    OBVIOUS
  <2>0. Len(path) \in Nat /\ m \in 1..Len(path)
    BY <1>1, <1>3
  <2>1. m \in 1..(Len(path) - 1) /\ m + 1 \in 1..Len(path)
    BY <2>0
  <2>2. path[m + 1] \in X
    BY <1>3, <2>1 DEF PathInv
  <2>3. m + 1 <= m
    BY <1>2, <2>1, <2>2
  <2> QED
    BY <2>0, <2>3
<1>5. path # <<>>
  BY <1>1, <1>3
<1> QED
  BY <1>3, <1>4, <1>5 DEF PathInv

\* What the two ends of a walk have in common: Found is the cycle, or nothing.
LEMMA EndWalkKeeps ==
    ASSUME TreeInv, pc = "follow", EndWalk, NEW Found \in SUBSET ToSet(path),
           cyclic' = cyclic \cup Found,
           current \in ToSet(path) \/ current \notin Known \/ current \in visited,
           \A i \in Found : parent[i] \in Found /\ OnCycle(i),
           current \in ToSet(path) => current \in Found
    PROVE  TreeInv'
<1>1. /\ pc' = "start" /\ path' = <<>> /\ current' = None /\ visited' = visited \cup ToSet(path)
      /\ UNCHANGED <<rows, order, parent, todo, root, children, orphans, queue>>
  BY DEF EndWalk, input, tree
<1>2. PhaseInv /\ TreeTypeOK /\ TodoInv /\ WalkInv /\ PathInv /\ StillToWalk
  BY DEF TreeInv
<1>3. LinkInv' /\ OrphanInv' /\ LinkBlank'
  BY <1>1, NodesStay DEF Linked
<1>4. PhaseInv'
  BY <1>1, <1>2, <1>3 DEF PhaseInv, Linked, Bounding
<1>5. ToSet(path) \subseteq Known /\ Known \subseteq Ids /\ Known' = Known
  BY <1>1, <1>2, KnownAreIds DEF PathInv, Known
<1>6. TreeTypeOK' /\ TodoInv'
  BY <1>1, <1>2, <1>5 DEF TreeTypeOK, TodoInv
<1>7. PathInv'
  BY <1>1, NoneInside DEF PathInv
<1>8. StillToWalk'
  BY <1>1, <1>2, <1>5 DEF StillToWalk, PathInv, Linked
<1>9. ASSUME NEW i \in visited', parent[i] \in Known PROVE parent[i] \in visited'
  <2>1. CASE i \in visited
    BY <1>1, <1>2, <1>9, <2>1 DEF WalkInv
  <2>2. CASE i \in ToSet(path)
    <3>0. path \in Seq(Ids) /\ Len(path) \in Nat /\ DOMAIN path = 1..Len(path)
      BY <1>2 DEF TreeTypeOK
    <3>1. PICK k \in 1..Len(path) : i = path[k]
      BY <2>2, <3>0 DEF ToSet
    <3>2. CASE k = Len(path)
      <4>1. parent[i] = current
        BY <1>2, <3>0, <3>1, <3>2 DEF PathInv
      <4> QED
        BY <1>1, <1>9, <4>1
    <3>3. CASE k # Len(path)
      <4>1. k \in 1..(Len(path) - 1) /\ k + 1 \in DOMAIN path
        BY <3>0, <3>1, <3>3
      <4>2. parent[i] \in ToSet(path)
        BY <1>2, <3>1, <4>1 DEF PathInv, ToSet
      <4> QED
        BY <1>1, <4>2
    <3> QED
      BY <3>2, <3>3
  <2> QED
    BY <1>1, <2>1, <2>2
<1>10. ASSUME NEW X \in SUBSET (visited' \ cyclic'), X # {}, \A i \in X : parent[i] \in X
       PROVE  FALSE
  <2>1. CASE X \cap ToSet(path) = {}
    <3>1. X \subseteq visited \ cyclic
      BY <1>1, <2>1
    <3> QED
      BY <1>2, <1>10, <3>1 DEF WalkInv, Acyclic
  <2>2. CASE X \cap ToSet(path) # {}
    <3>1. current \in X
      BY <1>2, <1>10, <2>2, PathClimbs
    <3>2. current \in visited /\ current \in Known
      BY <1>1, <1>2, <1>5, <3>1 DEF WalkInv
    <3> DEFINE Y == X \cap visited
    <3>3. Y \subseteq visited \ cyclic /\ Y # {}
      BY <3>1, <3>2
    <3>4. \A i \in Y : parent[i] \in Y
      BY <1>1, <1>2, <1>5, <1>10 DEF WalkInv
    <3> HIDE DEF Y
    <3> QED
      BY <1>2, <3>3, <3>4 DEF WalkInv, Acyclic
  <2> QED
    BY <2>1, <2>2
<1>11. WalkInv'
  <2>1. cyclic' \subseteq visited' /\ visited' \subseteq Known'
    BY <1>1, <1>2, <1>5 DEF WalkInv
  <2>2. \A i \in cyclic' : parent'[i] \in cyclic' /\ OnCycle(i)'
    <3>1. \A i \in cyclic' : parent[i] \in cyclic' /\ OnCycle(i) /\ i \in Ids
      BY <1>2, <1>5 DEF WalkInv, TreeTypeOK
    <3> QED
      BY <1>1, <3>1, CyclesStay
  <2>3. Acyclic(visited \ cyclic)'
    BY <1>1, <1>10 DEF Acyclic
  <2> QED
    BY <1>1, <1>5, <1>9, <2>1, <2>2, <2>3 DEF WalkInv
<1> QED
  BY <1>3, <1>4, <1>6, <1>7, <1>8, <1>11 DEF TreeInv

\* What is on a cycle is found, and nothing else.
LEMMA CloseCycleKeeps == ASSUME TreeInv, CloseCycle PROVE TreeInv'
<1>1. pc = "follow" /\ current \in ToSet(path) /\ EndWalk
  BY DEF CloseCycle
<1>2. PICK k \in DOMAIN path : /\ path[k] = current
                              /\ cyclic' = cyclic \cup ToSet(SubSeq(path, k, Len(path)))
  BY DEF CloseCycle
<1>3. TreeTypeOK /\ PathInv /\ WalkInv /\ TodoInv
  BY DEF TreeInv
<1>4. path \in Seq(Ids) /\ Len(path) \in Nat /\ DOMAIN path = 1..Len(path)
  BY <1>3 DEF TreeTypeOK
<1> DEFINE Found == {path[m] : m \in k..Len(path)}
           cut == SubSeq(path, k, Len(path))
<1>0. Len(path) \in Nat /\ k \in 1..Len(path)
  BY <1>4
<1>5. ToSet(SubSeq(path, k, Len(path))) = Found
  <2>1. /\ DOMAIN cut = 1..((Len(path) - k) + 1)
        /\ \A j \in 1..((Len(path) - k) + 1) : cut[j] = path[(k + j) - 1]
    BY <1>4
  <2> HIDE DEF cut
  <2>2. \A j \in DOMAIN cut : (k + j) - 1 \in k..Len(path) /\ cut[j] = path[(k + j) - 1]
    BY <1>0, <2>1
  <2>3. \A m \in k..Len(path) : (m - k) + 1 \in DOMAIN cut /\ cut[(m - k) + 1] = path[m]
    <3> TAKE m \in k..Len(path)
    <3>1. (m - k) + 1 \in 1..((Len(path) - k) + 1) /\ (k + ((m - k) + 1)) - 1 = m
      BY <1>0
    <3> QED
      BY <2>1, <3>1
  <2>4. ToSet(cut) = Found
    <3>1. ToSet(cut) \subseteq Found
      BY <2>2 DEF ToSet
    <3>2. Found \subseteq ToSet(cut)
      BY <2>3 DEF ToSet
    <3> QED
      BY <3>1, <3>2
  <2> QED
    BY <2>4 DEF cut
<1>6. Found \in SUBSET ToSet(path)
  BY <1>4 DEF ToSet
<1>7. ASSUME NEW m \in k..Len(path) PROVE parent[path[m]] \in Found /\ OnCycle(path[m])
  <2>1. OnCycle(path[m])
    BY <1>1, <1>2, <1>3, PathCycle DEF WalkInv
  <2>2. k \in k..Len(path) /\ path # <<>>
    BY <1>4
  <2>3. CASE m = Len(path)
    BY <1>1, <1>2, <1>3, <2>1, <2>2, <2>3 DEF PathInv
  <2>4. CASE m # Len(path)
    <3>1. m \in 1..(Len(path) - 1) /\ m + 1 \in k..Len(path)
      BY <1>0, <2>4
    <3> QED
      BY <1>3, <2>1, <3>1 DEF PathInv
  <2> QED
    BY <2>3, <2>4
<1>8. current \in Found
  <2>1. k \in k..Len(path)
    BY <1>4
  <2> QED
    BY <1>2, <2>1
<1>9. \A i \in Found : parent[i] \in Found /\ OnCycle(i)
  BY <1>7
<1> HIDE DEF Found
<1> QED
  BY <1>1, <1>2, <1>5, <1>6, <1>8, <1>9, EndWalkKeeps

\* A chain that the walk leaves closes no cycle.
LEMMA LeaveChainKeeps == ASSUME TreeInv, LeaveChain PROVE TreeInv'
<1>1. /\ pc = "follow" /\ (current \notin Known \/ current \in visited) /\ EndWalk /\ cyclic' = cyclic
  BY DEF LeaveChain
<1>2. current \notin ToSet(path)
  BY <1>1 DEF TreeInv, PathInv
<1>3. {} \in SUBSET ToSet(path) /\ cyclic' = cyclic \cup {}
  BY <1>1
<1> QED
  BY <1>1, <1>2, <1>3, EndWalkKeeps

-----------------------------------------------------------------------------
(* Linking the nodes.                                                      *)

\* The tops are the root, if there is one, and the orphans.
LEMMA TopsFacts ==
    ASSUME NEW r \in Ids \cup {None}, NEW o \in Seq(Ids)
    PROVE  LET tops == (IF r = None THEN <<>> ELSE <<r>>) \o o
           IN  /\ tops \in Seq(Ids) /\ ToSet(tops) = ({r} \ {None}) \cup ToSet(o)
               /\ IsInjective(o) /\ r \notin ToSet(o) => IsInjective(tops)
<1> DEFINE first == IF r = None THEN <<>> ELSE <<r>>
<1>1. /\ first \in Seq(Ids) /\ ToSet(first) = {r} \ {None} /\ IsInjective(first)
  <2>1. CASE r = None
    BY <2>1, NoneInside
  <2>2. CASE r # None
    <3>1. first = <<r>> /\ r \in Ids
      BY <2>2
    <3>2. <<r>> \in Seq(Ids) /\ DOMAIN <<r>> = {1} /\ <<r>>[1] = r
      BY <3>1
    <3> QED
      BY <2>2, <3>1, <3>2 DEF ToSet, IsInjective
  <2> QED
    BY <2>1, <2>2
<1> HIDE DEF first
<1>2. /\ first \o o \in Seq(Ids) /\ ToSet(first \o o) = ({r} \ {None}) \cup ToSet(o)
      /\ IsInjective(o) /\ r \notin ToSet(o) => IsInjective(first \o o)
  BY <1>1, ConcatFacts
<1> QED
  BY <1>2 DEF first

\* The tops of this state, and of the next one.
LEMMA TreeTops ==
    TreeTypeOK => /\ Tops \in Seq(Ids) /\ ToSet(Tops) = ({root} \ {None}) \cup ToSet(orphans)
                  /\ IsInjective(orphans) /\ root \notin ToSet(orphans) => IsInjective(Tops)
BY TopsFacts DEF TreeTypeOK, Tops

\* The same of the next state.
LEMMA TreeTopsNext ==
    TreeTypeOK' => ToSet(Tops)' = ({root'} \ {None}) \cup ToSet(orphans')
<1> SUFFICES ASSUME TreeTypeOK' PROVE ToSet(Tops)' = ({root'} \ {None}) \cup ToSet(orphans')
  OBVIOUS
<1>1. root' \in Ids \cup {None} /\ orphans' \in Seq(Ids)
  BY DEF TreeTypeOK
<1> QED
  BY <1>1, TopsFacts DEF Tops

\* When the linking begins everything is walked and nothing is placed.
LEMMA StartLinksKeeps == ASSUME TreeInv, StartLinks PROVE TreeInv'
<1>1. /\ pc = "start" /\ todo = <<>> /\ pc' = "link" /\ todo' = order
      /\ UNCHANGED <<rows, order, parent, visited, path, current, cyclic, root, children, orphans, queue>>
  BY DEF StartLinks, input, walk, tree
<1>2. PhaseInv /\ TreeTypeOK /\ TodoInv /\ WalkInv /\ PathInv /\ StillToWalk
  BY DEF TreeInv
<1>3. root' = None /\ children' = [i \in Ids |-> <<>>] /\ orphans' = <<>>
  BY <1>1, <1>2 DEF PhaseInv, LinkBlank, Linked
<1>4. PhaseInv'
  BY <1>1, <1>2 DEF PhaseInv, Linked, Bounding
<1>5. TreeTypeOK' /\ TodoInv'
  BY <1>1, <1>2 DEF TreeTypeOK, TodoInv, Known
<1>6. WalkInv'
  BY <1>1, <1>2, WalkStays
<1>7. PathInv'
  BY <1>1, <1>2 DEF PathInv, Known
<1>8. StillToWalk'
  BY <1>1, <1>2, NoneInside DEF StillToWalk, WalkInv, Known, Linked
<1>9. \A i \in Ids : ToSet(children'[i]) = {} /\ IsInjective(children'[i])
  BY <1>3, NoneInside
<1>10. Placed' = {}
  <2>1. ToSet(Tops)' = {}
    BY <1>3, <1>5, NoneInside, TreeTopsNext
  <2>2. Placed' = ToSet(Tops)' \cup UNION {ToSet(children'[i]) : i \in Ids}
    BY DEF Placed
  <2> QED
    BY <1>9, <2>1, <2>2
<1>11. LinkInv' /\ OrphanInv'
  <2>1. Known' \ ToSet(todo') = {} /\ ToSet(orphans') = {} /\ IsInjective(orphans')
    BY <1>1, <1>3, NoneInside DEF Known
  <2> QED
    BY <1>1, <1>3, <1>9, <1>10, <2>1 DEF LinkInv, OrphanInv, Bounding
<1> QED
  BY <1>4, <1>5, <1>6, <1>7, <1>8, <1>11 DEF TreeInv

\* What a turn of the linking loop leaves as it is.
LEMMA LinkingEffect ==
    ASSUME TreeInv, Linking
    PROVE  /\ pc = "link" /\ todo # <<>> /\ todo' = Tail(todo) /\ pc' = "link"
           /\ UNCHANGED <<rows, order, parent, visited, path, current, cyclic, queue>>
           /\ Head(todo) \in Known \ Placed /\ Head(todo) \in Ids
           /\ Known' = Known /\ Known' \ ToSet(todo') = (Known \ ToSet(todo)) \cup {Head(todo)}
           /\ PhaseInv' /\ TodoInv' /\ WalkInv' /\ PathInv' /\ StillToWalk'
           /\ todo' \in Seq(Ids)
<1>1. /\ pc = "link" /\ todo # <<>> /\ todo' = Tail(todo) /\ pc' = "link"
      /\ UNCHANGED <<rows, order, parent, visited, path, current, cyclic, queue>>
  BY DEF Linking, input, walk
<1>2. PhaseInv /\ TreeTypeOK /\ TodoInv /\ WalkInv /\ PathInv /\ StillToWalk /\ LinkInv
  BY DEF TreeInv
<1>3. /\ todo' \in Seq(Ids) /\ IsInjective(todo') /\ ToSet(todo) = ToSet(todo') \cup {Head(todo)}
      /\ Head(todo) \in Ids /\ Head(todo) \notin ToSet(todo')
  BY <1>1, <1>2, TailFacts DEF TreeTypeOK, TodoInv
<1>4. Known' = Known
  BY <1>1 DEF Known
<1>5. Head(todo) \in Known \ Placed
  BY <1>1, <1>2, <1>3 DEF TodoInv, LinkInv, Linked
<1>6. Known' \ ToSet(todo') = (Known \ ToSet(todo)) \cup {Head(todo)}
  BY <1>3, <1>4, <1>5
<1>7. PhaseInv'
  BY <1>1, <1>2 DEF PhaseInv, Linked, Bounding
<1>8. TodoInv'
  BY <1>1, <1>2, <1>3, <1>4 DEF TodoInv
<1>9. WalkInv'
  BY <1>1, <1>2, WalkStays
<1>10. PathInv' /\ StillToWalk'
  BY <1>1, <1>2, <1>4 DEF PathInv, StillToWalk, Linked
<1> QED
  BY <1>1, <1>3, <1>4, <1>5, <1>6, <1>7, <1>8, <1>9, <1>10

\* What is placed is a top or a child.
LEMMA PlacedFacts ==
    ASSUME TreeTypeOK, NEW i, i \notin Placed
    PROVE  /\ i = root => i = None
           /\ i \notin ToSet(orphans) /\ \A j \in Ids : i \notin ToSet(children[j])
BY TreeTops DEF Placed

\* The first span without a parent is the root.
LEMMA LinkRootKeeps == ASSUME TreeInv, LinkRoot PROVE TreeInv'
<1> DEFINE h == Head(todo)
<1>1. Linking /\ parent[h] = None /\ root' = h /\ UNCHANGED <<children, orphans>>
  BY DEF LinkRoot
<1>2. TreeTypeOK /\ LinkInv /\ OrphanInv
  BY DEF TreeInv
<1>3. root = None
  BY DEF LinkRoot, Misplaced
<1>4. /\ pc = "link" /\ pc' = "link" /\ Known' = Known /\ todo' \in Seq(Ids)
      /\ UNCHANGED <<rows, order, parent, visited, path, current, cyclic, queue>>
      /\ h \in Known \ Placed /\ h \in Ids
      /\ Known' \ ToSet(todo') = (Known \ ToSet(todo)) \cup {h}
      /\ PhaseInv' /\ TodoInv' /\ WalkInv' /\ PathInv' /\ StillToWalk'
  BY <1>1, LinkingEffect
<1> HIDE DEF h
<1>5. TreeTypeOK'
  BY <1>1, <1>2, <1>4 DEF TreeTypeOK
<1>6. Placed' = Placed \cup {h}
  <2>1. ToSet(Tops)' = ToSet(Tops) \cup {h}
    BY <1>1, <1>2, <1>3, <1>4, <1>5, SpanIdsAssumption, TreeTops, TreeTopsNext
  <2> QED
    BY <1>1, <2>1 DEF Placed
<1>7. h \notin ToSet(orphans)
  BY <1>2, <1>4, PlacedFacts
<1>8. LinkInv'
  BY <1>1, <1>2, <1>4, <1>6, <1>7 DEF LinkInv, Linked
<1>9. OrphanInv'
  BY <1>1, <1>2, <1>4, SpanIdsAssumption DEF OrphanInv, Cut, Bounding
<1> QED
  BY <1>4, <1>5, <1>8, <1>9 DEF TreeInv

\* A span that can not be linked is an orphan.
LEMMA LinkOrphanKeeps == ASSUME TreeInv, LinkOrphan PROVE TreeInv'
<1> DEFINE h == Head(todo)
<1>1. Linking /\ Misplaced(h) /\ orphans' = Append(orphans, h) /\ UNCHANGED <<root, children>>
  BY DEF LinkOrphan
<1>2. TreeTypeOK /\ LinkInv /\ OrphanInv
  BY DEF TreeInv
<1>3. /\ pc = "link" /\ pc' = "link" /\ Known' = Known /\ todo' \in Seq(Ids)
      /\ UNCHANGED <<rows, order, parent, visited, path, current, cyclic, queue>>
      /\ h \in Known \ Placed /\ h \in Ids
      /\ Known' \ ToSet(todo') = (Known \ ToSet(todo)) \cup {h}
      /\ PhaseInv' /\ TodoInv' /\ WalkInv' /\ PathInv' /\ StillToWalk'
  BY <1>1, LinkingEffect
<1> HIDE DEF h
<1>4. h \notin ToSet(orphans) /\ h # root /\ \A i \in Ids : h \notin ToSet(children[i])
  BY <1>2, <1>3, SpanIdsAssumption, PlacedFacts
<1>5. orphans' \in Seq(Ids) /\ ToSet(orphans') = ToSet(orphans) \cup {h} /\ IsInjective(orphans')
  <2>1. orphans \in Seq(Ids) /\ IsInjective(orphans)
    BY <1>2 DEF TreeTypeOK, LinkInv
  <2>2. /\ Append(orphans, h) \in Seq(Ids) /\ ToSet(Append(orphans, h)) = ToSet(orphans) \cup {h}
        /\ IsInjective(Append(orphans, h))
    BY <1>3, <1>4, <2>1, AppendFacts, InjectiveAppend
  <2> QED
    BY <1>1, <2>2
<1>6. TreeTypeOK'
  BY <1>1, <1>2, <1>3, <1>5 DEF TreeTypeOK
<1>7. Placed' = Placed \cup {h}
  <2>1. ToSet(Tops)' = ToSet(Tops) \cup {h}
    BY <1>1, <1>2, <1>3, <1>5, <1>6, SpanIdsAssumption, TreeTops, TreeTopsNext
  <2> QED
    BY <1>1, <2>1 DEF Placed
<1>8. LinkInv'
  <2>1. \A i \in Ids : /\ IsInjective(children'[i])
                       /\ \A j \in ToSet(children'[i]) :
                             parent'[j] = i /\ i \in Known' /\ j \notin cyclic' \cup ToSet(orphans')
    BY <1>1, <1>2, <1>3, <1>4, <1>5 DEF LinkInv
  <2> QED
    BY <1>1, <1>2, <1>3, <1>4, <1>5, <1>7, <2>1 DEF LinkInv, Linked
<1>9. OrphanInv'
  <2>1. \A i \in ToSet(orphans') : Cut(i)
    BY <1>1, <1>2, <1>3, <1>5 DEF OrphanInv, Cut, Misplaced, Bounding
  <2>2. \A i \in ToSet(orphans') : Cut(i)'
    BY <1>1, <1>3, <2>1 DEF Cut
  <2> QED
    BY <1>3, <2>2 DEF OrphanInv, Bounding
<1> QED
  BY <1>3, <1>6, <1>8, <1>9 DEF TreeInv

Inside(f) == UNION {ToSet(f[i]) : i \in Ids}

\* To be among the children of some node.
LEMMA InsideFacts == \A f, x : x \in Inside(f) <=> \E i \in Ids : x \in ToSet(f[i])
BY Zenon DEF Inside

\* What is placed, by the children of all nodes.
LEMMA PlacedInside ==
    /\ Placed = ToSet(Tops) \cup Inside(children)
    /\ Placed' = ToSet(Tops)' \cup Inside(children')
BY Zenon DEF Placed, Inside

\* A child joins the children of its parent, and no others.
LEMMA LinkChildKeeps == ASSUME TreeInv, LinkChild PROVE TreeInv'
<1> DEFINE h == Head(todo)
           p == parent[h]
<1>1. /\ Linking /\ p # None /\ ~Misplaced(h) /\ UNCHANGED <<root, orphans>>
      /\ children' = [children EXCEPT ![p] = Append(children[p], h)]
  BY DEF LinkChild
<1>2. TreeTypeOK /\ LinkInv /\ OrphanInv
  BY DEF TreeInv
<1>3. /\ pc = "link" /\ pc' = "link" /\ Known' = Known /\ todo' \in Seq(Ids)
      /\ UNCHANGED <<rows, order, parent, visited, path, current, cyclic, queue>>
      /\ h \in Known \ Placed /\ h \in Ids
      /\ Known' \ ToSet(todo') = (Known \ ToSet(todo)) \cup {h}
      /\ PhaseInv' /\ TodoInv' /\ WalkInv' /\ PathInv' /\ StillToWalk'
  BY <1>1, LinkingEffect
<1>4. p \in Known /\ p \in Ids /\ h \notin cyclic /\ parent[h] = p
  BY <1>1, <1>2, KnownAreIds DEF Misplaced
<1> HIDE DEF h, p
<1>5. h \notin ToSet(orphans) /\ h # root /\ \A i \in Ids : h \notin ToSet(children[i])
  BY <1>2, <1>3, SpanIdsAssumption, PlacedFacts
<1> DEFINE q == children[p]
<1>6. q \in Seq(Ids) /\ IsInjective(q)
  BY <1>2, <1>4 DEF TreeTypeOK, LinkInv
<1>7. Append(q, h) \in Seq(Ids) /\ ToSet(Append(q, h)) = ToSet(q) \cup {h} /\ IsInjective(Append(q, h))
  <2>1. h \notin ToSet(q)
    BY <1>4, <1>5
  <2> HIDE DEF q
  <2> QED
    BY <1>3, <1>6, <2>1, AppendFacts, InjectiveAppend
<1>8. /\ children'[p] = Append(q, h) /\ \A i \in Ids \ {p} : children'[i] = children[i]
      /\ children' \in [Ids -> Seq(Ids)]
  BY <1>1, <1>2, <1>4, <1>7 DEF TreeTypeOK
<1>9. TreeTypeOK'
  BY <1>1, <1>2, <1>3, <1>8 DEF TreeTypeOK
<1>10. Placed' = Placed \cup {h}
  <2>1. ToSet(Tops)' = ToSet(Tops)
    BY <1>1 DEF Tops
  <2>2. ASSUME NEW x PROVE x \in Inside(children') <=> x \in Inside(children) \/ x = h
    BY <1>4, <1>7, <1>8, InsideFacts
  <2>3. Inside(children') = Inside(children) \cup {h}
    BY <2>2
  <2> QED
    BY <2>1, <2>3, PlacedInside
<1>11. LinkInv'
  <2>1. ASSUME NEW i \in Ids
        PROVE  /\ IsInjective(children'[i])
               /\ \A j \in ToSet(children'[i]) :
                     parent'[j] = i /\ i \in Known' /\ j \notin cyclic' \cup ToSet(orphans')
    <3>1. CASE i = p
      BY <1>1, <1>2, <1>3, <1>4, <1>5, <1>7, <1>8, <3>1 DEF LinkInv
    <3>2. CASE i # p
      BY <1>1, <1>2, <1>3, <1>8, <3>2 DEF LinkInv
    <3> QED
      BY <3>1, <3>2
  <2> QED
    BY <1>1, <1>2, <1>3, <1>10, <2>1 DEF LinkInv, Linked
<1>12. OrphanInv'
  BY <1>1, <1>2, <1>3 DEF OrphanInv, Cut, Bounding
<1> QED
  BY <1>3, <1>9, <1>11, <1>12 DEF TreeInv

-----------------------------------------------------------------------------
(* Bounding the depth.                                                     *)

QueueRow == [node : Ids, depth : 1..MaxDepth]
NodesOf(q) == {q[k].node : k \in DOMAIN q}
Apart(q) == \A j, k \in DOMAIN q : q[j].node = q[k].node => j = k

\* Nodes put in the queue at one depth.
LEMMA AtDepthFacts ==
    ASSUME NEW nodes \in Seq(Ids), NEW d, nodes = <<>> \/ d \in 1..MaxDepth
    PROVE  /\ AtDepth(nodes, d) \in Seq(QueueRow) /\ DOMAIN AtDepth(nodes, d) = DOMAIN nodes
           /\ \A k \in DOMAIN nodes : AtDepth(nodes, d)[k] = [node |-> nodes[k], depth |-> d]
<1>1. DOMAIN nodes = 1..Len(nodes) /\ Len(nodes) \in Nat /\ \A k \in DOMAIN nodes : nodes[k] \in Ids
  OBVIOUS
<1>2. nodes = <<>> => DOMAIN nodes = {}
  OBVIOUS
<1>3. \A k \in DOMAIN nodes : [node |-> nodes[k], depth |-> d] \in QueueRow
  BY <1>1, <1>2 DEF QueueRow
<1> DEFINE q == [k \in 1..Len(nodes) |-> [node |-> nodes[k], depth |-> d]]
<1>4. q \in [1..Len(nodes) -> QueueRow]
  BY <1>1, <1>3
<1>5. q \in Seq(QueueRow)
  <2> HIDE DEF q
  <2> QED
    BY <1>1, <1>4
<1>6. AtDepth(nodes, d) = q
  BY <1>1 DEF AtDepth
<1> QED
  BY <1>1, <1>5, <1>6

\* The first node gives way to others, at one depth.
LEMMA QueueStep ==
    ASSUME NEW q \in Seq(QueueRow), q # <<>>, Apart(q),
           NEW nodes \in Seq(Ids), IsInjective(nodes), ToSet(nodes) \cap NodesOf(q) = {},
           NEW d, nodes = <<>> \/ d \in 1..MaxDepth
    PROVE  LET r == Tail(q) \o AtDepth(nodes, d)
           IN  /\ r \in Seq(QueueRow) /\ Apart(r)
               /\ \A k \in DOMAIN r :
                     \/ \E m \in DOMAIN q : r[k] = q[m]
                     \/ r[k].node \in ToSet(nodes) /\ r[k].depth = d
               /\ NodesOf(r) = (NodesOf(q) \ {Head(q).node}) \cup ToSet(nodes)
<1> DEFINE p == Tail(q)
           a == AtDepth(nodes, d)
           r == p \o a
<1>1. /\ p \in Seq(QueueRow) /\ 1 \in DOMAIN q /\ Head(q) = q[1] /\ DOMAIN p = 1..(Len(q) - 1)
      /\ \A k \in DOMAIN p : k + 1 \in DOMAIN q /\ p[k] = q[k + 1]
      /\ Len(q) \in Nat \ {0} /\ DOMAIN q = 1..Len(q)
  BY TailFacts
<1>2. /\ a \in Seq(QueueRow) /\ DOMAIN a = DOMAIN nodes
      /\ \A k \in DOMAIN a : a[k].node = nodes[k] /\ a[k].depth = d
  <2>1. /\ a \in Seq(QueueRow) /\ DOMAIN a = DOMAIN nodes
        /\ \A k \in DOMAIN nodes : a[k] = [node |-> nodes[k], depth |-> d]
    BY AtDepthFacts
  <2> HIDE DEF a
  <2> QED
    BY <2>1
<1> HIDE DEF p, a
<1>3. /\ r \in Seq(QueueRow) /\ Len(p) \in Nat /\ Len(p) = Len(q) - 1
      /\ \A k \in DOMAIN r : \/ k \in DOMAIN p /\ r[k] = p[k]
                             \/ k - Len(p) \in DOMAIN a /\ k > Len(p) /\ r[k] = a[k - Len(p)]
      /\ DOMAIN r = 1..(Len(p) + Len(a)) /\ Len(a) \in Nat
  BY <1>1, <1>2, ConcatFacts, TailFacts DEF p
<1>4. /\ \A k \in DOMAIN p : k \in DOMAIN r /\ r[k] = p[k]
      /\ \A k \in DOMAIN a : Len(p) + k \in DOMAIN r /\ r[Len(p) + k] = a[k]
  BY <1>1, <1>2
<1> HIDE DEF r
<1>5. \A k \in DOMAIN p : p[k].node \in NodesOf(q) \ ToSet(nodes) /\ p[k].node # q[1].node
  <2> SUFFICES ASSUME NEW k \in DOMAIN p
               PROVE  p[k].node \in NodesOf(q) \ ToSet(nodes) /\ p[k].node # q[1].node
    OBVIOUS
  <2>1. k + 1 \in DOMAIN q /\ p[k] = q[k + 1] /\ k + 1 # 1
    BY <1>1
  <2> QED
    BY <1>1, <2>1 DEF NodesOf, Apart
<1>6. \A k \in DOMAIN a : a[k].node \in ToSet(nodes)
  BY <1>2 DEF ToSet
<1>7. Apart(r)
  <2> SUFFICES ASSUME NEW j \in DOMAIN r, NEW k \in DOMAIN r, r[j].node = r[k].node PROVE j = k
    BY DEF Apart
  <2>1. CASE j \in DOMAIN p /\ r[j] = p[j] /\ k \in DOMAIN p /\ r[k] = p[k]
    <3>1. j + 1 = k + 1
      BY <1>1, <2>1 DEF Apart
    <3> QED
      BY <1>1, <2>1, <3>1
  <2>2. CASE j - Len(p) \in DOMAIN a /\ r[j] = a[j - Len(p)] /\ k - Len(p) \in DOMAIN a /\ r[k] = a[k - Len(p)]
    <3>1. j - Len(p) = k - Len(p)
      BY <1>2, <2>2 DEF IsInjective
    <3> QED
      BY <1>3, <3>1
  <2> QED
    BY <1>3, <1>5, <1>6, <2>1, <2>2
<1>8. ASSUME NEW k \in DOMAIN r
      PROVE  \/ \E m \in DOMAIN q : r[k] = q[m]
             \/ r[k].node \in ToSet(nodes) /\ r[k].depth = d
  BY <1>1, <1>2, <1>3, <1>6
<1>9. NodesOf(r) \subseteq (NodesOf(q) \ {q[1].node}) \cup ToSet(nodes)
  <2>1. ASSUME NEW k \in DOMAIN r PROVE r[k].node \in (NodesOf(q) \ {q[1].node}) \cup ToSet(nodes)
    BY <1>3, <1>5, <1>6
  <2> QED
    BY <2>1 DEF NodesOf
<1>10. (NodesOf(q) \ {q[1].node}) \cup ToSet(nodes) \subseteq NodesOf(r)
  <2>1. ASSUME NEW m \in DOMAIN q, m # 1 PROVE q[m].node \in NodesOf(r)
    <3>1. m - 1 \in DOMAIN p /\ p[m - 1] = q[m]
      <4>1. m - 1 \in 1..(Len(q) - 1) /\ (m - 1) + 1 = m
        BY <1>1, <2>1
      <4> QED
        BY <1>1, <4>1
    <3> QED
      BY <1>4, <3>1 DEF NodesOf
  <2>2. ASSUME NEW k \in DOMAIN nodes PROVE nodes[k] \in NodesOf(r)
    BY <1>2, <1>4 DEF NodesOf
  <2> QED
    BY <2>1, <2>2 DEF NodesOf, ToSet
<1> QED
  BY <1>1, <1>3, <1>7, <1>8, <1>9, <1>10 DEF r, p, a

-----------------------------------------------------------------------------

\* At first, the tops have depth 1 and nothing else has any.
LEMMA StartBoundingKeeps == ASSUME TreeInv, StartBounding PROVE TreeInv'
<1>1. /\ pc = "link" /\ todo = <<>> /\ pc' = "bound" /\ queue' = AtDepth(Tops, 1)
      /\ UNCHANGED <<rows, order, parent, todo, visited, path, current, cyclic, root, children, orphans>>
  BY DEF StartBounding, input, walk, tree
<1>2. PhaseInv /\ TreeTypeOK /\ TodoInv /\ WalkInv /\ PathInv /\ StillToWalk /\ LinkInv /\ OrphanInv
  BY DEF TreeInv
<1>3. Tops \in Seq(Ids) /\ ToSet(Tops) = ({root} \ {None}) \cup ToSet(orphans) /\ IsInjective(Tops)
  <2>1. root \notin ToSet(orphans) \/ root = None
    BY <1>2 DEF LinkInv
  <2>2. ToSet(orphans) \subseteq Ids
    BY <1>2 DEF TreeTypeOK, ToSet
  <2> QED
    BY <1>2, <2>1, <2>2, SpanIdsAssumption, TreeTops DEF LinkInv
<1>4. /\ queue' \in Seq(QueueRow) /\ DOMAIN queue' = DOMAIN Tops
      /\ \A k \in DOMAIN queue' : queue'[k].node = Tops[k] /\ queue'[k].depth = 1
  <2> DEFINE a == AtDepth(Tops, 1)
  <2>1. 1 \in 1..MaxDepth
    BY SpanTreeAssumption
  <2>2. /\ a \in Seq(QueueRow) /\ DOMAIN a = DOMAIN Tops
        /\ \A k \in DOMAIN Tops : a[k] = [node |-> Tops[k], depth |-> 1]
    BY <1>3, <2>1, AtDepthFacts
  <2>3. queue' = a
    BY <1>1
  <2> HIDE DEF a
  <2>4. \A k \in DOMAIN a : a[k].node = Tops[k] /\ a[k].depth = 1
    BY <2>2
  <2> QED
    BY <2>2, <2>3, <2>4
<1>5. PhaseInv'
  BY <1>1, <1>2 DEF PhaseInv, Linked, Bounding
<1>6. TreeTypeOK' /\ TodoInv'
  BY <1>1, <1>2, <1>4 DEF TreeTypeOK, TodoInv, Known, QueueRow
<1>7. WalkInv'
  BY <1>1, <1>2, WalkStays
<1>8. PathInv' /\ StillToWalk'
  BY <1>1, <1>2 DEF PathInv, StillToWalk, Known, Linked
<1>9. Placed' = Placed /\ Tops' = Tops
  BY <1>1 DEF Placed, Tops
<1>10. LinkInv'
  BY <1>1, <1>2, <1>9 DEF LinkInv, Known, Linked
<1>11. OrphanInv'
  <2>1. PICK dep \in [Ids -> 0..MaxDepth] : \A i \in Ids : dep[i] = IF i \in ToSet(Tops) THEN 1 ELSE 0
    <3> DEFINE d == [i \in Ids |-> IF i \in ToSet(Tops) THEN 1 ELSE 0]
    <3>1. d \in [Ids -> 0..MaxDepth] /\ \A i \in Ids : d[i] = IF i \in ToSet(Tops) THEN 1 ELSE 0
      BY SpanTreeAssumption
    <3> HIDE DEF d
    <3> QED
      BY <3>1
  <2>2. \A k \in DOMAIN queue' : queue'[k].node \in ToSet(Tops) /\ queue'[k].node \in Ids
    BY <1>3, <1>4 DEF ToSet
  <2>3. \A k \in DOMAIN queue' : dep[queue'[k].node] = queue'[k].depth
    BY <1>4, <2>1, <2>2
  <2>4. \A j, k \in DOMAIN queue' : queue'[j].node = queue'[k].node => j = k
    BY <1>3, <1>4 DEF IsInjective
  <2>5. InQueue' = ToSet(Tops)
    <3>1. InQueue' = {queue'[k].node : k \in DOMAIN queue'}
      BY DEF InQueue
    <3> QED
      BY <1>4, <3>1 DEF ToSet
  <2>6. \A i \in ToSet(orphans) : Cut(i)
    BY <1>1, <1>2 DEF OrphanInv, Bounding
  <2>7. \A i \in ToSet(orphans') : Cut(i)'
    BY <1>1, <2>6 DEF Cut, Known
  <2>8. Depths(dep)'
    BY <1>9, <2>1, <2>3, <2>4, <2>5, <2>7 DEF Depths
  <2> QED
    BY <1>1, <2>1, <2>8 DEF OrphanInv, Bounding
<1> QED
  BY <1>5, <1>6, <1>7, <1>8, <1>10, <1>11 DEF TreeInv

\* The head of the queue, and its children, which no depth is given yet.
LEMMA TopFacts ==
    ASSUME TreeInv, pc = "bound", queue # <<>>,
           NEW dep \in [Ids -> 0..MaxDepth], Depths(dep)
    PROVE  LET n == Head(queue).node
               nodes == children[n]
           IN  /\ n \in Ids /\ n \in InQueue /\ dep[n] = Head(queue).depth
               /\ Head(queue).depth \in 1..MaxDepth
               /\ nodes \in Seq(Ids) /\ IsInjective(nodes) /\ ToSet(nodes) \subseteq Ids
               /\ ToSet(nodes) \cap InQueue = {} /\ n \notin ToSet(nodes)
               /\ \A j \in ToSet(nodes) :
                     parent[j] = n /\ dep[j] = 0 /\ j \notin ToSet(Tops) /\ j \notin ToSet(orphans)
<1>1. TreeTypeOK /\ LinkInv /\ queue \in Seq(QueueRow)
  BY DEF TreeInv, TreeTypeOK, QueueRow
<1> DEFINE top == Head(queue)
           n == top.node
           nodes == children[n]
<1>2. 1 \in DOMAIN queue /\ top = queue[1] /\ top \in QueueRow
  BY <1>1, TailFacts
<1>3. n \in Ids /\ n \in InQueue /\ dep[n] = top.depth /\ top.depth \in 1..MaxDepth
  <2>1. queue[1].node \in InQueue /\ dep[queue[1].node] = queue[1].depth
    BY <1>2 DEF InQueue, Depths
  <2> QED
    BY <1>2, <2>1 DEF QueueRow
<1> HIDE DEF n
<1>4. nodes \in Seq(Ids) /\ IsInjective(nodes)
  BY <1>1, <1>3 DEF TreeTypeOK, LinkInv
<1>5. ToSet(nodes) \subseteq Ids
  BY <1>4 DEF ToSet
<1>6. \A i \in InQueue : i \in Ids /\ dep[i] # 0
  <2>1. \A k \in DOMAIN queue : queue[k] \in QueueRow
    BY <1>1
  <2>2. \A k \in DOMAIN queue : queue[k].node \in Ids /\ queue[k].depth # 0
    BY <2>1 DEF QueueRow
  <2> QED
    BY <2>2 DEF InQueue, Depths
<1>7. ASSUME NEW j \in ToSet(nodes)
      PROVE  /\ parent[j] = n /\ dep[j] = 0 /\ j \notin ToSet(Tops) /\ j \notin ToSet(orphans)
  <2>1. j \in Ids /\ parent[j] = n /\ j \notin ToSet(orphans)
    BY <1>1, <1>3, <1>5 DEF LinkInv
  <2>2. j # root
    BY <1>1, <1>3, <2>1, SpanIdsAssumption DEF LinkInv
  <2>3. j \notin ToSet(Tops)
    BY <1>1, <2>1, <2>2, TreeTops
  <2>4. dep[j] # 1 /\ ~(dep[j] > 1)
    BY <1>3, <2>1, <2>3 DEF Depths
  <2>5. dep[j] \in 0..MaxDepth
    BY <2>1
  <2>6. dep[j] = 0
    BY <2>4, <2>5, SpanTreeAssumption
  <2> QED
    BY <2>1, <2>3, <2>6
<1>8. ToSet(nodes) \cap InQueue = {}
  BY <1>6, <1>7
<1> QED
  BY <1>3, <1>4, <1>5, <1>7, <1>8 DEF n

\* What stays when subtrees are bounded.
LEMMA BoundingKeeps ==
    ASSUME TreeInv, pc = "bound", pc' \in Bounding, pc' = "returned" => queue' = <<>>,
           UNCHANGED <<rows, order, parent, todo, visited, path, current, cyclic, root>>,
           children' \in [Ids -> Seq(Ids)], orphans' \in Seq(Ids), queue' \in Seq(QueueRow)
    PROVE  PhaseInv' /\ TreeTypeOK' /\ TodoInv' /\ WalkInv' /\ PathInv' /\ StillToWalk'
<1>1. PhaseInv /\ TreeTypeOK /\ TodoInv /\ WalkInv /\ PathInv /\ StillToWalk
  BY DEF TreeInv
<1>2. PhaseInv'
  BY <1>1 DEF PhaseInv, Linked, Bounding
<1>3. TreeTypeOK' /\ TodoInv'
  BY <1>1 DEF TreeTypeOK, TodoInv, Known, QueueRow
<1>4. WalkInv'
  BY <1>1, WalkStays
<1>5. PathInv'
  BY <1>1 DEF PathInv, Known, Bounding
<1>6. StillToWalk'
  BY <1>1 DEF StillToWalk, Known, Linked, Bounding
<1> QED
  BY <1>2, <1>3, <1>4, <1>5, <1>6

\* The children of the head are one deeper.
LEMMA DescendKeeps == ASSUME TreeInv, Descend PROVE TreeInv'
<1> DEFINE top == Head(queue)
           n == top.node
           nodes == children[n]
           d == top.depth + 1
<1>1. /\ pc = "bound" /\ queue # <<>> /\ pc' = "bound"
      /\ nodes = <<>> \/ top.depth < MaxDepth
      /\ queue' = Tail(queue) \o AtDepth(nodes, d)
      /\ UNCHANGED <<rows, order, parent, todo, visited, path, current, cyclic, root, children, orphans>>
  BY DEF Descend, input, walk, tree
<1>2. PhaseInv /\ TreeTypeOK /\ LinkInv /\ OrphanInv
  BY DEF TreeInv
<1>3. PICK dep \in [Ids -> 0..MaxDepth] : Depths(dep)
  BY <1>1, <1>2 DEF OrphanInv, Bounding
<1>4. /\ n \in Ids /\ n \in InQueue /\ dep[n] = top.depth /\ top.depth \in 1..MaxDepth
      /\ nodes \in Seq(Ids) /\ IsInjective(nodes) /\ ToSet(nodes) \subseteq Ids
      /\ ToSet(nodes) \cap InQueue = {} /\ n \notin ToSet(nodes)
      /\ \A j \in ToSet(nodes) :
            parent[j] = n /\ dep[j] = 0 /\ j \notin ToSet(Tops) /\ j \notin ToSet(orphans)
  BY <1>1, <1>3, TopFacts
<1>5. nodes = <<>> \/ d \in 1..MaxDepth
  BY <1>1, <1>4, SpanTreeAssumption
<1>6. Apart(queue) /\ NodesOf(queue) = InQueue
  BY <1>3 DEF Depths, Apart, NodesOf, InQueue
<1> HIDE DEF n, nodes, d
<1>7. /\ queue' \in Seq(QueueRow) /\ Apart(queue')
      /\ \A k \in DOMAIN queue' :
            \/ \E m \in DOMAIN queue : queue'[k] = queue[m]
            \/ queue'[k].node \in ToSet(nodes) /\ queue'[k].depth = d
      /\ NodesOf(queue') = (InQueue \ {n}) \cup ToSet(nodes)
  <2>1. queue \in Seq(QueueRow)
    BY <1>2 DEF TreeTypeOK, QueueRow
  <2>2. LET r == Tail(queue) \o AtDepth(nodes, d)
        IN  /\ r \in Seq(QueueRow) /\ Apart(r)
            /\ \A k \in DOMAIN r :
                  \/ \E m \in DOMAIN queue : r[k] = queue[m]
                  \/ r[k].node \in ToSet(nodes) /\ r[k].depth = d
            /\ NodesOf(r) = (NodesOf(queue) \ {Head(queue).node}) \cup ToSet(nodes)
    BY <1>1, <1>4, <1>5, <1>6, <2>1, QueueStep
  <2> QED
    BY <1>1, <1>6, <2>2 DEF n
<1>8. InQueue' = (InQueue \ {n}) \cup ToSet(nodes)
  BY <1>7 DEF NodesOf, InQueue
<1>9. PhaseInv' /\ TreeTypeOK' /\ TodoInv' /\ WalkInv' /\ PathInv' /\ StillToWalk'
  <2>1. children' \in [Ids -> Seq(Ids)] /\ orphans' \in Seq(Ids)
    BY <1>1, <1>2 DEF TreeTypeOK
  <2> QED
    BY <1>1, <1>7, <2>1, BoundingKeeps DEF Bounding
<1>10. Placed' = Placed /\ Tops' = Tops
  BY <1>1 DEF Placed, Tops
<1>11. LinkInv'
  BY <1>1, <1>2, <1>10 DEF LinkInv, Known, Linked
<1>12. PICK new \in [Ids -> 0..MaxDepth] : \A i \in Ids : new[i] = IF i \in ToSet(nodes) THEN d ELSE dep[i]
  <2> DEFINE f == [i \in Ids |-> IF i \in ToSet(nodes) THEN d ELSE dep[i]]
  <2>1. ToSet(nodes) # {} => d \in 0..MaxDepth
    BY <1>5, NoneInside
  <2>2. f \in [Ids -> 0..MaxDepth] /\ \A i \in Ids : f[i] = IF i \in ToSet(nodes) THEN d ELSE dep[i]
    BY <2>1
  <2> HIDE DEF f
  <2> QED
    BY <2>2
<1>13. d = dep[n] + 1 /\ new[n] = dep[n] /\ dep[n] \in 1..MaxDepth
  BY <1>4, <1>12 DEF d
<1>14. Depths(new)'
  <2>0. \A i \in Ids : dep[i] \in Nat /\ new[i] \in Nat /\ (i \in ToSet(nodes) => dep[i] = 0 /\ new[i] = d)
                        /\ (i \notin ToSet(nodes) => new[i] = dep[i])
    BY <1>4, <1>12, SpanTreeAssumption
  <2>1. \A k \in DOMAIN queue' : new[queue'[k].node] = queue'[k].depth
    <3>1. ASSUME NEW m \in DOMAIN queue PROVE new[queue[m].node] = queue[m].depth
      <4>1. queue[m].node \in InQueue /\ queue[m].node \in Ids
        <5>1. queue \in Seq(QueueRow)
          BY <1>2 DEF TreeTypeOK, QueueRow
        <5>2. queue[m] \in QueueRow
          BY <5>1
        <5> QED
          BY <5>2 DEF InQueue, QueueRow
      <4> QED
        BY <1>3, <1>4, <2>0, <4>1 DEF Depths
    <3> QED
      BY <1>4, <1>7, <2>0, <3>1
  <2>2. \A j, k \in DOMAIN queue' : queue'[j].node = queue'[k].node => j = k
    BY <1>7 DEF Apart
  <2>3. \A i \in Ids : new[i] = 1 <=> i \in ToSet(Tops')
    BY <1>3, <1>4, <1>10, <1>13, <2>0 DEF Depths
  <2>4. ASSUME NEW i \in Ids, new[i] > 1
        PROVE  /\ parent'[i] \in Ids \ InQueue' /\ i \in ToSet(children'[parent'[i]])
               /\ new[i] = new[parent'[i]] + 1
    <3>1. CASE i \in ToSet(nodes)
      BY <1>1, <1>4, <1>8, <1>13, <2>0, <3>1 DEF nodes
    <3>2. CASE i \notin ToSet(nodes)
      <4>1. /\ parent[i] \in Ids \ InQueue /\ i \in ToSet(children[parent[i]])
            /\ dep[i] = dep[parent[i]] + 1
        BY <1>3, <2>0, <2>4, <3>2 DEF Depths
      <4>2. parent[i] \notin ToSet(nodes) \/ dep[parent[i]] = 0
        BY <1>4
      <4>3. parent[i] \notin ToSet(nodes)
        BY <2>0, <2>4, <3>2, <4>1, <4>2
      <4> QED
        BY <1>1, <1>4, <1>8, <2>0, <3>2, <4>1, <4>3
    <3> QED
      BY <3>1, <3>2
  <2>5. ASSUME NEW i \in Ids \ InQueue', new[i] # 0, NEW j \in ToSet(children'[i])
        PROVE  new[j] = new[i] + 1
    <3>0. j \in Ids
      BY <1>1, <1>2 DEF TreeTypeOK, ToSet
    <3>1. CASE i = n
      BY <1>1, <1>13, <2>0, <2>5, <3>0, <3>1 DEF nodes
    <3>2. CASE i # n
      <4>1. i \notin InQueue /\ i \notin ToSet(nodes)
        BY <1>8, <2>5, <3>2
      <4>2. dep[j] = dep[i] + 1
        BY <1>1, <1>3, <2>0, <2>5, <4>1 DEF Depths
      <4>3. j \notin ToSet(nodes)
        BY <2>0, <3>0, <4>2
      <4> QED
        BY <2>0, <3>0, <4>1, <4>2, <4>3
    <3> QED
      BY <3>1, <3>2
  <2>6. ASSUME NEW i \in ToSet(orphans') PROVE Cut(i)' \/ (parent'[i] \in Ids /\ new[parent'[i]] = MaxDepth)
    <3>1. Cut(i) \/ (parent[i] \in Ids /\ dep[parent[i]] = MaxDepth)
      BY <1>1, <1>3, <2>6 DEF Depths
    <3>2. CASE Cut(i)
      BY <1>1, <3>2 DEF Cut, Known
    <3>3. CASE parent[i] \in Ids /\ dep[parent[i]] = MaxDepth
      BY <1>1, <2>0, <3>3, SpanTreeAssumption
    <3> QED
      BY <3>1, <3>2, <3>3
  <2> QED
    BY <2>1, <2>2, <2>3, <2>4, <2>5, <2>6 DEF Depths
<1>15. OrphanInv'
  BY <1>1, <1>12, <1>14 DEF OrphanInv, Bounding
<1> QED
  BY <1>9, <1>11, <1>15 DEF TreeInv

\* Detached children are tops, so that what is below them is bounded anew.
LEMMA DetachKeeps == ASSUME TreeInv, Detach PROVE TreeInv'
<1> DEFINE top == Head(queue)
           n == top.node
           nodes == children[n]
<1>1. /\ pc = "bound" /\ queue # <<>> /\ pc' = "bound"
      /\ top.depth >= MaxDepth
      /\ children' = [children EXCEPT ![n] = <<>>] /\ orphans' = orphans \o nodes
      /\ queue' = Tail(queue) \o AtDepth(nodes, 1)
      /\ UNCHANGED <<rows, order, parent, todo, visited, path, current, cyclic, root>>
  BY DEF Detach, input, walk
<1>2. PhaseInv /\ TreeTypeOK /\ LinkInv /\ OrphanInv
  BY DEF TreeInv
<1>3. PICK dep \in [Ids -> 0..MaxDepth] : Depths(dep)
  BY <1>1, <1>2 DEF OrphanInv, Bounding
<1>4. /\ n \in Ids /\ n \in InQueue /\ dep[n] = top.depth /\ top.depth \in 1..MaxDepth
      /\ nodes \in Seq(Ids) /\ IsInjective(nodes) /\ ToSet(nodes) \subseteq Ids
      /\ ToSet(nodes) \cap InQueue = {} /\ n \notin ToSet(nodes)
      /\ \A j \in ToSet(nodes) :
            parent[j] = n /\ dep[j] = 0 /\ j \notin ToSet(Tops) /\ j \notin ToSet(orphans)
  BY <1>1, <1>3, TopFacts
<1>5. 1 \in 1..MaxDepth /\ dep[n] = MaxDepth
  BY <1>1, <1>4, SpanTreeAssumption
<1>6. Apart(queue) /\ NodesOf(queue) = InQueue
  BY <1>3 DEF Depths, Apart, NodesOf, InQueue
<1>7. /\ queue' \in Seq(QueueRow) /\ Apart(queue')
      /\ \A k \in DOMAIN queue' :
            \/ \E m \in DOMAIN queue : queue'[k] = queue[m]
            \/ queue'[k].node \in ToSet(nodes) /\ queue'[k].depth = 1
      /\ NodesOf(queue') = (InQueue \ {n}) \cup ToSet(nodes)
  <2>1. queue \in Seq(QueueRow)
    BY <1>2 DEF TreeTypeOK, QueueRow
  <2> HIDE DEF nodes
  <2>2. LET r == Tail(queue) \o AtDepth(nodes, 1)
        IN  /\ r \in Seq(QueueRow) /\ Apart(r)
            /\ \A k \in DOMAIN r :
                  \/ \E m \in DOMAIN queue : r[k] = queue[m]
                  \/ r[k].node \in ToSet(nodes) /\ r[k].depth = 1
            /\ NodesOf(r) = (NodesOf(queue) \ {Head(queue).node}) \cup ToSet(nodes)
    BY <1>1, <1>4, <1>5, <1>6, <2>1, QueueStep
  <2> QED
    BY <1>1, <1>6, <2>2
<1> HIDE DEF n
<1>8. InQueue' = (InQueue \ {n}) \cup ToSet(nodes)
  BY <1>7 DEF NodesOf, InQueue
<1>9. /\ children' \in [Ids -> Seq(Ids)] /\ children'[n] = <<>>
      /\ \A i \in Ids \ {n} : children'[i] = children[i]
  BY <1>1, <1>2, <1>4 DEF TreeTypeOK
<1>10. orphans' \in Seq(Ids) /\ ToSet(orphans') = ToSet(orphans) \cup ToSet(nodes) /\ IsInjective(orphans')
  <2>1. orphans \in Seq(Ids) /\ IsInjective(orphans) /\ ToSet(orphans) \cap ToSet(nodes) = {}
    BY <1>2, <1>4 DEF TreeTypeOK, LinkInv
  <2> HIDE DEF nodes
  <2>2. /\ orphans \o nodes \in Seq(Ids) /\ ToSet(orphans \o nodes) = ToSet(orphans) \cup ToSet(nodes)
        /\ IsInjective(orphans \o nodes)
    BY <1>4, <2>1, ConcatFacts
  <2> QED
    BY <1>1, <2>2
<1>11. PhaseInv' /\ TreeTypeOK' /\ TodoInv' /\ WalkInv' /\ PathInv' /\ StillToWalk'
  BY <1>1, <1>7, <1>9, <1>10, BoundingKeeps DEF Bounding
<1>12. ToSet(Tops)' = ToSet(Tops) \cup ToSet(nodes)
  BY <1>1, <1>2, <1>10, <1>11, TreeTops, TreeTopsNext
<1>13. Placed' = Placed
  <2>1. ASSUME NEW x PROVE x \in Inside(children) <=> x \in Inside(children') \/ x \in ToSet(nodes)
    <3>1. ToSet(children'[n]) = {}
      BY <1>9, NoneInside
    <3>2. ASSUME NEW i \in Ids PROVE x \in ToSet(children[i]) <=> x \in ToSet(children'[i]) \/ (i = n /\ x \in ToSet(nodes))
      <4>1. CASE i = n
        BY <3>1, <4>1
      <4>2. CASE i # n
        BY <1>9, <4>2
      <4> QED
        BY <4>1, <4>2
    <3> HIDE DEF nodes
    <3>3. (\E i \in Ids : x \in ToSet(children[i])) <=> ((\E i \in Ids : x \in ToSet(children'[i])) \/ x \in ToSet(nodes))
      BY <1>4, <3>2
    <3>4. x \in Inside(children) <=> \E i \in Ids : x \in ToSet(children[i])
      BY InsideFacts, Zenon
    <3>5. x \in Inside(children') <=> \E i \in Ids : x \in ToSet(children'[i])
      BY InsideFacts, Zenon
    <3> QED
      BY <3>3, <3>4, <3>5, Zenon
  <2>2. Inside(children) = Inside(children') \cup ToSet(nodes)
    BY <2>1
  <2> QED
    BY <1>12, <2>2, PlacedInside
<1>14. LinkInv'
  <2>1. root \notin ToSet(nodes) \/ root = None
    BY <1>2, <1>4, SpanIdsAssumption DEF LinkInv
  <2>2. ASSUME NEW i \in Ids
        PROVE  /\ IsInjective(children'[i])
               /\ \A j \in ToSet(children'[i]) :
                     parent'[j] = i /\ i \in Known' /\ j \notin cyclic' \cup ToSet(orphans')
    <3>1. CASE i = n
      BY <1>9, <3>1, NoneInside
    <3>2. CASE i # n
      <4>1. children'[i] = children[i]
        BY <1>9, <3>2
      <4>2. /\ IsInjective(children[i])
            /\ \A j \in ToSet(children[i]) :
                  parent[j] = i /\ i \in Known /\ j \notin cyclic \cup ToSet(orphans)
        BY <1>2 DEF LinkInv
      <4>3. \A j \in ToSet(children[i]) : j \notin ToSet(nodes)
        BY <1>4, <3>2, <4>2
      <4> QED
        BY <1>1, <1>10, <4>1, <4>2, <4>3 DEF Known
    <3> QED
      BY <3>1, <3>2
  <2>3. root # None => root \in Known /\ parent[root] = None /\ root \notin ToSet(orphans')
    BY <1>2, <1>10, <2>1 DEF LinkInv
  <2> QED
    BY <1>1, <1>2, <1>10, <1>13, <2>2, <2>3 DEF LinkInv, Known, Linked
<1> HIDE DEF nodes
<1>15. PICK new \in [Ids -> 0..MaxDepth] : \A i \in Ids : new[i] = IF i \in ToSet(nodes) THEN 1 ELSE dep[i]
  <2> DEFINE f == [i \in Ids |-> IF i \in ToSet(nodes) THEN 1 ELSE dep[i]]
  <2>1. f \in [Ids -> 0..MaxDepth] /\ \A i \in Ids : f[i] = IF i \in ToSet(nodes) THEN 1 ELSE dep[i]
    BY SpanTreeAssumption
  <2> HIDE DEF f
  <2> QED
    BY <2>1
<1>16. Depths(new)'
  <2>0. \A i \in Ids : dep[i] \in Nat /\ new[i] \in Nat /\ (i \in ToSet(nodes) => dep[i] = 0 /\ new[i] = 1)
                        /\ (i \notin ToSet(nodes) => new[i] = dep[i])
    BY <1>4, <1>15, SpanTreeAssumption
  <2>1. \A k \in DOMAIN queue' : new[queue'[k].node] = queue'[k].depth
    <3>1. ASSUME NEW m \in DOMAIN queue PROVE new[queue[m].node] = queue[m].depth
      <4>1. queue[m].node \in InQueue /\ queue[m].node \in Ids
        <5>1. queue \in Seq(QueueRow)
          BY <1>2 DEF TreeTypeOK, QueueRow
        <5>2. queue[m] \in QueueRow
          BY <5>1
        <5> QED
          BY <5>2 DEF InQueue, QueueRow
      <4> QED
        BY <1>3, <1>4, <2>0, <4>1 DEF Depths
    <3> QED
      BY <1>4, <1>7, <2>0, <3>1
  <2>2. \A j, k \in DOMAIN queue' : queue'[j].node = queue'[k].node => j = k
    BY <1>7 DEF Apart
  <2>3. \A i \in Ids : new[i] = 1 <=> i \in ToSet(Tops)'
    BY <1>3, <1>4, <1>12, <2>0 DEF Depths
  <2>4. ASSUME NEW i \in Ids, new[i] > 1
        PROVE  /\ parent'[i] \in Ids \ InQueue' /\ i \in ToSet(children'[parent'[i]])
               /\ new[i] = new[parent'[i]] + 1
    <3>1. i \notin ToSet(nodes) /\ dep[i] > 1
      BY <2>0, <2>4
    <3>2. /\ parent[i] \in Ids \ InQueue /\ i \in ToSet(children[parent[i]])
          /\ dep[i] = dep[parent[i]] + 1
      BY <1>3, <3>1 DEF Depths
    <3>3. parent[i] \notin ToSet(nodes) \/ dep[parent[i]] = 0
      BY <1>4
    <3>4. parent[i] \notin ToSet(nodes)
      BY <2>0, <3>1, <3>2, <3>3
    <3>5. parent[i] # n
      BY <1>4, <3>2
    <3> QED
      BY <1>1, <1>8, <1>9, <2>0, <3>1, <3>2, <3>4, <3>5
  <2>5. ASSUME NEW i \in Ids \ InQueue', new[i] # 0, NEW j \in ToSet(children'[i])
        PROVE  new[j] = new[i] + 1
    <3>1. i # n
      BY <1>9, <2>5, NoneInside
    <3>2. i \notin InQueue /\ i \notin ToSet(nodes) /\ j \in ToSet(children[i])
      BY <1>8, <1>9, <2>5, <3>1
    <3>3. j \in Ids
      BY <1>2, <3>2 DEF TreeTypeOK, ToSet
    <3>4. dep[j] = dep[i] + 1
      BY <1>3, <2>0, <2>5, <3>2 DEF Depths
    <3>5. j \notin ToSet(nodes)
      BY <2>0, <3>3, <3>4
    <3> QED
      BY <2>0, <3>2, <3>3, <3>4, <3>5
  <2>6. ASSUME NEW i \in ToSet(orphans') PROVE Cut(i)' \/ (parent'[i] \in Ids /\ new[parent'[i]] = MaxDepth)
    <3>1. CASE i \in ToSet(nodes)
      BY <1>1, <1>4, <1>5, <2>0, <3>1
    <3>2. CASE i \in ToSet(orphans)
      <4>1. Cut(i) \/ (parent[i] \in Ids /\ dep[parent[i]] = MaxDepth)
        BY <1>3, <3>2 DEF Depths
      <4>2. CASE Cut(i)
        BY <1>1, <4>2 DEF Cut, Known
      <4>3. CASE parent[i] \in Ids /\ dep[parent[i]] = MaxDepth
        BY <1>1, <2>0, <4>3, SpanTreeAssumption
      <4> QED
        BY <4>1, <4>2, <4>3
    <3> QED
      BY <1>10, <3>1, <3>2
  <2> QED
    BY <2>1, <2>2, <2>3, <2>4, <2>5, <2>6 DEF Depths
<1>17. OrphanInv'
  BY <1>1, <1>15, <1>16 DEF OrphanInv, Bounding
<1> QED
  BY <1>11, <1>14, <1>17 DEF TreeInv

\* Nothing changes when the answer is returned.
LEMMA ReturnKeeps == ASSUME TreeInv, Return PROVE TreeInv'
<1>1. /\ pc = "bound" /\ queue = <<>> /\ pc' = "returned"
      /\ UNCHANGED <<rows, order, parent, todo, visited, path, current, cyclic, root, children, orphans, queue>>
  BY DEF Return, input, walk, tree
<1>2. PhaseInv /\ TreeTypeOK /\ LinkInv /\ OrphanInv
  BY DEF TreeInv
<1>3. PhaseInv' /\ TreeTypeOK' /\ TodoInv' /\ WalkInv' /\ PathInv' /\ StillToWalk'
  <2>1. children' \in [Ids -> Seq(Ids)] /\ orphans' \in Seq(Ids) /\ queue' \in Seq(QueueRow)
    BY <1>1, <1>2 DEF TreeTypeOK, QueueRow
  <2> QED
    BY <1>1, <2>1, BoundingKeeps DEF Bounding
<1>4. Placed' = Placed /\ Tops' = Tops
  BY <1>1 DEF Placed, Tops
<1>5. LinkInv'
  BY <1>1, <1>2, <1>4 DEF LinkInv, Known, Linked
<1>6. PICK dep \in [Ids -> 0..MaxDepth] : Depths(dep)
  BY <1>1, <1>2 DEF OrphanInv, Bounding
<1>7. InQueue' = InQueue /\ \A i : Cut(i)' <=> Cut(i)
  BY <1>1 DEF InQueue, Cut, Known
<1>8. Depths(dep)'
  BY <1>1, <1>4, <1>6, <1>7 DEF Depths
<1>9. OrphanInv'
  BY <1>1, <1>6, <1>8 DEF OrphanInv, Bounding
<1> QED
  BY <1>3, <1>5, <1>9 DEF TreeInv

\* The invariant holds at first, is kept by stuttering, and by every step.
LEMMA TreeStart == Init => TreeInv
<1> SUFFICES ASSUME Init PROVE TreeInv
  OBVIOUS
<1>1. pc = "collect" /\ Blank
  BY DEF Init
<1>2. rows \in Seq(Row)
  <2>1. PICK n \in 1..MaxRows : rows \in [1..n -> Row]
    BY DEF Init
  <2>2. n \in Nat
    BY <2>1, SpanTreeAssumption
  <2> QED
    BY <2>1, <2>2
<1>3. PhaseInv
  BY <1>1 DEF Blank, PhaseInv, WalkBlank, LinkBlank, Linked, Bounding
<1>4. TreeTypeOK
  BY <1>1, <1>2 DEF Blank, TreeTypeOK
<1>5. TodoInv
  BY <1>1, NoneInside DEF Blank, TodoInv, Known
<1>6. WalkInv
  BY <1>1, BlankWalk DEF Blank, WalkBlank
<1>7. PathInv /\ StillToWalk
  BY <1>1, NoneInside DEF Blank, PathInv, StillToWalk, Known, Linked
<1>8. LinkInv /\ OrphanInv
  BY <1>1, BlankLink DEF Blank, LinkBlank, Linked
<1> QED
  BY <1>3, <1>4, <1>5, <1>6, <1>7, <1>8 DEF TreeInv

\* Steps of other parts leave build_tree alone.
LEMMA TreeStays == ASSUME TreeInv, UNCHANGED vars PROVE TreeInv'
<1>1. UNCHANGED <<pc, rows, order, parent, todo, visited, path, current, cyclic, root, children, orphans, queue>>
  BY DEF vars, input, walk, tree
<1>2. PhaseInv /\ TreeTypeOK /\ TodoInv /\ WalkInv /\ PathInv /\ StillToWalk /\ LinkInv /\ OrphanInv
  BY DEF TreeInv
<1>3. PhaseInv'
  BY <1>1, <1>2 DEF PhaseInv, WalkBlank, LinkBlank
<1>4. TreeTypeOK' /\ TodoInv'
  BY <1>1, <1>2 DEF TreeTypeOK, TodoInv, Known
<1>5. WalkInv'
  BY <1>1, <1>2, WalkStays
<1>6. PathInv' /\ StillToWalk'
  BY <1>1, <1>2 DEF PathInv, StillToWalk, Known
<1>7. Placed' = Placed /\ Tops' = Tops /\ InQueue' = InQueue /\ \A i : Cut(i)' <=> Cut(i)
  BY <1>1 DEF Placed, Tops, InQueue, Cut, Known
<1>8. LinkInv'
  BY <1>1, <1>2, <1>7 DEF LinkInv, Known
<1>9. OrphanInv'
  <2>1. CASE pc \notin Bounding
    BY <1>1, <1>2, <1>7, <2>1 DEF OrphanInv
  <2>2. CASE pc \in Bounding
    <3>1. PICK dep \in [Ids -> 0..MaxDepth] : Depths(dep)
      BY <1>2, <2>2 DEF OrphanInv
    <3>2. Depths(dep)'
      BY <1>1, <1>7, <3>1 DEF Depths
    <3> QED
      BY <1>1, <2>2, <3>1, <3>2 DEF OrphanInv
  <2> QED
    BY <2>1, <2>2
<1> QED
  BY <1>3, <1>4, <1>5, <1>6, <1>8, <1>9 DEF TreeInv

\* Every step of build_tree keeps the invariant.
LEMMA TreeStep == TreeInv /\ [Next]_vars => TreeInv'
<1> SUFFICES ASSUME TreeInv, [Next]_vars PROVE TreeInv'
  OBVIOUS
<1>1. CASE UNCHANGED vars
  BY <1>1, TreeStays
<1>2. CASE Collect \/ StartWalks
  BY <1>2, CollectKeeps, StartWalksKeeps
<1>3. CASE SkipStart \/ BeginWalk \/ Follow
  BY <1>3, SkipStartKeeps, BeginWalkKeeps, FollowKeeps
<1>4. CASE CloseCycle \/ LeaveChain
  BY <1>4, CloseCycleKeeps, LeaveChainKeeps
<1>5. CASE StartLinks \/ LinkRoot \/ LinkOrphan \/ LinkChild
  BY <1>5, StartLinksKeeps, LinkRootKeeps, LinkOrphanKeeps, LinkChildKeeps
<1>6. CASE StartBounding \/ Descend \/ Detach \/ Return
  BY <1>6, StartBoundingKeeps, DescendKeeps, DetachKeeps, ReturnKeeps
<1> QED
  BY <1>1, <1>2, <1>3, <1>4, <1>5, <1>6 DEF Next

\* Whatever rows build_tree is given, and however their parents loop, the walks
\* mark the cycles and nothing else, each span linked has one place, no deeper
\* than the bound, and what is an orphan has a reason to be one.
THEOREM TreeInvHolds == Spec => []TreeInv
BY TreeStart, TreeStep, PTL DEF Spec

-----------------------------------------------------------------------------
(* What is returned.                                                       *)

\* Sequences that share nothing, put end to end.
LEMMA FlattenFacts ==
    ASSUME NEW seqs \in Seq(Seq(Ids)),
           \A k \in DOMAIN seqs : IsInjective(seqs[k]),
           \A j, k \in DOMAIN seqs : j # k => ToSet(seqs[j]) \cap ToSet(seqs[k]) = {}
    PROVE  /\ FlattenSeq(seqs) \in Seq(Ids) /\ IsInjective(FlattenSeq(seqs))
           /\ \A x : x \in ToSet(FlattenSeq(seqs)) <=> \E k \in DOMAIN seqs : x \in ToSet(seqs[k])
<1>1. CASE seqs = <<>>
  <2>1. Len(seqs) = 0 /\ DOMAIN seqs = {}
    BY <1>1
  <2>2. FlattenSeq(seqs) = <<>>
    BY <1>1, <2>1, Zenon DEF FlattenSeq
  <2> QED
    BY <2>1, <2>2, NoneInside
<1>2. CASE seqs # <<>>
  <2> DEFINE n == Len(seqs)
  <2>1. PICK f \in [1..n -> Seq(Ids)] :
           /\ FlattenSeq(seqs) = f[n]
           /\ \A i \in 1..n : f[i] = IF i = 1 THEN seqs[i] ELSE f[i - 1] \o seqs[i]
    BY <1>2, FlattenSteps
  <2>2. n \in Nat \ {0} /\ DOMAIN seqs = 1..n /\ \A k \in 1..n : seqs[k] \in Seq(Ids)
    BY <1>2
  <2> HIDE DEF n
  <2> DEFINE Good(i) == /\ IsInjective(f[i])
                        /\ \A x : x \in ToSet(f[i]) <=> \E k \in 1..i : x \in ToSet(seqs[k])
             B == {i \in 1..n : ~Good(i)}
  <2>3. B = {}
    <3> SUFFICES ASSUME B # {} PROVE FALSE
      OBVIOUS
    <3>1. PICK i \in B : \A j \in B : i <= j
      <4>1. B \subseteq Nat
        BY <2>2
      <4> HIDE DEF B
      <4> QED
        BY <4>1, LeastNat
    <3>2. i \in 1..n /\ ~Good(i)
      BY <3>1
    <3>3. CASE i = 1
      <4>1. f[i] = seqs[i] /\ 1..i = {i}
        <5>1. 1..1 = {1}
          OBVIOUS
        <5> QED
          BY <2>1, <3>2, <3>3, <5>1
      <4> QED
        BY <2>2, <3>2, <3>3, <4>1
    <3>4. CASE i # 1
      <4>1. i - 1 \in 1..n /\ i - 1 \notin B /\ 1..i = 1..(i - 1) \cup {i} /\ i \notin 1..(i - 1)
        <5>1. i \in Nat /\ i <= n /\ 1 <= i /\ i # 1 /\ n \in Nat
          BY <2>2, <3>2, <3>4
        <5>2. i - 1 \in 1..n /\ i - 1 < i /\ 1..i = 1..(i - 1) \cup {i} /\ i \notin 1..(i - 1) /\ ~(i <= i - 1)
          BY <5>1
        <5>3. i - 1 \notin B
          BY <3>1, <5>2
        <5> QED
          BY <5>2, <5>3
      <4>2. Good(i - 1)
        BY <4>1
      <4>3. f[i] = f[i - 1] \o seqs[i] /\ f[i - 1] \in Seq(Ids) /\ seqs[i] \in Seq(Ids)
        BY <2>1, <2>2, <3>2, <3>4, <4>1
      <4>4. ToSet(f[i - 1]) \cap ToSet(seqs[i]) = {}
        <5>1. ASSUME NEW x \in ToSet(f[i - 1]), x \in ToSet(seqs[i]) PROVE FALSE
          <6>1. PICK k \in 1..(i - 1) : x \in ToSet(seqs[k])
            BY <4>2, <5>1
          <6>2. k \in 1..n /\ k # i
            BY <2>2, <3>2, <6>1
          <6> QED
            BY <2>2, <3>2, <5>1, <6>1, <6>2
        <5> QED
          BY <5>1
      <4>5. /\ ToSet(f[i - 1] \o seqs[i]) = ToSet(f[i - 1]) \cup ToSet(seqs[i])
            /\ IsInjective(f[i - 1]) /\ IsInjective(seqs[i]) => IsInjective(f[i - 1] \o seqs[i])
        BY <4>3, <4>4, ConcatFacts
      <4>6. IsInjective(f[i])
        BY <2>2, <3>2, <4>2, <4>3, <4>5
      <4>7. ASSUME NEW x PROVE x \in ToSet(f[i]) <=> \E k \in 1..i : x \in ToSet(seqs[k])
        BY <4>1, <4>2, <4>3, <4>5
      <4> QED
        BY <3>2, <4>6, <4>7
    <3> QED
      BY <3>3, <3>4
  <2>4. n \in 1..n
    BY <2>2
  <2>5. Good(n)
    BY <2>3, <2>4
  <2>6. f[n] \in Seq(Ids)
    BY <2>1, <2>4
  <2>7. DOMAIN seqs = 1..n /\ FlattenSeq(seqs) = f[n]
    BY <2>1, <2>2
  <2> QED
    BY <2>5, <2>6, <2>7, Zenon
<1> QED
  BY <1>1, <1>2

\* While the nodes are linked and bounded each one has one place, and one only.
LEMMA OnePlace ==
    ASSUME TreeInv, pc \in Linked
    PROVE  IsInjective(Seats) /\ ToSet(Seats) = Known \ ToSet(todo)
<1>1. TreeTypeOK /\ LinkInv /\ TodoInv
  BY DEF TreeInv
<1> DEFINE seqs == [k \in DOMAIN order |-> children[order[k]]]
<1>2. /\ order \in Seq(Ids) /\ DOMAIN order = 1..Len(order) /\ Len(order) \in Nat
      /\ \A k \in DOMAIN order : order[k] \in Ids /\ children[order[k]] \in Seq(Ids)
  BY <1>1 DEF TreeTypeOK
<1>3. seqs \in Seq(Seq(Ids)) /\ DOMAIN seqs = DOMAIN order
  <2>1. seqs \in [1..Len(order) -> Seq(Ids)]
    BY <1>2
  <2> HIDE DEF seqs
  <2> QED
    BY <1>2, <2>1
<1>4. \A k \in DOMAIN seqs : seqs[k] = children[order[k]]
  OBVIOUS
<1>5. \A k \in DOMAIN seqs : IsInjective(seqs[k])
  BY <1>1, <1>2, <1>3, <1>4 DEF LinkInv
<1>6. ASSUME NEW j \in DOMAIN seqs, NEW k \in DOMAIN seqs, j # k
      PROVE  ToSet(seqs[j]) \cap ToSet(seqs[k]) = {}
  <2>1. order[j] # order[k]
    BY <1>1, <1>3, <1>6 DEF TodoInv, IsInjective
  <2>2. \A x \in ToSet(seqs[j]) : parent[x] = order[j]
    BY <1>1, <1>2, <1>3, <1>4 DEF LinkInv
  <2>3. \A x \in ToSet(seqs[k]) : parent[x] = order[k]
    BY <1>1, <1>2, <1>3, <1>4 DEF LinkInv
  <2> QED
    BY <2>1, <2>2, <2>3
<1> DEFINE flat == FlattenSeq(seqs)
<1>7. /\ flat \in Seq(Ids) /\ IsInjective(flat)
      /\ \A x : x \in ToSet(flat) <=> \E k \in DOMAIN seqs : x \in ToSet(seqs[k])
  <2> HIDE DEF seqs
  <2> QED
    BY <1>3, <1>5, <1>6, FlattenFacts
<1>8. Seats = Tops \o flat
  BY DEF Seats
<1> HIDE DEF flat, seqs
<1>9. \A x : x \in ToSet(flat) <=> x \in Inside(children)
  <2>1. ASSUME NEW x, NEW i \in Ids, x \in ToSet(children[i]) PROVE \E k \in DOMAIN seqs : x \in ToSet(seqs[k])
    <3>1. i \in Known
      BY <1>1, <2>1 DEF LinkInv
    <3>2. PICK k \in DOMAIN order : order[k] = i
      BY <3>1 DEF Known, ToSet
    <3> QED
      BY <1>3, <1>4, <2>1, <3>2
  <2> QED
    BY <1>2, <1>3, <1>4, <1>7, <2>1, InsideFacts
<1>10. /\ Tops \in Seq(Ids) /\ ToSet(Tops) = ({root} \ {None}) \cup ToSet(orphans)
       /\ IsInjective(Tops)
  <2>1. root \notin ToSet(orphans)
    <3>1. None \notin ToSet(orphans)
      BY <1>1, SpanIdsAssumption DEF TreeTypeOK, ToSet
    <3> QED
      BY <1>1, <3>1 DEF LinkInv
  <2> QED
    BY <1>1, <2>1, TreeTops DEF LinkInv
<1>11. ASSUME NEW x, x \in ToSet(Tops) PROVE x \notin ToSet(flat)
  <2>1. ASSUME NEW i \in Ids, x \in ToSet(children[i]) PROVE FALSE
    <3>1. parent[x] = i /\ x \notin ToSet(orphans) /\ i # None
      BY <1>1, <2>1, SpanIdsAssumption DEF LinkInv
    <3> QED
      BY <1>1, <1>10, <1>11, <3>1 DEF LinkInv
  <2> QED
    BY <1>9, <2>1, InsideFacts
<1>12. ToSet(Seats) = ToSet(Tops) \cup ToSet(flat) /\ IsInjective(Seats)
  <2>1. ToSet(Tops) \cap ToSet(flat) = {}
    BY <1>11
  <2> QED
    BY <1>7, <1>8, <1>10, <2>1, ConcatFacts
<1>13. ToSet(flat) = Inside(children)
  BY <1>9
<1>14. Placed = Known \ ToSet(todo)
  BY <1>1 DEF LinkInv
<1> QED
  BY <1>12, <1>13, <1>14, PlacedInside

-----------------------------------------------------------------------------
\* What is returned: every span known has a depth of its own.
LEMMA ReturnedDepths ==
    ASSUME TreeInv, pc = "returned"
    PROVE  \E dep \in [Ids -> 0..MaxDepth] :
              /\ Depths(dep)
              /\ \A i \in Ids : dep[i] # 0 <=> i \in Known
              /\ \A i \in Ids : dep[i] <= Total
              /\ DOMAIN Level = 1..Total
              /\ \A d \in 1..Total : Level[d] = {i \in Ids : dep[i] = d}
<1>1. PhaseInv /\ TreeTypeOK /\ WalkInv /\ StillToWalk /\ LinkInv /\ OrphanInv /\ Known \subseteq Ids
  BY KnownAreIds DEF TreeInv
<1>2. PICK dep \in [Ids -> 0..MaxDepth] : Depths(dep)
  BY <1>1 DEF OrphanInv, Bounding
<1>3. InQueue = {} /\ todo = <<>> /\ Placed = Known /\ visited = Known
  <2>1. todo = <<>> /\ queue = <<>>
    BY <1>1 DEF PhaseInv, Bounding
  <2>2. DOMAIN queue = {}
    BY <2>1
  <2>3. InQueue = {}
    BY <2>2 DEF InQueue
  <2>4. Placed = Known \ ToSet(todo) /\ visited = Known
    BY <1>1 DEF Linked, LinkInv, StillToWalk
  <2> QED
    BY <2>1, <2>3, <2>4, NoneInside
<1>4. \A i \in Ids : dep[i] \in Nat /\ dep[i] <= MaxDepth
  BY SpanTreeAssumption
<1>5. \A i \in Ids : \A j \in ToSet(children[i]) : j \in Ids /\ parent[j] = i /\ i \in Known /\ j \notin cyclic
  BY <1>1 DEF TreeTypeOK, LinkInv, ToSet
<1>6. /\ \A i \in Ids : dep[i] = 1 <=> i \in ToSet(Tops)
      /\ \A i \in Ids : dep[i] > 1 => /\ parent[i] \in Ids /\ i \in ToSet(children[parent[i]])
                                      /\ dep[i] = dep[parent[i]] + 1
      /\ \A i \in Ids : dep[i] # 0 => \A j \in ToSet(children[i]) : dep[j] = dep[i] + 1
  BY <1>2, <1>3 DEF Depths
<1>7. ASSUME NEW i \in Ids, dep[i] # 0 PROVE i \in Known
  <2>1. i \in ToSet(Tops) \/ i \in Inside(children)
    BY <1>4, <1>6, <1>7, InsideFacts
  <2> QED
    BY <1>3, <2>1, PlacedInside
<1>8. ASSUME NEW i \in Known PROVE dep[i] # 0
  <2> DEFINE X == {j \in Known : dep[j] = 0}
  <2>1. ASSUME NEW j \in X PROVE parent[j] \in X /\ j \in visited \ cyclic
    <3>1. j \in Known /\ j \in Ids /\ dep[j] = 0
      BY <1>1
    <3>2. j \in Inside(children)
      BY <1>3, <1>6, <3>1, PlacedInside
    <3>3. PICK p \in Ids : j \in ToSet(children[p])
      BY <3>2, InsideFacts
    <3>4. parent[j] = p /\ p \in Known /\ j \notin cyclic
      BY <1>5, <3>3
    <3>5. dep[p] = 0
      BY <1>4, <1>6, <3>1, <3>3
    <3> QED
      BY <1>3, <3>1, <3>4, <3>5
  <2>2. X \subseteq visited \ cyclic
    BY <2>1
  <2> HIDE DEF X
  <2>3. X = {}
    BY <1>1, <2>1, <2>2 DEF WalkInv, Acyclic
  <2> QED
    BY <2>3 DEF X
<1>9. ASSUME NEW i \in Ids PROVE dep[i] <= Total
  <2> DEFINE m == dep[i]
             Missing == {n \in 1..m : ~ \E j \in Ids : dep[j] = n}
  <2>1. Missing = {}
    <3> SUFFICES ASSUME Missing # {} PROVE FALSE
      OBVIOUS
    <3>1. m \in Nat /\ Missing \subseteq Nat /\ \A n \in Missing : n <= m
      BY <1>4
    <3>2. PICK n \in Missing : \A k \in Missing : k <= n
      <4> HIDE DEF Missing, m
      <4> QED
        BY <3>1, GreatestNat
    <3>3. n \in 1..m /\ n # m
      BY <3>2
    <3>4. n + 1 \in 1..m /\ n + 1 \notin Missing /\ n + 1 > 1
      BY <3>1, <3>2, <3>3
    <3>5. PICK j \in Ids : dep[j] = n + 1
      BY <3>4
    <3>6. parent[j] \in Ids /\ dep[parent[j]] = n
      BY <1>4, <1>6, <3>3, <3>4, <3>5
    <3> QED
      BY <3>2, <3>6
  <2>2. \A n \in 1..m : \E j \in Ids : dep[j] = n
    BY <2>1
  <2> DEFINE q == [n \in 1..m |-> CHOOSE j \in Ids : dep[j] = n]
  <2>3. \A n \in 1..m : q[n] \in Ids /\ dep[q[n]] = n
    BY <2>2
  <2>4. m \in Nat
    BY <1>4
  <2>5. DOMAIN q = 1..m /\ q = [n \in 1..m |-> q[n]]
    OBVIOUS
  <2> HIDE DEF q, m
  <2>6. q \in [1..m -> Ids]
    BY <2>3, <2>5
  <2>7. q \in Seq(Ids) /\ Len(q) = m
    BY <2>4, <2>6
  <2>8. IsInjective(q)
    BY <2>3, <2>5 DEF IsInjective
  <2> QED
    BY <2>7, <2>8, InjectiveIsShort DEF m
<1>10. /\ DOMAIN Level = 1..Total
       /\ \A d \in 1..Total : Level[d] = IF d = 1 THEN ToSet(Tops)
                                         ELSE UNION {ToSet(children[i]) : i \in Level[d - 1]}
  <2>1. ToSet(Tops) \subseteq Ids
    BY <1>1, TreeTops DEF ToSet
  <2> QED
    BY <1>1, <2>1, LevelSteps DEF TreeTypeOK
<1>11. \A d \in 1..Total : Level[d] = {i \in Ids : dep[i] = d}
  <2> DEFINE B == {d \in 1..Total : Level[d] # {i \in Ids : dep[i] = d}}
  <2> SUFFICES ASSUME B # {} PROVE FALSE
    OBVIOUS
  <2>1. PICK d \in B : \A k \in B : d <= k
    <3>1. B \subseteq Nat
      BY TotalIsNat
    <3> HIDE DEF B
    <3> QED
      BY <3>1, LeastNat
  <2>2. d \in 1..Total /\ Level[d] # {i \in Ids : dep[i] = d}
    BY <2>1
  <2>3. CASE d = 1
    <3>1. Level[d] = ToSet(Tops) /\ ToSet(Tops) \subseteq Ids
      BY <1>1, <1>10, <2>2, <2>3, TreeTops DEF ToSet
    <3> QED
      BY <1>6, <2>2, <2>3, <3>1
  <2>4. CASE d # 1
    <3>1. d - 1 \in 1..Total /\ d - 1 \notin B /\ d - 1 # 0 /\ (d - 1) + 1 = d /\ d > 1
      BY <2>1, <2>2, <2>4, TotalIsNat
    <3>2. Level[d - 1] = {i \in Ids : dep[i] = d - 1}
      BY <3>1
    <3>3. Level[d] = UNION {ToSet(children[i]) : i \in Level[d - 1]}
      BY <1>10, <2>2, <2>4
    <3>4. ASSUME NEW j PROVE j \in Level[d] <=> j \in Ids /\ dep[j] = d
      <4>1. j \in Level[d] <=> \E i \in Ids : dep[i] = d - 1 /\ j \in ToSet(children[i])
        BY <3>2, <3>3
      <4>2. ASSUME NEW i \in Ids, dep[i] = d - 1, j \in ToSet(children[i]) PROVE j \in Ids /\ dep[j] = d
        BY <1>5, <1>6, <3>1, <4>2
      <4>3. ASSUME j \in Ids, dep[j] = d PROVE \E i \in Ids : dep[i] = d - 1 /\ j \in ToSet(children[i])
        <5>1. parent[j] \in Ids /\ j \in ToSet(children[parent[j]]) /\ d = dep[parent[j]] + 1
          BY <1>6, <3>1, <4>3
        <5>2. dep[parent[j]] = d - 1
          BY <1>4, <3>1, <5>1
        <5> QED
          BY <5>1, <5>2
      <4> QED
        BY <4>1, <4>2, <4>3
    <3> QED
      BY <2>2, <3>4
  <2> QED
    BY <2>3, <2>4
<1> QED
  BY <1>2, <1>7, <1>8, <1>9, <1>10, <1>11

-----------------------------------------------------------------------------

\* The invariant, and what has depths, say what is to be shown.
LEMMA SpansAreReturned == TreeInv => EverySpanReturned
<1> SUFFICES ASSUME TreeInv PROVE EverySpanReturned
  OBVIOUS
<1>1. pc \in {"link", "bound", "returned"} => IsInjective(Seats) /\ ToSet(Seats) = Known \ ToSet(todo)
  BY OnePlace DEF Linked
<1>2. ASSUME pc = "returned"
      PROVE  Readable = Known /\ \A d \in DOMAIN Level : d > MaxDepth => Level[d] = {}
  <2>1. PICK dep \in [Ids -> 0..MaxDepth] :
              /\ Depths(dep)
              /\ \A i \in Ids : dep[i] # 0 <=> i \in Known
              /\ \A i \in Ids : dep[i] <= Total
              /\ DOMAIN Level = 1..Total
              /\ \A d \in 1..Total : Level[d] = {i \in Ids : dep[i] = d}
    BY <1>2, ReturnedDepths
  <2>2. Known \subseteq Ids
    BY KnownAreIds DEF TreeInv
  <2>3. \A i \in Ids : dep[i] \in Nat /\ dep[i] <= MaxDepth
    BY SpanTreeAssumption
  <2>4. ASSUME NEW x PROVE x \in Readable <=> x \in Known
    <3>1. x \in Readable <=> \E d \in 1..Total : x \in Level[d]
      BY Zenon DEF Readable, Total
    <3>2. x \in Readable <=> x \in Ids /\ \E d \in 1..Total : dep[x] = d
      BY <2>1, <3>1
    <3>3. x \in Ids => (dep[x] \in 1..Total <=> x \in Known)
      BY <2>1, <2>3, TotalIsNat
    <3> QED
      BY <2>2, <3>2, <3>3
  <2>5. ASSUME NEW d \in DOMAIN Level, d > MaxDepth PROVE Level[d] = {}
    <3>1. \A i \in Ids : dep[i] # d
      BY <2>1, <2>3, <2>5, TotalIsNat, SpanTreeAssumption
    <3> QED
      BY <2>1, <3>1
  <2> QED
    BY <2>4, <2>5
<1> QED
  BY <1>1, <1>2 DEF EverySpanReturned

\* Whatever is cut has a reason.
LEMMA LinksAreKept == TreeInv => OnlyBrokenLinksCut
<1> SUFFICES ASSUME TreeInv, pc = "returned"
             PROVE  /\ \A i \in Known : \A j \in ToSet(children[i]) : parent[j] = i /\ ~OnCycle(j)
                    /\ \A i \in ToSet(orphans) :
                          \/ OnCycle(i)
                          \/ parent[i] = None /\ root # None
                          \/ parent[i] # None /\ parent[i] \notin Known
                          \/ MaxDepth \in DOMAIN Level /\ parent[i] \in Level[MaxDepth]
  BY DEF OnlyBrokenLinksCut
<1>1. /\ PhaseInv /\ TreeTypeOK /\ WalkInv /\ StillToWalk /\ LinkInv /\ Known \subseteq Ids
      /\ visited = Known /\ Placed = Known
  BY KnownAreIds, NoneInside DEF TreeInv, PhaseInv, LinkInv, StillToWalk, Linked, Bounding
<1>2. ASSUME NEW i \in Known, NEW j \in ToSet(children[i]) PROVE parent[j] = i /\ ~OnCycle(j)
  <2>1. parent[j] = i /\ j \notin cyclic
    BY <1>1 DEF LinkInv
  <2>2. j \in Known
    BY <1>1, InsideFacts, PlacedInside
  <2> QED
    BY <1>1, <2>1, <2>2, CyclesAreFound
<1>3. ASSUME NEW i \in ToSet(orphans)
      PROVE  \/ OnCycle(i)
             \/ parent[i] = None /\ root # None
             \/ parent[i] # None /\ parent[i] \notin Known
             \/ MaxDepth \in DOMAIN Level /\ parent[i] \in Level[MaxDepth]
  <2>1. PICK dep \in [Ids -> 0..MaxDepth] :
              /\ Depths(dep)
              /\ \A j \in Ids : dep[j] <= Total
              /\ DOMAIN Level = 1..Total
              /\ \A d \in 1..Total : Level[d] = {j \in Ids : dep[j] = d}
    BY ReturnedDepths
  <2>2. Cut(i) \/ (parent[i] \in Ids /\ dep[parent[i]] = MaxDepth)
    BY <1>3, <2>1 DEF Depths
  <2>3. CASE Cut(i)
    BY <1>1, <2>3 DEF Cut, WalkInv
  <2>4. CASE parent[i] \in Ids /\ dep[parent[i]] = MaxDepth
    <3>1. MaxDepth <= Total
      BY <2>1, <2>4
    <3>2. MaxDepth \in 1..Total
      BY <3>1, SpanTreeAssumption, TotalIsNat
    <3> QED
      BY <2>1, <2>4, <3>2
  <2> QED
    BY <2>2, <2>3, <2>4
<1> QED
  BY <1>2, <1>3

-----------------------------------------------------------------------------
(* OtlpExport: what is stored, answered and counted.                       *)

DecodedSpan == [id : Ids \cup {None}, parent : Ids \cup {None}, broken : BOOLEAN,
                content : {"fine", "unmappable", "unstorable"}]

RowsOf(q) == [k \in DOMAIN q |-> [id |-> q[k].id, parent |-> q[k].parent]]

\* The first n spans of the request are mapped or rejected.
MappedUpTo(n) ==
    /\ Len(decoded) = Len(request.spans) - n
    /\ \A k \in 1..Len(decoded) : decoded[k] = Decoded(request.spans[n + k])
    /\ rejected + Len(mapped) = n
    /\ \A k \in DOMAIN mapped : mapped[k].id \in Ids
    /\ (\A k \in DOMAIN mapped : ~Unstorable(mapped[k])) => RowsOf(mapped) = Kept[n]

HandlerTypeOK ==
    /\ step \in {"idle", "read", "decoded", "mapping", "answered", "committed", "undone"}
    /\ step # "idle" => request \in Requests
    /\ decoded \in Seq(DecodedSpan) /\ mapped \in Seq(DecodedSpan)
    /\ rejected \in Nat /\ inserted \in Seq(Row) /\ stored \in Seq(Row)

HandlerInv ==
    /\ HandlerTypeOK
    /\ step # "answered" => inserted = <<>>
    /\ step \in {"idle", "read", "decoded"} => mapped = <<>> /\ rejected = 0
    /\ step \in {"decoded", "mapping"} => \E n \in 0..Len(request.spans) : MappedUpTo(n)
    /\ AnswerIsTruthful

\* What is decoded of a span on the wire.
LEMMA WireFacts ==
    ASSUME NEW s \in WireSpan
    PROVE  /\ s.id.id \in Ids \cup {None} /\ s.parent.id \in Ids \cup {None}
           /\ Decoded(s) \in DecodedSpan
           /\ Decoded(s).id = s.id.id /\ Decoded(s).parent = s.parent.id
           /\ ~Unmappable(Decoded(s)) => Decoded(s).id \in Ids
           /\ Usable(s) <=> ~Unmappable(Decoded(s)) /\ ~Unstorable(Decoded(s))
<1>1. s.id \in WireIds \cup {Bad, Odd} /\ s.parent \in WireIds \cup {Absent, Zeros, Bad, Odd}
      /\ s.content \in {"fine", "unmappable", "unstorable"}
  BY DEF WireSpan
<1>2. ASSUME NEW w \in WireIds PROVE w.id \in Ids /\ w.form \in Forms
  BY <1>2 DEF WireIds, Spelled
<1>3. /\ s.id.id \in Ids \cup {None} /\ (s.id.id = None <=> s.id.form \in {"bad", "odd"})
  <2>1. CASE s.id \in WireIds
    <3>1. s.id.id \in Ids /\ s.id.form \in Forms
      BY <1>2, <2>1
    <3> QED
      BY <3>1, SpanIdsAssumption DEF Forms
  <2>2. CASE s.id \in {Bad, Odd}
    BY <2>2 DEF Bad, Odd
  <2> QED
    BY <1>1, <2>1, <2>2
<1>4. s.parent.id \in Ids \cup {None}
  <2>1. CASE s.parent \in WireIds
    BY <1>2, <2>1
  <2>2. CASE s.parent \in {Absent, Zeros, Bad, Odd}
    BY <2>2 DEF Bad, Odd, Absent, Zeros
  <2> QED
    BY <1>1, <2>1, <2>2
<1> DEFINE d == Decoded(s)
<1>5. /\ d.id = s.id.id /\ d.parent = s.parent.id /\ d.broken = (s.parent.form \in {"bad", "odd"})
      /\ d.content = s.content /\ d \in DecodedSpan
  BY <1>1, <1>3, <1>4 DEF Decoded, Parent, DecodedSpan
<1> HIDE DEF d
<1>6. ~Unmappable(d) => d.id \in Ids
  BY <1>3, <1>5 DEF Unmappable
<1>7. Usable(s) <=> ~Unmappable(d) /\ ~Unstorable(d)
  BY <1>1, <1>3, <1>5 DEF Usable, Unmappable, Unstorable
<1> QED
  BY <1>3, <1>4, <1>5, <1>6, <1>7 DEF d

KeptAre(f) ==
    f = [n \in 0..Len(request.spans) |->
            IF n = 0 THEN <<>>
            ELSE IF Usable(request.spans[n])
                 THEN Append(f[n - 1], [id |-> request.spans[n].id.id,
                                        parent |-> request.spans[n].parent.id])
                 ELSE f[n - 1]]

RequestRow(n) == [id |-> request.spans[n].id.id, parent |-> request.spans[n].parent.id]

\* The rows to be kept, span by span.
LEMMA KeptSteps ==
    ASSUME request \in Requests
    PROVE  /\ Len(request.spans) \in Nat
           /\ \A n \in 1..Len(request.spans) : request.spans[n] \in WireSpan
           /\ \A n \in 0..Len(request.spans) :
                 /\ Kept[n] \in Seq(Row)
                 /\ Kept[n] = IF n = 0 THEN <<>>
                              ELSE IF Usable(request.spans[n]) THEN Append(Kept[n - 1], RequestRow(n))
                              ELSE Kept[n - 1]
<1> DEFINE N == Len(request.spans)
           V == Seq(Row)
           step1 == [k \in Nat |-> [v \in V |-> IF k \in 1..N /\ Usable(request.spans[k])
                                               THEN Append(v, RequestRow(k)) ELSE v]]
<1>1. /\ request.spans \in Seq(WireSpan) /\ N \in Nat
      /\ \A n \in 1..N : request.spans[n] \in WireSpan
  <2>1. request \in [body : Bodies, spans : Seq(WireSpan)]
    BY OtlpExportAssumption
  <2> QED
    BY <2>1
<1> HIDE DEF N
<1>2. ASSUME NEW n \in 1..N, Usable(request.spans[n]) PROVE RequestRow(n) \in Row
  <2>1. request.spans[n].id.id \in Ids /\ request.spans[n].parent.id \in Ids \cup {None}
    BY <1>1, <1>2, WireFacts
  <2> QED
    BY <2>1 DEF RequestRow, Row
<1>3. step1 \in [Nat -> [V -> V]]
  <2>1. ASSUME NEW k \in Nat, NEW v \in V
        PROVE  (IF k \in 1..N /\ Usable(request.spans[k]) THEN Append(v, RequestRow(k)) ELSE v) \in V
    BY <1>2
  <2> QED
    BY <2>1
<1>4. <<>> \in V
  OBVIOUS
<1>5. PICK f \in [0..N -> V] : Repeats(f, N, <<>>, step1)
  <2> HIDE DEF step1, V
  <2> QED
    BY <1>1, <1>3, <1>4, RepeatsExists
<1>6. ASSUME NEW n \in 0..N
      PROVE  f[n] = IF n = 0 THEN <<>>
                    ELSE IF Usable(request.spans[n]) THEN Append(f[n - 1], RequestRow(n)) ELSE f[n - 1]
  <2>1. CASE n = 0
    BY <1>5, <2>1 DEF Repeats
  <2>2. CASE n # 0
    <3>1. n \in 1..N /\ n - 1 \in 0..N /\ n \in Nat
      BY <1>1, <2>2
    <3>2. f[n] = step1[n][f[n - 1]] /\ f[n - 1] \in V
      BY <1>5, <3>1 DEF Repeats
    <3>3. step1[n][f[n - 1]] = IF Usable(request.spans[n]) THEN Append(f[n - 1], RequestRow(n)) ELSE f[n - 1]
      BY <3>1, <3>2
    <3> HIDE DEF step1, V
    <3> QED
      BY <2>2, <3>2, <3>3
  <2> QED
    BY <2>1, <2>2
<1>7. KeptAre(f)
  <2>1. f = [n \in 0..N |-> f[n]]
    OBVIOUS
  <2>2. f = [n \in 0..N |-> IF n = 0 THEN <<>>
                           ELSE IF Usable(request.spans[n]) THEN Append(f[n - 1], RequestRow(n)) ELSE f[n - 1]]
    BY <1>6, <2>1
  <2> QED
    BY <2>2, Zenon DEF KeptAre, N, RequestRow
<1>8. Kept = CHOOSE h : KeptAre(h)
  BY Zenon DEF Kept, KeptAre
<1>9. KeptAre(Kept)
  BY <1>7, <1>8, Zenon
<1>10. PICK h : h = Kept /\ h = [n \in 0..N |-> IF n = 0 THEN <<>>
                           ELSE IF Usable(request.spans[n]) THEN Append(h[n - 1], RequestRow(n)) ELSE h[n - 1]]
  BY <1>9, Zenon DEF KeptAre, N, RequestRow
<1>11. \A n \in 0..N : h[n] = IF n = 0 THEN <<>>
                           ELSE IF Usable(request.spans[n]) THEN Append(h[n - 1], RequestRow(n)) ELSE h[n - 1]
  BY <1>10, Zenon
<1> DEFINE B == {n \in 0..N : h[n] \notin V}
<1> HIDE DEF V
<1>12. B = {}
  <2> SUFFICES ASSUME B # {} PROVE FALSE
    OBVIOUS
  <2>1. PICK n \in B : \A m \in B : n <= m
    <3>1. B \subseteq Nat
      BY <1>1
    <3> HIDE DEF B
    <3> QED
      BY <3>1, LeastNat
  <2>2. n \in 0..N /\ h[n] \notin V
    BY <2>1
  <2>3. n # 0
    BY <1>4, <1>11, <2>2
  <2>4. n \in 1..N /\ n - 1 \in 0..N /\ ~(n <= n - 1)
    BY <1>1, <2>2, <2>3
  <2>5. h[n - 1] \in V
    BY <2>1, <2>4
  <2>6. CASE Usable(request.spans[n])
    <3>1. h[n] = Append(h[n - 1], RequestRow(n)) /\ RequestRow(n) \in Row
      BY <1>2, <1>11, <2>2, <2>3, <2>4, <2>6
    <3>2. Append(h[n - 1], RequestRow(n)) \in V
      BY <2>5, <3>1 DEF V
    <3> QED
      BY <2>2, <3>1, <3>2
  <2>7. CASE ~Usable(request.spans[n])
    BY <1>11, <2>2, <2>3, <2>5, <2>7
  <2> QED
    BY <2>6, <2>7
<1> QED
  BY <1>1, <1>10, <1>11, <1>12 DEF N, V

\* A handler begins with nothing.
LEMMA HandlerStart == HandlerInit => HandlerInv
<1> SUFFICES ASSUME HandlerInit PROVE HandlerInv
  OBVIOUS
<1> QED
  BY DEF HandlerInit, HandlerInv, HandlerTypeOK, AnswerIsTruthful

\* The rows are those of the request, whatever else changes.
KeptFor(r) ==
    LET kept[n \in 0..Len(r.spans)] ==
            IF n = 0 THEN <<>>
            ELSE IF Usable(r.spans[n])
                 THEN Append(kept[n - 1], [id |-> r.spans[n].id.id, parent |-> r.spans[n].parent.id])
                 ELSE kept[n - 1]
    IN  kept

\* Kept depends on the request alone.
LEMMA KeptIsFor == Kept = KeptFor(request) /\ Kept' = KeptFor(request')
BY Zenon DEF Kept, KeptFor

\* So it stays while the request does.
LEMMA KeptStays == request' = request => Kept' = Kept
BY KeptIsFor

\* The rows of no spans.
LEMMA NoRows == RowsOf(<<>>) = <<>>
<1>1. DOMAIN <<>> = {}
  OBVIOUS
<1> QED
  BY <1>1 DEF RowsOf

\* The rows of one span more.
LEMMA RowsOfAppend ==
    ASSUME NEW q \in Seq(DecodedSpan), NEW d \in DecodedSpan
    PROVE  RowsOf(Append(q, d)) = Append(RowsOf(q), [id |-> d.id, parent |-> d.parent])
<1> DEFINE r == RowsOf(q)
           R == [id : Ids \cup {None}, parent : Ids \cup {None}]
           e == [id |-> d.id, parent |-> d.parent]
<1>1. e \in R /\ \A k \in DOMAIN q : [id |-> q[k].id, parent |-> q[k].parent] \in R
  <2>1. \A k \in DOMAIN q : q[k] \in DecodedSpan
    OBVIOUS
  <2> QED
    BY <2>1 DEF DecodedSpan
<1>2. DOMAIN q = 1..Len(q) /\ Len(q) \in Nat
  OBVIOUS
<1>3. r \in [1..Len(q) -> R] /\ \A k \in 1..Len(q) : r[k] = [id |-> q[k].id, parent |-> q[k].parent]
  BY <1>1, <1>2 DEF RowsOf
<1> HIDE DEF r, R
<1>4. r \in Seq(R) /\ Len(r) = Len(q) /\ DOMAIN r = 1..Len(q)
  BY <1>2, <1>3
<1>5. /\ Append(r, e) = [k \in 1..(Len(q) + 1) |-> IF k = Len(q) + 1 THEN e ELSE r[k]]
  BY <1>1, <1>2, <1>4
<1>6. /\ DOMAIN Append(q, d) = 1..(Len(q) + 1)
      /\ \A k \in 1..(Len(q) + 1) : Append(q, d)[k] = IF k = Len(q) + 1 THEN d ELSE q[k]
  OBVIOUS
<1>7. \A k \in 1..(Len(q) + 1) : k # Len(q) + 1 => k \in 1..Len(q)
  BY <1>2
<1>8. RowsOf(Append(q, d)) = [k \in 1..(Len(q) + 1) |-> [id |-> Append(q, d)[k].id, parent |-> Append(q, d)[k].parent]]
  BY <1>6 DEF RowsOf
<1>9. \A k \in 1..(Len(q) + 1) : [id |-> Append(q, d)[k].id, parent |-> Append(q, d)[k].parent]
                                 = IF k = Len(q) + 1 THEN e ELSE r[k]
  BY <1>3, <1>6, <1>7
<1> QED
  BY <1>5, <1>8, <1>9 DEF r

\* Decoding has every span still to map.
LEMMA DecodeKeeps == ASSUME HandlerInv, Decode PROVE HandlerInv'
<1>1. /\ step = "read" /\ step' = "decoded"
      /\ decoded' = [k \in DOMAIN request.spans |-> Decoded(request.spans[k])]
      /\ UNCHANGED <<request, mapped, rejected, answer, inserted, stored>>
  BY DEF Decode, database
<1>2. HandlerTypeOK /\ inserted = <<>> /\ stored = <<>> /\ mapped = <<>> /\ rejected = 0 /\ request \in Requests
  BY <1>1 DEF HandlerInv, HandlerTypeOK, AnswerIsTruthful
<1> DEFINE N == Len(request.spans)
<1>3. /\ N \in Nat /\ DOMAIN request.spans = 1..N /\ \A n \in 1..N : request.spans[n] \in WireSpan
      /\ Kept[0] = <<>>
  <2>1. request \in [body : Bodies, spans : Seq(WireSpan)]
    BY <1>2, OtlpExportAssumption
  <2> QED
    BY <1>2, <2>1, KeptSteps
<1> HIDE DEF N
<1>4. decoded' \in Seq(DecodedSpan) /\ Len(decoded') = N /\ \A k \in 1..N : decoded'[k] = Decoded(request.spans[k])
  <2> DEFINE d == [k \in 1..N |-> Decoded(request.spans[k])]
  <2>1. d \in [1..N -> DecodedSpan]
    BY <1>3, WireFacts
  <2>2. decoded' = d /\ \A k \in 1..N : d[k] = Decoded(request.spans[k])
    BY <1>1, <1>3
  <2> HIDE DEF d
  <2> QED
    BY <1>3, <2>1, <2>2
<1>5. HandlerTypeOK'
  BY <1>1, <1>2, <1>4 DEF HandlerTypeOK
<1>6. MappedUpTo(0)'
  <2>1. /\ Len(decoded') = N - 0 /\ \A k \in 1..Len(decoded') : decoded'[k] = Decoded(request.spans[0 + k])
        /\ rejected + Len(mapped) = 0 /\ DOMAIN mapped = {}
    BY <1>2, <1>3, <1>4
  <2>2. RowsOf(mapped') = Kept'[0]
    BY <1>1, <1>2, <1>3, KeptStays, NoRows
  <2> QED
    BY <1>1, <2>1, <2>2 DEF MappedUpTo, N
<1>7. 0 \in 0..Len(request'.spans)
  BY <1>1, <1>3 DEF N
<1> QED
  BY <1>1, <1>2, <1>5, <1>6, <1>7 DEF HandlerInv, AnswerIsTruthful

\* The span at the head becomes a row, or is counted.
LEMMA MapKeeps == ASSUME HandlerInv, Map PROVE HandlerInv'
<1> DEFINE h == Head(decoded)
           N == Len(request.spans)
<1>1. /\ step = "mapping" /\ decoded # <<>> /\ decoded' = Tail(decoded)
      /\ UNCHANGED <<request, step, answer, inserted, stored>>
      /\ \/ Unmappable(h) /\ rejected' = rejected + 1 /\ mapped' = mapped
         \/ ~Unmappable(h) /\ mapped' = Append(mapped, h) /\ rejected' = rejected
  BY DEF Map, database
<1>2. HandlerTypeOK /\ inserted = <<>> /\ stored = <<>> /\ request \in Requests
  BY <1>1 DEF HandlerInv, HandlerTypeOK, AnswerIsTruthful
<1>3. PICK n \in 0..N : MappedUpTo(n)
  BY <1>1 DEF HandlerInv
<1>4. /\ N \in Nat /\ \A k \in 1..N : request.spans[k] \in WireSpan
      /\ \A k \in 0..N : Kept[k] = IF k = 0 THEN <<>>
                              ELSE IF Usable(request.spans[k]) THEN Append(Kept[k - 1], RequestRow(k))
                              ELSE Kept[k - 1]
  BY <1>2, KeptSteps
<1>5. /\ decoded \in Seq(DecodedSpan) /\ decoded' \in Seq(DecodedSpan) /\ h \in DecodedSpan
      /\ Len(decoded) \in Nat \ {0} /\ h = decoded[1] /\ 1 \in 1..Len(decoded)
      /\ Len(decoded') = Len(decoded) - 1
      /\ \A k \in 1..Len(decoded') : k + 1 \in 1..Len(decoded) /\ decoded'[k] = decoded[k + 1]
      /\ mapped \in Seq(DecodedSpan) /\ Len(mapped) \in Nat /\ rejected \in Nat
  <2>1. decoded \in Seq(DecodedSpan) /\ mapped \in Seq(DecodedSpan) /\ rejected \in Nat
    BY <1>2 DEF HandlerTypeOK
  <2>2. /\ Tail(decoded) \in Seq(DecodedSpan) /\ Head(decoded) \in DecodedSpan /\ Head(decoded) = decoded[1]
        /\ Len(decoded) \in Nat \ {0}
        /\ Len(Tail(decoded)) = Len(decoded) - 1 /\ DOMAIN Tail(decoded) = 1..(Len(decoded) - 1)
        /\ \A k \in DOMAIN Tail(decoded) : Tail(decoded)[k] = decoded[k + 1]
    BY <1>1, <2>1, TailFacts
  <2>3. \A k \in 1..(Len(decoded) - 1) : k + 1 \in 1..Len(decoded)
    BY <2>2
  <2>4. Len(mapped) \in Nat /\ 1 \in 1..Len(decoded)
    BY <2>1, <2>2
  <2> QED
    BY <1>1, <2>1, <2>2, <2>3, <2>4
<1> HIDE DEF h, N
<1>6. /\ Len(decoded) = N - n /\ \A k \in 1..Len(decoded) : decoded[k] = Decoded(request.spans[n + k])
      /\ rejected + Len(mapped) = n /\ \A k \in DOMAIN mapped : mapped[k].id \in Ids
      /\ (\A k \in DOMAIN mapped : ~Unstorable(mapped[k])) => RowsOf(mapped) = Kept[n]
  BY <1>3 DEF MappedUpTo, N
<1>7. n \in Nat /\ n + 1 \in 1..N /\ n + 1 \in 0..N /\ (n + 1) - 1 = n /\ n + 1 # 0
  BY <1>4, <1>5, <1>6
<1>8. h = Decoded(request.spans[n + 1]) /\ request.spans[n + 1] \in WireSpan
  BY <1>4, <1>5, <1>6, <1>7
<1>9. /\ Usable(request.spans[n + 1]) <=> ~Unmappable(h) /\ ~Unstorable(h)
      /\ ~Unmappable(h) => h.id \in Ids
      /\ RequestRow(n + 1) = [id |-> h.id, parent |-> h.parent]
  BY <1>8, WireFacts DEF RequestRow
<1>10. /\ Len(decoded') = N - (n + 1)
       /\ \A k \in 1..Len(decoded') : decoded'[k] = Decoded(request.spans[(n + 1) + k])
  <2>1. Len(decoded') = N - (n + 1)
    BY <1>4, <1>5, <1>6, <1>7
  <2>2. ASSUME NEW k \in 1..Len(decoded') PROVE decoded'[k] = Decoded(request.spans[(n + 1) + k])
    <3>1. k \in Nat /\ n + (k + 1) = (n + 1) + k
      BY <1>5, <1>7
    <3>2. decoded'[k] = Decoded(request.spans[n + (k + 1)])
      BY <1>5, <1>6
    <3> QED
      BY <3>1, <3>2
  <2> QED
    BY <2>1, <2>2
<1>11. Kept[n + 1] = IF Usable(request.spans[n + 1]) THEN Append(Kept[n], RequestRow(n + 1)) ELSE Kept[n]
  BY <1>4, <1>7
<1>12. /\ rejected' \in Nat /\ mapped' \in Seq(DecodedSpan) /\ rejected' + Len(mapped') = n + 1
       /\ \A k \in DOMAIN mapped' : mapped'[k].id \in Ids
       /\ (\A k \in DOMAIN mapped' : ~Unstorable(mapped'[k])) => RowsOf(mapped') = Kept[n + 1]
  <2>1. CASE Unmappable(h) /\ rejected' = rejected + 1 /\ mapped' = mapped
    <3>1. rejected \in Nat /\ Len(mapped) \in Nat /\ n \in Nat /\ rejected + Len(mapped) = n
      BY <1>5, <1>6, <1>7
    <3>2. rejected + 1 \in Nat /\ (rejected + 1) + Len(mapped) = n + 1
      BY <3>1
    <3>3. Kept[n + 1] = Kept[n]
      BY <1>9, <1>11, <2>1
    <3> QED
      BY <1>5, <1>6, <2>1, <3>2, <3>3
  <2>2. CASE ~Unmappable(h) /\ mapped' = Append(mapped, h) /\ rejected' = rejected
    <3> DEFINE q == Append(mapped, h)
    <3>1. /\ q \in Seq(DecodedSpan) /\ Len(q) = Len(mapped) + 1
          /\ DOMAIN q = DOMAIN mapped \cup {Len(mapped) + 1}
          /\ \A k \in DOMAIN mapped : q[k] = mapped[k]
          /\ q[Len(mapped) + 1] = h
      BY <1>5
    <3>2. RowsOf(q) = Append(RowsOf(mapped), [id |-> h.id, parent |-> h.parent])
      BY <1>5, RowsOfAppend
    <3> HIDE DEF q
    <3>3. \A k \in DOMAIN q : q[k].id \in Ids
      BY <1>6, <1>9, <2>2, <3>1
    <3>4. ASSUME \A k \in DOMAIN q : ~Unstorable(q[k]) PROVE RowsOf(q) = Kept[n + 1]
      <4>1. RowsOf(mapped) = Kept[n]
        BY <1>6, <3>1, <3>4
      <4>2. Usable(request.spans[n + 1])
        BY <1>9, <2>2, <3>1, <3>4
      <4> QED
        BY <1>9, <1>11, <3>2, <4>1, <4>2
    <3>5. rejected + Len(q) = n + 1
      <4>1. rejected \in Nat /\ Len(mapped) \in Nat /\ n \in Nat /\ rejected + Len(mapped) = n
        BY <1>5, <1>6, <1>7
      <4>2. rejected + (Len(mapped) + 1) = n + 1
        BY <4>1
      <4> QED
        BY <3>1, <4>2
    <3>6. mapped' = q
      BY <2>2 DEF q
    <3> QED
      BY <1>5, <2>2, <3>1, <3>3, <3>4, <3>5, <3>6
  <2> QED
    BY <1>1, <2>1, <2>2
<1>13. MappedUpTo(n + 1)'
  <2>1. Kept' = Kept /\ Len(request'.spans) = N
    BY <1>1, KeptStays DEF N
  <2> QED
    BY <1>1, <1>10, <1>12, <2>1 DEF MappedUpTo
<1>14. HandlerTypeOK'
  BY <1>1, <1>2, <1>5, <1>12 DEF HandlerTypeOK
<1>15. n + 1 \in 0..Len(request'.spans)
  BY <1>1, <1>7 DEF N
<1> QED
  BY <1>1, <1>2, <1>13, <1>14, <1>15 DEF HandlerInv, AnswerIsTruthful

\* Every way to answer without rows.
LEMMA AnswerKeeps ==
    ASSUME HandlerInv, RefuseBody \/ RefuseIds \/ AnswerEmpty \/ RefuseBatch
                       \/ AnswerNothingMapped \/ IngestFails
    PROVE  HandlerInv'
<1>1. /\ step \in {"read", "decoded", "mapping"} /\ step' = "answered"
      /\ UNCHANGED <<request, decoded, mapped, rejected, inserted, stored>>
      /\ answer' = 200 => /\ decoded = <<>> /\ step \in {"decoded", "mapping"}
                          /\ mapped = <<>> \/ step = "decoded"
  BY DEF RefuseBody, RefuseIds, AnswerEmpty, RefuseBatch, AnswerNothingMapped, IngestFails, Respond, database
<1>2. HandlerTypeOK /\ inserted = <<>> /\ stored = <<>> /\ request \in Requests /\ (step = "decoded" => mapped = <<>>)
  BY <1>1 DEF HandlerInv, HandlerTypeOK, AnswerIsTruthful
<1>3. HandlerTypeOK'
  BY <1>1, <1>2 DEF HandlerTypeOK
<1>4. ASSUME answer' = 200
      PROVE  /\ rejected + Len(Kept[Len(request.spans)]) = Len(request.spans)
             /\ inserted = Kept[Len(request.spans)]
  <2> DEFINE N == Len(request.spans)
  <2>1. PICK n \in 0..N : MappedUpTo(n)
    BY <1>1, <1>4 DEF HandlerInv
  <2>2. N \in Nat /\ rejected \in Nat
    BY <1>2, KeptSteps DEF HandlerTypeOK
  <2>3. decoded = <<>> /\ mapped = <<>> /\ Len(decoded) = 0 /\ Len(mapped) = 0 /\ Len(inserted) = 0
        /\ DOMAIN mapped = {}
    <3>1. decoded = <<>> /\ mapped = <<>> /\ inserted = <<>>
      BY <1>1, <1>2, <1>4
    <3>2. Len(<<>>) = 0 /\ DOMAIN <<>> = {}
      OBVIOUS
    <3> QED
      BY <3>1, <3>2
  <2>4. Len(decoded) = N - n /\ rejected + Len(mapped) = n
        /\ RowsOf(mapped) = Kept[n]
    BY <2>1, <2>3 DEF MappedUpTo
  <2> HIDE DEF N
  <2>5. n = N /\ rejected = N
    BY <2>2, <2>3, <2>4
  <2>6. inserted = Kept[N]
    BY <1>2, <2>3, <2>4, <2>5, NoRows
  <2>7. rejected + Len(Kept[N]) = N
    BY <2>2, <2>3, <2>5, <2>6
  <2> QED
    BY <2>6, <2>7 DEF N
<1>5. AnswerIsTruthful'
  <2>1. Kept' = Kept /\ Len(request'.spans) = Len(request.spans)
    BY <1>1, KeptStays
  <2> QED
    BY <1>1, <1>2, <1>4, <2>1 DEF AnswerIsTruthful
<1> QED
  BY <1>1, <1>2, <1>3, <1>5 DEF HandlerInv

\* One INSERT takes what is mapped, when all of it can be stored.
LEMMA IngestKeeps == ASSUME HandlerInv, Ingest PROVE HandlerInv'
<1>1. /\ step = "mapping" /\ decoded = <<>> /\ step' = "answered" /\ answer' = 200
      /\ \A k \in DOMAIN mapped : ~Unstorable(mapped[k])
      /\ inserted' = RowsOf(mapped)
      /\ UNCHANGED <<request, decoded, mapped, rejected, stored>>
  BY DEF Ingest, Respond, RowsOf
<1>2. HandlerTypeOK /\ stored = <<>> /\ request \in Requests
  BY <1>1 DEF HandlerInv, HandlerTypeOK, AnswerIsTruthful
<1> DEFINE N == Len(request.spans)
<1>3. PICK n \in 0..N : MappedUpTo(n)
  BY <1>1 DEF HandlerInv
<1>4. N \in Nat /\ \A k \in 0..N : Kept[k] \in Seq(Row)
  BY <1>2, KeptSteps
<1>5. Len(decoded) = N - n /\ rejected + Len(mapped) = n /\ RowsOf(mapped) = Kept[n]
  BY <1>1, <1>3 DEF MappedUpTo
<1>6. Len(decoded) = 0 /\ Len(mapped) \in Nat /\ rejected \in Nat
  BY <1>1, <1>2 DEF HandlerTypeOK
<1> HIDE DEF N
<1>7. n = N
  BY <1>4, <1>5, <1>6
<1>8. inserted' = Kept[N] /\ Kept[N] \in Seq(Row)
  BY <1>1, <1>4, <1>5, <1>7
<1>9. Len(Kept[N]) = Len(mapped)
  <2>1. DOMAIN RowsOf(mapped) = DOMAIN mapped /\ mapped \in Seq(DecodedSpan)
    BY <1>2 DEF RowsOf, HandlerTypeOK
  <2>2. DOMAIN Kept[N] = 1..Len(mapped)
    BY <1>5, <1>7, <2>1
  <2> DEFINE K == Kept[N]
  <2>3. K \in Seq(Row) /\ DOMAIN K = 1..Len(mapped)
    BY <1>8, <2>2
  <2> HIDE DEF K
  <2>4. Len(K) = Len(mapped)
    BY <1>6, <2>3
  <2> QED
    BY <2>4 DEF K
<1>10. HandlerTypeOK'
  BY <1>1, <1>2, <1>8 DEF HandlerTypeOK
<1>11. AnswerIsTruthful'
  <2>1. Kept' = Kept /\ Len(request'.spans) = N
    BY <1>1, KeptStays DEF N
  <2>2. rejected' + Len(Kept[N]) = N
    BY <1>1, <1>5, <1>7, <1>9
  <2> QED
    BY <1>1, <1>2, <1>8, <2>1, <2>2 DEF AnswerIsTruthful
<1> QED
  BY <1>1, <1>10, <1>11 DEF HandlerInv

\* The transaction ends after the answer: its rows are stored, or forgotten.
LEMMA EndKeepsHandler == ASSUME HandlerInv, Commit \/ CommitFails PROVE HandlerInv'
<1>1. /\ step = "answered" /\ inserted # <<>> /\ inserted' = <<>>
      /\ UNCHANGED <<request, decoded, mapped, rejected, answer>>
      /\ \/ step' = "committed" /\ stored' = stored \o inserted
         \/ step' = "undone" /\ stored' = stored
  BY DEF Commit, CommitFails, Ends
<1>2. HandlerTypeOK /\ stored = <<>> /\ request \in Requests /\ inserted \in Seq(Row)
  BY <1>1 DEF HandlerInv, HandlerTypeOK, AnswerIsTruthful
<1>3. /\ answer = 200 /\ inserted = Kept[Len(request.spans)]
      /\ rejected + Len(Kept[Len(request.spans)]) = Len(request.spans)
  BY <1>1 DEF HandlerInv, AnswerIsTruthful
<1>4. stored \o inserted = inserted
  BY <1>2
<1>5. HandlerTypeOK'
  BY <1>1, <1>2, <1>4 DEF HandlerTypeOK
<1>6. AnswerIsTruthful'
  <2>1. Kept' = Kept
    BY <1>1, KeptStays
  <2> QED
    BY <1>1, <1>2, <1>3, <1>4, <2>1 DEF AnswerIsTruthful
<1> QED
  BY <1>1, <1>5, <1>6 DEF HandlerInv

\* Every step of the handler keeps its invariant.
LEMMA HandlerStep == HandlerInv /\ [HandlerNext]_handler => HandlerInv'
<1> SUFFICES ASSUME HandlerInv, [HandlerNext]_handler PROVE HandlerInv'
  OBVIOUS
<1>1. CASE UNCHANGED handler
  <2>1. UNCHANGED <<request, step, decoded, mapped, rejected, answer, inserted, stored>>
    BY <1>1 DEF handler, database
  <2> QED
    BY <2>1, KeptStays DEF HandlerInv, HandlerTypeOK, MappedUpTo, AnswerIsTruthful
<1>2. CASE Receive
  BY <1>2 DEF Receive, HandlerInv, HandlerTypeOK, AnswerIsTruthful, database
<1>3. CASE Charge
  <2>1. /\ step = "decoded" /\ step' \in {"mapping", "answered"} /\ (step' = "answered" => answer' = 429)
        /\ UNCHANGED <<request, decoded, mapped, rejected, inserted, stored>> /\ inserted = <<>>
    BY <1>3 DEF Charge, Respond, database, HandlerInv
  <2>2. HandlerTypeOK'
    BY <2>1 DEF HandlerInv, HandlerTypeOK
  <2>3. step' # "answered" => \E n \in 0..Len(request'.spans) : MappedUpTo(n)'
    BY <2>1, KeptStays DEF HandlerInv, MappedUpTo
  <2> QED
    BY <2>1, <2>2, <2>3 DEF HandlerInv, AnswerIsTruthful
<1>4. CASE RefuseBody \/ RefuseIds \/ AnswerEmpty \/ RefuseBatch \/ AnswerNothingMapped \/ IngestFails
  BY <1>4, AnswerKeeps
<1> QED
  BY <1>1, <1>2, <1>3, <1>4, DecodeKeeps, MapKeeps, IngestKeeps, EndKeepsHandler DEF HandlerNext

-----------------------------------------------------------------------------
(* The order of children.                                                  *)

\* The ids are linked in the order of the dict, and children stand in it.
SortedInv ==
    /\ pc = "link" =>
          /\ Len(todo) <= Len(order)
          /\ \A k \in 1..Len(todo) : todo[k] = order[Len(order) - Len(todo) + k]
    /\ \A i \in Ids : InOrder(children[i], order)

\* No children are in any order.
LEMMA NoneInOrder == \A s : InOrder(<<>>, s)
<1>1. DOMAIN <<>> = {}
  OBVIOUS
<1> QED
  BY <1>1, NoneInside DEF InOrder

\* The head of todo follows, in the order of the dict, whatever is not in todo.
LEMMA HeadIsNext ==
    ASSUME TreeInv, SortedInv, Linking
    PROVE  /\ pc = "link" /\ pc' = "link" /\ order' = order
           /\ Len(todo') <= Len(order) /\ \A k \in 1..Len(todo') : todo'[k] = order[Len(order) - Len(todo') + k]
           /\ \A i \in Known \ ToSet(todo) :
                 \E j, k \in DOMAIN order : j < k /\ order[j] = i /\ order[k] = Head(todo)
           /\ Head(todo) \in Known
<1>1. /\ pc = "link" /\ pc' = "link" /\ order' = order /\ todo # <<>> /\ todo' = Tail(todo)
      /\ Head(todo) \in Known
  BY LinkingEffect
<1>2. todo \in Seq(Ids) /\ order \in Seq(Ids)
  BY DEF TreeInv, TreeTypeOK
<1> DEFINE h == Head(todo)
           N == Len(order)
           m == Len(todo)
<1>3. /\ m \in Nat \ {0} /\ h = todo[1] /\ N \in Nat /\ DOMAIN order = 1..N /\ DOMAIN todo = 1..m
      /\ Len(todo') = m - 1
      /\ \A k \in 1..(m - 1) : k + 1 \in 1..m /\ todo'[k] = todo[k + 1]
  <2>1. /\ Len(todo) \in Nat \ {0} /\ Head(todo) = todo[1]
        /\ Len(Tail(todo)) = Len(todo) - 1 /\ DOMAIN Tail(todo) = 1..(Len(todo) - 1)
        /\ \A k \in DOMAIN Tail(todo) : k + 1 \in DOMAIN todo /\ Tail(todo)[k] = todo[k + 1]
    BY <1>1, <1>2, TailFacts
  <2>2. DOMAIN todo = 1..Len(todo) /\ Len(order) \in Nat /\ DOMAIN order = 1..Len(order)
    BY <1>2
  <2> QED
    BY <1>1, <2>1, <2>2
<1>4. m <= N /\ \A k \in 1..m : todo[k] = order[N - m + k]
  BY <1>1 DEF SortedInv
<1> HIDE DEF h, N, m
<1>5. m - 1 <= N
  BY <1>3, <1>4
<1>6. ASSUME NEW k \in 1..(m - 1) PROVE todo'[k] = order[N - (m - 1) + k]
  <2>1. N - m + (k + 1) = N - (m - 1) + k
    BY <1>3
  <2>2. todo[k + 1] = order[N - m + (k + 1)]
    BY <1>3, <1>4, <1>6
  <2> QED
    BY <1>3, <1>6, <2>1, <2>2
<1>7. N - m + 1 \in 1..N /\ h = order[N - m + 1]
  <2>1. 1 \in 1..m /\ N - m + 1 \in 1..N
    BY <1>3, <1>4
  <2> QED
    BY <1>3, <1>4, <2>1
<1>8. ASSUME NEW i \in Known \ ToSet(todo)
      PROVE  \E j, k \in DOMAIN order : j < k /\ order[j] = i /\ order[k] = h
  <2>1. PICK j \in 1..N : order[j] = i
    BY <1>3, <1>8 DEF Known, ToSet
  <2>2. CASE j < N - m + 1
    BY <1>3, <1>7, <2>1, <2>2
  <2>3. CASE ~(j < N - m + 1)
    <3>1. j - (N - m) \in 1..m /\ N - m + (j - (N - m)) = j
      BY <1>3, <1>4, <2>3
    <3>2. todo[j - (N - m)] = i
      BY <1>4, <2>1, <3>1
    <3> QED
      BY <1>3, <1>8, <3>1, <3>2 DEF ToSet
  <2> QED
    BY <2>2, <2>3
<1> QED
  BY <1>1, <1>3, <1>5, <1>6, <1>8 DEF h, N, m

\* A child comes after the children that its parent has.
LEMMA SortedChild == ASSUME TreeInv, SortedInv, LinkChild PROVE SortedInv'
<1> DEFINE h == Head(todo)
           p == parent[h]
           c == children[p]
<1>1. /\ Linking /\ children' = [children EXCEPT ![p] = Append(children[p], h)]
  BY DEF LinkChild
<1>2. /\ pc = "link" /\ pc' = "link" /\ order' = order
      /\ Len(todo') <= Len(order) /\ \A k \in 1..Len(todo') : todo'[k] = order[Len(order) - Len(todo') + k]
      /\ \A i \in Known \ ToSet(todo) :
            \E j, k \in DOMAIN order : j < k /\ order[j] = i /\ order[k] = h
      /\ h \in Known
  BY <1>1, HeadIsNext
<1>3. TreeTypeOK /\ LinkInv /\ Known \subseteq Ids
  BY KnownAreIds DEF TreeInv
<1>4. p \in Ids
  BY <1>3 DEF LinkChild, Misplaced
<1> HIDE DEF h, p
<1>5. c \in Seq(Ids) /\ InOrder(c, order) /\ ToSet(c) \subseteq Known \ ToSet(todo)
  <2>1. Placed = Known \ ToSet(todo)
    BY <1>2, <1>3 DEF LinkInv, Linked
  <2> QED
    BY <1>3, <1>4, <2>1 DEF SortedInv, TreeTypeOK, Placed
<1> HIDE DEF c
<1> DEFINE q == Append(c, h)
<1>6. /\ DOMAIN c = 1..Len(c) /\ Len(c) \in Nat /\ DOMAIN q = 1..(Len(c) + 1)
      /\ \A k \in 1..Len(c) : q[k] = c[k]
      /\ q[Len(c) + 1] = h /\ ToSet(q) = ToSet(c) \cup {h}
  <2>1. h \in Ids
    BY <1>2, <1>3
  <2> QED
    BY <1>5, <2>1, AppendFacts
<1> HIDE DEF q
<1>7. InOrder(q, order)
  <2>1. ToSet(q) \subseteq ToSet(order)
    BY <1>2, <1>5, <1>6 DEF Known
  <2>2. ASSUME NEW a \in DOMAIN q, NEW b \in DOMAIN q, a < b
        PROVE  \E j, k \in DOMAIN order : j < k /\ order[j] = q[a] /\ order[k] = q[b]
    <3>1. a \in 1..Len(c) /\ q[a] = c[a]
      BY <1>6, <2>2
    <3>2. CASE b \in 1..Len(c)
      BY <1>5, <1>6, <2>2, <3>1, <3>2 DEF InOrder
    <3>3. CASE b = Len(c) + 1
      <4>1. c[a] \in Known \ ToSet(todo)
        BY <1>5, <1>6, <3>1 DEF ToSet
      <4> QED
        BY <1>2, <1>6, <3>1, <3>3, <4>1
    <3> QED
      BY <1>6, <3>2, <3>3
  <2> QED
    BY <2>1, <2>2 DEF InOrder
<1>8. children'[p] = q /\ \A i \in Ids \ {p} : children'[i] = children[i]
  BY <1>1, <1>3, <1>4 DEF TreeTypeOK, q, c
<1>9. \A i \in Ids : InOrder(children'[i], order')
  BY <1>2, <1>7, <1>8 DEF SortedInv
<1> QED
  BY <1>2, <1>9 DEF SortedInv

\* Nothing else adds children.
LEMMA SortedStep == TreeInv /\ SortedInv /\ [Next]_vars => SortedInv'
<1> SUFFICES ASSUME TreeInv, SortedInv, [Next]_vars PROVE SortedInv'
  OBVIOUS
<1>1. CASE UNCHANGED vars
  BY <1>1 DEF SortedInv, vars, input, tree
<1>2. CASE Collect
  <2>1. children' = [i \in Ids |-> <<>>] /\ pc' = "collect"
    BY <1>2 DEF Collect, tree, TreeInv, PhaseInv, Linked, LinkBlank
  <2> QED
    BY <2>1, NoneInOrder DEF SortedInv
<1>3. CASE StartWalks \/ SkipStart \/ BeginWalk \/ Follow \/ CloseCycle \/ LeaveChain
           \/ StartBounding \/ Descend \/ Return
  <2>1. pc' # "link" /\ order' = order /\ children' = children
    BY <1>3 DEF StartWalks, SkipStart, BeginWalk, Follow, CloseCycle, LeaveChain, EndWalk,
                StartBounding, Descend, Return, input, tree
  <2> QED
    BY <2>1 DEF SortedInv
<1>4. CASE StartLinks
  <2>1. pc' = "link" /\ todo' = order /\ order' = order /\ children' = children
    BY <1>4 DEF StartLinks, input, tree
  <2>2. Len(order) \in Nat
    BY DEF TreeInv, TreeTypeOK
  <2>3. \A k \in 1..Len(order) : Len(order) - Len(order) + k = k
    BY <2>2
  <2> QED
    BY <2>1, <2>2, <2>3 DEF SortedInv
<1>5. CASE LinkRoot \/ LinkOrphan
  <2>1. Linking /\ children' = children
    BY <1>5 DEF LinkRoot, LinkOrphan
  <2> QED
    BY <2>1, HeadIsNext DEF SortedInv
<1>6. CASE LinkChild
  BY <1>6, SortedChild
<1>7. CASE Detach
  <2>1. /\ pc' = "bound" /\ order' = order
        /\ children' = [children EXCEPT ![Head(queue).node] = <<>>]
    BY <1>7 DEF Detach, input
  <2>2. \A i \in Ids : children'[i] = children[i] \/ children'[i] = <<>>
    BY <2>1 DEF TreeInv, TreeTypeOK
  <2> QED
    BY <2>1, <2>2, NoneInOrder DEF SortedInv
<1> QED
  BY <1>1, <1>2, <1>3, <1>4, <1>5, <1>6, <1>7 DEF Next

-----------------------------------------------------------------------------
(* TracePath: the tree and the truth it was read from.                     *)

\* The rows of a source: ids of their own, one root at most, and parents that
\* began before them, some of which may be absent.
Forest(s) ==
    \A j, k \in DOMAIN s : j <= k =>
        /\ s[j].parent # s[k].id
        /\ j # k => s[j].id # s[k].id /\ (s[j].parent # None \/ s[k].parent # None)

\* What is collected so far is the truth, in its order.
MirrorInv == truth # Nothing =>
    /\ pc \notin Sources /\ truth \in Seq(Row) /\ Forest(truth)
    /\ Len(order) + Len(rows) = Len(truth)
    /\ \A k \in 1..Len(order) : order[k] = truth[k].id /\ parent[order[k]] = truth[k].parent
    /\ \A k \in 1..Len(rows) : rows[k] = truth[Len(order) + k]
    /\ pc # "collect" => rows = <<>>

\* A collected row is the next one of the truth.
LEMMA MirrorCollect == ASSUME TreeInv, MirrorInv, Collect, truth' = truth PROVE MirrorInv'
<1> SUFFICES ASSUME truth # Nothing PROVE MirrorInv'
  BY DEF MirrorInv
<1>1. /\ truth \in Seq(Row) /\ Forest(truth)
      /\ Len(order) + Len(rows) = Len(truth)
      /\ \A k \in 1..Len(order) : order[k] = truth[k].id /\ parent[order[k]] = truth[k].parent
      /\ \A k \in 1..Len(rows) : rows[k] = truth[Len(order) + k]
  BY DEF MirrorInv
<1>2. rows \in Seq(Row) /\ order \in Seq(Ids) /\ parent \in [Ids -> Ids \cup {None}]
  BY DEF TreeInv, TreeTypeOK
<1>3. pc = "collect" /\ pc' = "collect" /\ rows # <<>> /\ rows' = Tail(rows)
  BY DEF Collect
<1> DEFINE n == Len(order)
           m == Len(rows)
           row == Head(rows)
<1>4. /\ n \in Nat /\ m \in Nat \ {0} /\ DOMAIN order = 1..n /\ row = rows[1] /\ row \in Row
      /\ Len(rows') = m - 1 /\ \A k \in 1..(m - 1) : k + 1 \in 1..m /\ rows'[k] = rows[k + 1]
      /\ DOMAIN truth = 1..(n + m)
  <2>1. /\ Len(rows) \in Nat \ {0} /\ Head(rows) = rows[1] /\ Head(rows) \in Row
        /\ Len(Tail(rows)) = Len(rows) - 1 /\ DOMAIN Tail(rows) = 1..(Len(rows) - 1)
        /\ \A k \in DOMAIN Tail(rows) : k + 1 \in DOMAIN rows /\ Tail(rows)[k] = rows[k + 1]
    BY <1>2, <1>3, TailFacts
  <2>2. /\ DOMAIN rows = 1..Len(rows) /\ Len(order) \in Nat /\ DOMAIN order = 1..Len(order)
        /\ DOMAIN truth = 1..Len(truth)
    BY <1>1, <1>2
  <2> QED
    BY <1>1, <1>3, <2>1, <2>2
<1>5. n + 1 \in DOMAIN truth /\ row = truth[n + 1] /\ row.id \in Ids /\ row.parent \in Ids \cup {None}
  <2>1. 1 \in 1..m /\ n + 1 \in 1..(n + m)
    BY <1>4
  <2> QED
    BY <1>1, <1>4, <2>1 DEF Row
<1>6. \A k \in 1..n : k \in DOMAIN truth /\ truth[k].id # row.id
  <2> SUFFICES ASSUME NEW k \in 1..n PROVE k \in DOMAIN truth /\ truth[k].id # row.id
    OBVIOUS
  <2>1. k \in DOMAIN truth /\ k <= n + 1 /\ k # n + 1
    BY <1>4
  <2>2. truth[k].id # truth[n + 1].id
    <3> DEFINE l == n + 1
    <3>1. l \in DOMAIN truth /\ k <= l /\ k # l
      BY <1>5, <2>1
    <3> HIDE DEF l
    <3>2. truth[k].id # truth[l].id
      BY <1>1, <2>1, <3>1 DEF Forest
    <3> QED
      BY <3>2 DEF l
  <2> QED
    BY <1>5, <2>1, <2>2
<1>7. row.id \notin Known
  BY <1>1, <1>4, <1>6 DEF Known, ToSet
<1>8. order' = Append(order, row.id) /\ parent' = [parent EXCEPT ![row.id] = row.parent] /\ pc' = "collect"
  BY <1>3, <1>7 DEF Collect
<1> HIDE DEF row
<1>9. /\ Len(order') = n + 1 /\ \A k \in 1..n : order'[k] = order[k]
      /\ order'[n + 1] = row.id
  BY <1>2, <1>5, <1>8
<1> HIDE DEF n, m
<1>10. parent'[row.id] = row.parent /\ \A i \in Ids \ {row.id} : parent'[i] = parent[i]
  BY <1>2, <1>5, <1>8
<1>11. ASSUME NEW k \in 1..(n + 1)
       PROVE  order'[k] = truth[k].id /\ parent'[order'[k]] = truth[k].parent
  <2>1. CASE k = n + 1
    BY <1>5, <1>9, <1>10, <2>1
  <2>2. CASE k # n + 1
    <3>1. k \in 1..n
      BY <1>4, <2>2
    <3>2. order[k] \in Ids
      BY <1>2, <1>4, <3>1
    <3> QED
      BY <1>1, <1>6, <1>9, <1>10, <3>1, <3>2 DEF n
  <2> QED
    BY <2>1, <2>2
<1>12. (n + 1) + (m - 1) = Len(truth)
  <2>1. n \in Nat /\ m \in Nat /\ n + m = Len(truth)
    BY <1>1, <1>4 DEF n, m
  <2>2. (n + 1) + (m - 1) = n + m
    BY <2>1
  <2> QED
    BY <2>1, <2>2
<1>13. ASSUME NEW k \in 1..(m - 1) PROVE rows'[k] = truth[(n + 1) + k]
  <2>1. n + (k + 1) = (n + 1) + k
    BY <1>4
  <2>2. rows[k + 1] = truth[n + (k + 1)]
    BY <1>1, <1>4, <1>13 DEF n, m
  <2> QED
    BY <1>4, <1>13, <2>1, <2>2
<1> QED
  BY <1>1, <1>4, <1>8, <1>9, <1>11, <1>12, <1>13 DEF MirrorInv, Sources

\* Nothing else collects.
LEMMA MirrorStep == TreeInv /\ MirrorInv /\ [Next]_vars /\ truth' = truth => MirrorInv'
<1> SUFFICES ASSUME TreeInv, MirrorInv, [Next]_vars, truth' = truth PROVE MirrorInv'
  OBVIOUS
<1>1. CASE UNCHANGED vars
  BY <1>1 DEF MirrorInv, vars, input
<1>2. CASE Collect
  BY <1>2, MirrorCollect
<1>3. CASE StartWalks \/ SkipStart \/ BeginWalk \/ Follow \/ CloseCycle \/ LeaveChain
  <2>1. UNCHANGED <<rows, order, parent>> /\ pc' \notin Sources /\ (pc # "collect" \/ rows = <<>>)
        /\ pc' # "collect"
    BY <1>3 DEF StartWalks, SkipStart, BeginWalk, Follow, CloseCycle, LeaveChain, EndWalk, input, Sources
  <2> QED
    BY <2>1 DEF MirrorInv
<1>4. CASE StartLinks \/ LinkRoot \/ LinkOrphan \/ LinkChild \/ StartBounding \/ Descend \/ Detach \/ Return
  <2>1. UNCHANGED <<rows, order, parent>> /\ pc' \notin Sources /\ pc # "collect" /\ pc' # "collect"
    BY <1>4 DEF StartLinks, LinkRoot, LinkOrphan, LinkChild, Linking, StartBounding, Descend, Detach, Return, input, Sources
  <2> QED
    BY <2>1 DEF MirrorInv
<1> QED
  BY <1>1, <1>2, <1>3, <1>4 DEF Next

-----------------------------------------------------------------------------

\* Once it is returned, the tree is the forest of the truth.
LEMMA TreesMirror == TreeInv /\ SortedInv /\ MirrorInv => TreeMirrorsProgram
<1> SUFFICES ASSUME TreeInv, SortedInv, MirrorInv, pc = "returned", truth # Nothing
             PROVE  TreeMirrorsProgram
  BY DEF TreeMirrorsProgram
<1> DEFINE began == [k \in DOMAIN truth |-> truth[k].id]
           up == [i \in ToSet(began) |-> truth[CHOOSE k \in DOMAIN truth : truth[k].id = i].parent]
           deepest == IF MaxDepth \in DOMAIN Level THEN Level[MaxDepth] ELSE {}
<1>1. /\ PhaseInv /\ TreeTypeOK /\ TodoInv /\ WalkInv /\ StillToWalk /\ LinkInv /\ Known \subseteq Ids
      /\ visited = Known /\ Placed = Known
  BY KnownAreIds, NoneInside DEF TreeInv, PhaseInv, LinkInv, StillToWalk, Linked, Bounding
<1>2. /\ truth \in Seq(Row) /\ Forest(truth) /\ rows = <<>> /\ Len(order) = Len(truth)
      /\ DOMAIN truth = 1..Len(truth) /\ DOMAIN order = 1..Len(truth) /\ order \in Seq(Ids)
      /\ \A k \in DOMAIN truth : order[k] = truth[k].id /\ parent[order[k]] = truth[k].parent
  <2>1. /\ truth \in Seq(Row) /\ Forest(truth) /\ rows = <<>> /\ Len(order) + Len(rows) = Len(truth)
        /\ \A k \in 1..Len(order) : order[k] = truth[k].id /\ parent[order[k]] = truth[k].parent
    BY DEF MirrorInv
  <2>2. order \in Seq(Ids) /\ Len(order) \in Nat /\ DOMAIN order = 1..Len(order) /\ DOMAIN truth = 1..Len(truth)
        /\ Len(<<>>) = 0
    BY <1>1, <2>1 DEF TreeTypeOK
  <2>3. Len(order) = Len(truth)
    BY <2>1, <2>2
  <2> QED
    BY <2>1, <2>2, <2>3
<1>3. began = order
  <2>1. order = [k \in 1..Len(truth) |-> order[k]]
    BY <1>2
  <2> QED
    BY <1>2, <2>1
<1> HIDE DEF began
<1>4. ToSet(began) = Known
  BY <1>3 DEF Known
<1>5. \A i \in Known : \E k \in DOMAIN truth : order[k] = i /\ truth[k].id = i /\ parent[i] = truth[k].parent
  BY <1>2 DEF Known, ToSet
<1>6. \A i \in Known : up[i] = parent[i]
  <2> SUFFICES ASSUME NEW i \in Known PROVE up[i] = parent[i]
    OBVIOUS
  <2>1. PICK k \in DOMAIN truth : k = CHOOSE j \in DOMAIN truth : truth[j].id = i
    BY <1>5
  <2>2. truth[k].id = i
    BY <1>5, <2>1
  <2>3. up[i] = truth[k].parent
    BY <1>4, <2>1
  <2> QED
    BY <1>2, <2>2, <2>3
<1> HIDE DEF up
\* No two ids known are roots, and no parent is later than its child.
<1>7. \A i, j \in Known : parent[i] = None /\ parent[j] = None => i = j
  <2> SUFFICES ASSUME NEW i \in Known, NEW j \in Known, parent[i] = None, parent[j] = None PROVE i = j
    OBVIOUS
  <2>1. PICK k \in DOMAIN truth : truth[k].id = i /\ truth[k].parent = None
    BY <1>5
  <2>2. PICK l \in DOMAIN truth : truth[l].id = j /\ truth[l].parent = None
    BY <1>5
  <2>3. k = l
    <3>1. k \in Nat /\ l \in Nat
      BY <1>2
    <3>2. k <= l \/ l <= k
      BY <3>1
    <3> QED
      BY <1>2, <2>1, <2>2, <3>2 DEF Forest
  <2> QED
    BY <2>1, <2>2, <2>3
<1>8. cyclic = {}
  <2> DEFINE B == {k \in DOMAIN truth : order[k] \in cyclic}
  <2>1. cyclic \subseteq Known /\ \A i \in cyclic : parent[i] \in cyclic
    BY <1>1 DEF WalkInv
  <2>2. B = {}
    <3> SUFFICES ASSUME B # {} PROVE FALSE
      OBVIOUS
    <3>1. PICK k \in B : \A l \in B : k <= l
      <4>1. B \subseteq Nat
        BY <1>2
      <4> HIDE DEF B
      <4> QED
        BY <4>1, LeastNat
    <3>2. k \in DOMAIN truth /\ order[k] \in cyclic
      BY <3>1
    <3>3. truth[k].parent \in cyclic
      BY <1>2, <2>1, <3>2
    <3>4. PICK l \in DOMAIN truth : order[l] = truth[k].parent /\ truth[l].id = truth[k].parent
      BY <1>5, <2>1, <3>3
    <3>5. k <= l
      BY <3>1, <3>3, <3>4
    <3> QED
      BY <1>2, <3>2, <3>4, <3>5 DEF Forest
  <2> QED
    BY <1>5, <2>1, <2>2
<1>9. PICK dep \in [Ids -> 0..MaxDepth] :
              /\ Depths(dep)
              /\ \A i \in Ids : dep[i] <= Total
              /\ DOMAIN Level = 1..Total
              /\ \A d \in 1..Total : Level[d] = {i \in Ids : dep[i] = d}
  BY ReturnedDepths
<1>10. deepest = {i \in Ids : dep[i] = MaxDepth}
  <2>1. CASE MaxDepth \in DOMAIN Level
    BY <1>9, <2>1
  <2>2. CASE MaxDepth \notin DOMAIN Level
    <3>1. ~(MaxDepth <= Total)
      BY <1>9, <2>2, TotalIsNat, SpanTreeAssumption
    <3> QED
      BY <1>9, <2>2, <3>1
  <2> QED
    BY <2>1, <2>2
<1> HIDE DEF deepest
<1>12. \A i \in deepest : i \in Ids /\ ToSet(children[i]) = {}
  <2> SUFFICES ASSUME NEW i \in deepest, NEW j \in ToSet(children[i]) PROVE FALSE
    BY <1>10
  <2>1. i \in Ids /\ dep[i] = MaxDepth /\ j \in Ids
    BY <1>1, <1>10 DEF TreeTypeOK, ToSet
  <2>2. i \notin InQueue
    <3>1. queue = <<>>
      BY <1>1 DEF PhaseInv
    <3>2. DOMAIN queue = {}
      BY <3>1
    <3> QED
      BY <3>2 DEF InQueue
  <2>3. dep[j] = MaxDepth + 1
    BY <1>9, <2>1, <2>2, SpanTreeAssumption DEF Depths
  <2>4. dep[j] \in 0..MaxDepth
    BY <2>1
  <2> QED
    BY <2>3, <2>4, SpanTreeAssumption
<1>13. ASSUME NEW i \in ToSet(orphans)
       PROVE  i \in Known /\ parent[i] # None /\ parent[i] \notin Known \ deepest
  <2>1. i \in Known
    BY <1>1, TreeTops DEF Placed
  <2>2. Cut(i) \/ (parent[i] \in Ids /\ dep[parent[i]] = MaxDepth)
    BY <1>9 DEF Depths
  <2>3. ~(parent[i] = None /\ root # None)
    BY <1>1, <1>7, <2>1 DEF LinkInv
  <2> QED
    BY <1>8, <1>10, <2>1, <2>2, <2>3, SpanIdsAssumption DEF Cut
<1>14. root # None => root \in Known /\ parent[root] = None
  BY <1>1 DEF LinkInv
<1>15. \A p \in Ids : \A i \in ToSet(children[p]) : i \in Known /\ parent[i] = p /\ p \in Known /\ p # None
  BY <1>1, SpanIdsAssumption, InsideFacts, PlacedInside DEF LinkInv
<1>16. \A i \in Known : i = root \/ i \in ToSet(orphans) \/ (\E p \in Ids : i \in ToSet(children[p]))
  BY <1>1, TreeTops, InsideFacts, PlacedInside
<1>17. Known = ToSet(began)
  BY <1>4
<1>18. {i \in Known : up[i] = None} = {root} \ {None}
  <2>1. ASSUME NEW i \in Known, up[i] = None PROVE i = root /\ i # None
    BY <1>1, <1>6, <1>13, <1>15, <1>16, <2>1, SpanIdsAssumption
  <2> QED
    BY <1>6, <1>14, <2>1
<1>19. ASSUME NEW i \in Known
       PROVE  /\ InOrder(children[i], began)
              /\ ToSet(children[i]) = IF i \in deepest THEN {} ELSE {j \in Known : up[j] = i}
              /\ i \in ToSet(orphans) <=> up[i] # None /\ up[i] \notin Known \ deepest
  <2>1. InOrder(children[i], began)
    BY <1>1, <1>3 DEF SortedInv
  <2>2. ASSUME i \notin deepest, NEW j \in Known, up[j] = i PROVE j \in ToSet(children[i])
    <3>1. parent[j] = i /\ i # None
      BY <1>1, <1>6, <2>2, SpanIdsAssumption
    <3>2. j # root /\ j \notin ToSet(orphans)
      BY <1>1, <1>13, <1>14, <1>19, <2>2, <3>1, SpanIdsAssumption
    <3> QED
      BY <1>15, <1>16, <3>1, <3>2
  <2>3. \A j \in ToSet(children[i]) : j \in Known /\ up[j] = i
    BY <1>1, <1>6, <1>15
  <2>4. ToSet(children[i]) = IF i \in deepest THEN {} ELSE {j \in Known : up[j] = i}
    <3>1. CASE i \in deepest
      BY <1>12, <3>1
    <3>2. CASE i \notin deepest
      BY <2>2, <2>3, <3>2
    <3> QED
      BY <3>1, <3>2
  <2>5. ASSUME up[i] # None, up[i] \notin Known \ deepest PROVE i \in ToSet(orphans)
    <3>1. parent[i] # None /\ (parent[i] \in Known => parent[i] \in deepest)
      BY <1>6, <2>5
    <3>2. i # root
      BY <1>1, <1>14, <3>1, SpanIdsAssumption
    <3>3. \A p \in Ids : i \notin ToSet(children[p])
      BY <1>12, <1>15, <3>1
    <3> QED
      BY <1>16, <3>2, <3>3
  <2>6. i \in ToSet(orphans) => up[i] # None /\ up[i] \notin Known \ deepest
    BY <1>6, <1>13
  <2> QED
    BY <2>1, <2>4, <2>5, <2>6
<1> QED
  BY <1>17, <1>18, <1>19 DEF TreeMirrorsProgram, began, up, deepest

-----------------------------------------------------------------------------
(* The parts that do not run.                                              *)

\* No id is drawn twice.
Injected == IsInjective(opened)

\* A part that does not run satisfies its invariant.
LEMMA NoProgramInv == NoProgram => ProgramInv /\ Injected
<1> SUFFICES ASSUME NoProgram PROVE ProgramInv /\ Injected
  OBVIOUS
<1>1. /\ opened = <<>> /\ submitted = {} /\ span = [s \in Ids |-> Unused]
      /\ encloser = [s \in Ids |-> None] /\ ctx = [c \in Contexts |-> Asleep]
  BY DEF NoProgram
<1>2. Unused \in SpanRow
  BY DEF Unused, SpanRow, Link
<1>3. \A c \in Contexts : ctx[c] = Asleep
  BY <1>1
<1>4. Drawn = {} /\ DOMAIN opened = {} /\ \A c \in Contexts : ToSet(ctx[c].blocks) = {}
  BY <1>1, <1>3, AsleepFacts DEF Drawn, ToSet
<1>5. ProgramTypeOK
  <2>1. ctx \in [Contexts -> ContextRow]
    BY <1>1, AsleepFacts
  <2> QED
    BY <1>1, <1>2, <2>1 DEF ProgramTypeOK, Link
<1>6. NoFutureSpan /\ ParentIsEncloser /\ OneRootPerTrace
  BY <1>3, <1>4, AsleepFacts DEF NoFutureSpan, ParentIsEncloser, OneRootPerTrace
<1>7. Discipline
  <2>1. \A c \in Contexts : /\ ctx[c].current = None /\ ctx[c].base = None
                            /\ ctx[c].blocks = <<>> /\ DOMAIN ctx[c].blocks = {}
    BY <1>3, AsleepFacts
  <2> QED
    BY <1>4, <2>1 DEF Discipline, Nested, Innermost
<1> QED
  BY <1>1, <1>5, <1>6, <1>7, NoneInside DEF ProgramInv, Injected

\* And one that stops does.
LEMMA NoProgramNext == NoProgram' => ProgramInv' /\ Injected'
BY NoProgramInv, PTL

\* The handler that stops is as it began.
LEMMA HandlerRestarts == HandlerInit' => HandlerInv'
BY HandlerStart, PTL

\* A span is drawn once.
LEMMA DrawnOnce == ProgramInv /\ Injected /\ [ProgramNext]_program => Injected'
<1> SUFFICES ASSUME ProgramInv, Injected, [ProgramNext]_program PROVE Injected'
  OBVIOUS
<1>1. ASSUME NEW c \in Contexts, NEW s \in Ids, NewSpan(c, s) PROVE Injected'
  <2>1. opened' = Append(opened, s) /\ s \notin ToSet(opened) /\ opened \in Seq(Ids)
    BY <1>1, NewSpanEffect DEF ProgramInv, ProgramTypeOK, Drawn
  <2> QED
    BY <2>1, InjectiveAppend DEF Injected
<1>2. ASSUME opened' = opened PROVE Injected'
  BY <1>2 DEF Injected
<1>3. ASSUME NEW c \in Contexts, NEW s \in Ids,
             Enter(c, s) \/ CallModel(c, s) \/ EnterSuspended(c, s)
      PROVE  Injected'
  BY <1>1, <1>3 DEF Enter, CallModel, EnterSuspended
<1>4. ASSUME NEW c \in Contexts, NEW s \in Ids, ExitSuspended(c, s) \/ ExitElsewhere(c, s)
      PROVE  Injected'
  BY <1>2, <1>4 DEF ExitSuspended, ExitElsewhere
<1>5. ASSUME NEW c \in Contexts, Exit(c) \/ Raise(c) \/ Catch(c) PROVE Injected'
  BY <1>2, <1>5 DEF Exit, Leave, Raise, Catch
<1>6. ASSUME NEW c \in Contexts, NEW d \in Contexts, CreateTask(c, d) \/ StartThread(c, d)
      PROVE  Injected'
  BY <1>2, <1>6 DEF CreateTask, StartThread
<1>7. CASE UNCHANGED program
  BY <1>2, <1>7 DEF program
<1> QED
  BY <1>3, <1>4, <1>5, <1>6, <1>7 DEF ProgramNext

-----------------------------------------------------------------------------
(* Reading.                                                                *)

\* build_tree before it has rows.
LEMMA AsleepTree ==
    ASSUME pc \in Sources, rows = <<>>, Blank
    PROVE  TreeInv
<1>1. PhaseInv
  BY DEF Blank, PhaseInv, WalkBlank, LinkBlank, Linked, Bounding, Sources
<1>2. TreeTypeOK
  BY DEF Blank, TreeTypeOK
<1>3. TodoInv
  BY NoneInside DEF Blank, TodoInv, Known
<1>4. WalkInv
  BY BlankWalk DEF Blank, WalkBlank
<1>5. PathInv /\ StillToWalk
  BY NoneInside DEF Blank, PathInv, StillToWalk, Known, Linked, Sources
<1>6. LinkInv /\ OrphanInv
  BY BlankLink DEF Blank, LinkBlank, Linked, Sources
<1> QED
  BY <1>1, <1>2, <1>3, <1>4, <1>5, <1>6 DEF TreeInv

\* The rows are read before anything is built.
LEMMA ReadingKeeps ==
    ASSUME TreeInv, pc \in Sources, pc' = "collect", rows' \in Seq(Row),
           UNCHANGED <<order, parent, todo, walk, tree, queue>>
    PROVE  TreeInv' /\ SortedInv' /\ order' = <<>>
<1>1. UNCHANGED <<order, parent, todo, visited, path, current, cyclic, root, children, orphans, queue>>
  BY DEF walk, tree
<1>2. /\ PhaseInv /\ TreeTypeOK
      /\ WalkBlank /\ LinkBlank /\ order = <<>> /\ todo = <<>> /\ queue = <<>>
  BY DEF TreeInv, PhaseInv, Linked, Bounding, Sources
<1>3. WalkBlank' /\ LinkBlank' /\ order' = <<>> /\ todo' = <<>> /\ queue' = <<>>
  BY <1>1, <1>2 DEF WalkBlank, LinkBlank
<1>4. PhaseInv'
  BY <1>3 DEF PhaseInv, Linked, Bounding
<1>5. TreeTypeOK'
  BY <1>1, <1>2 DEF TreeTypeOK
<1>6. TodoInv'
  BY <1>3, NoneInside DEF TodoInv, Known
<1>7. WalkInv'
  BY <1>3, BlankWalkNext
<1>8. PathInv' /\ StillToWalk'
  BY <1>3, NoneInside DEF WalkBlank, PathInv, StillToWalk, Known, Linked
<1>9. LinkInv' /\ OrphanInv'
  BY <1>3, BlankLinkNext DEF Linked
<1>10. SortedInv'
  BY <1>3, NoneInOrder DEF SortedInv, LinkBlank
<1> QED
  BY <1>3, <1>4, <1>5, <1>6, <1>7, <1>8, <1>9, <1>10 DEF TreeInv

\* The rows that a program's spans are read as: of one trace, which has one
\* root, in the order they were opened in.
LEMMA ProgramRows ==
    ASSUME ProgramInv, Injected,
           NEW there,
           DOMAIN there \subseteq Nat,
           InOrder(there, opened),
           \A j, k \in DOMAIN there : span[there[j]].trace = span[there[k]].trace,
           NEW s, DOMAIN s = DOMAIN there,
           \A k \in DOMAIN there : s[k] = [id |-> there[k], parent |-> span[there[k]].parent]
    PROVE  Forest(s) /\ \A k \in DOMAIN s : s[k] \in Row /\ encloser[s[k].id] = s[k].parent
<1>1. /\ opened \in Seq(Ids) /\ span \in [Ids -> SpanRow] /\ Drawn = ToSet(opened) /\ Drawn \subseteq Ids
      /\ DOMAIN opened = 1..Len(opened) /\ Len(opened) \in Nat
  BY DEF ProgramInv, ProgramTypeOK, Drawn, ToSet
<1>2. \A k \in DOMAIN there : there[k] \in Drawn
  BY <1>1 DEF InOrder, ToSet
<1>3. DOMAIN s = DOMAIN there /\ \A k \in DOMAIN there : s[k].id = there[k] /\ s[k].parent = span[there[k]].parent
  OBVIOUS
<1>4. \A k \in DOMAIN s : s[k] \in Row
  <2> SUFFICES ASSUME NEW k \in DOMAIN there PROVE s[k] \in Row
    BY <1>3
  <2>1. there[k] \in Ids /\ span[there[k]] \in SpanRow
    BY <1>1, <1>2
  <2>2. span[there[k]].parent \in Ids \cup {None}
    BY <2>1 DEF SpanRow, Link
  <2> QED
    BY <2>1, <2>2 DEF Row
<1>5. \A k \in DOMAIN s : encloser[s[k].id] = s[k].parent
  BY <1>2, <1>3 DEF ProgramInv, ParentIsEncloser
\* A parent has been opened before.
<1>6. ASSUME NEW i \in DOMAIN opened
      PROVE  /\ span[opened[i]].parent = None => span[opened[i]].trace = opened[i]
             /\ span[opened[i]].parent # None =>
                   \E c \in DOMAIN opened : c < i /\ opened[c] = span[opened[i]].parent
  <2>1. DOMAIN SubSeq(opened, 1, i - 1) = 1..(i - 1) /\ 1..(i - 1) \subseteq 1..Len(opened)
    BY <1>1
  <2>2. \A c \in 1..(i - 1) : SubSeq(opened, 1, i - 1)[c] = opened[c] /\ c < i
    BY <1>1
  <2>3. IF span[opened[i]].parent = None THEN span[opened[i]].trace = opened[i]
        ELSE span[opened[i]].parent \in ToSet(SubSeq(opened, 1, i - 1))
    BY DEF ProgramInv, OneRootPerTrace
  <2> QED
    BY <1>1, <2>1, <2>2, <2>3 DEF ToSet
<1>7. ASSUME NEW j \in DOMAIN there, NEW k \in DOMAIN there, j < k
      PROVE  \E a, b \in DOMAIN opened : a < b /\ opened[a] = there[j] /\ opened[b] = there[k]
  BY <1>7 DEF InOrder
<1>8. ASSUME NEW j \in DOMAIN s, NEW k \in DOMAIN s, j <= k
      PROVE  s[j].parent # s[k].id
  <2>1. PICK a \in DOMAIN opened, b \in DOMAIN opened :
             a <= b /\ opened[a] = there[j] /\ opened[b] = there[k]
    <3>1. CASE j = k
      <4>1. PICK a \in DOMAIN opened : opened[a] = there[j]
        BY <1>1, <1>2, <1>3 DEF ToSet
      <4>2. a <= a
        BY <1>1
      <4> QED
        BY <3>1, <4>1, <4>2
    <3>2. CASE j < k
      <4>1. PICK a \in DOMAIN opened, b \in DOMAIN opened :
                 a < b /\ opened[a] = there[j] /\ opened[b] = there[k]
        BY <1>3, <1>7, <3>2
      <4>2. a <= b
        BY <1>1, <4>1
      <4> QED
        BY <4>1, <4>2
    <3>3. j \in Nat /\ k \in Nat
      BY <1>3
    <3> QED
      BY <1>8, <3>1, <3>2, <3>3
  <2>2. s[j].parent = span[opened[a]].parent /\ s[k].id = opened[b] /\ opened[b] \in Ids
    BY <1>1, <1>3, <2>1
  <2>3. CASE s[j].parent = None
    BY <2>2, <2>3, SpanIdsAssumption
  <2>4. CASE s[j].parent # None
    <3>1. PICK c \in DOMAIN opened : c < a /\ opened[c] = s[j].parent
      BY <1>6, <2>2, <2>4
    <3>2. c # b
      BY <1>1, <2>1, <3>1
    <3> QED
      BY <2>2, <3>1, <3>2 DEF Injected, IsInjective
  <2> QED
    BY <2>3, <2>4
<1>9. ASSUME NEW j \in DOMAIN s, NEW k \in DOMAIN s, j <= k, j # k
      PROVE  s[j].id # s[k].id /\ (s[j].parent # None \/ s[k].parent # None)
  <2>1. j < k
    BY <1>3, <1>9
  <2>2. PICK a \in DOMAIN opened, b \in DOMAIN opened :
             a < b /\ opened[a] = there[j] /\ opened[b] = there[k]
    BY <1>3, <1>7, <2>1
  <2>3. a # b
    BY <1>1, <2>2
  <2>4. there[j] # there[k]
    BY <2>2, <2>3 DEF Injected, IsInjective
  <2>5. ~(s[j].parent = None /\ s[k].parent = None)
    BY <1>3, <1>6, <2>2, <2>4
  <2> QED
    BY <1>3, <2>4, <2>5
<1> QED
  BY <1>4, <1>5, <1>8, <1>9 DEF Forest

\* What is read from the program is its own.
LEMMA ReadProgramTells ==
    ASSUME ProgramInv, Injected, ReadProgram
    PROVE  rows' \in Seq(Row) /\ truth' = rows' /\ Forest(rows')
<1> DEFINE Those(t) == (SUBSET {s \in submitted : span[s].trace = t}) \ {{}}
           Told(there) ==
              /\ InOrder(there, opened)
              /\ Read([k \in DOMAIN there |-> [id |-> there[k], parent |-> span[there[k]].parent]],
                      encloser)
<1>a. PICK t : \E arrived \in Those(t) : \E there \in [1..Cardinality(arrived) -> arrived] : Told(there)
  BY Zenon DEF ReadProgram
<1>b. PICK arrived \in Those(t) : \E there \in [1..Cardinality(arrived) -> arrived] : Told(there)
  BY <1>a
<1>1. PICK there \in [1..Cardinality(arrived) -> arrived] : Told(there)
  BY <1>b
<1>c. PICK s : s = [k \in DOMAIN there |-> [id |-> there[k], parent |-> span[there[k]].parent]]
  OBVIOUS
<1>2. Cardinality(arrived) \in Nat /\ DOMAIN there \subseteq Nat
  <2>1. arrived \subseteq Ids
    BY DEF ProgramInv, ProgramTypeOK
  <2>2. IsFiniteSet(arrived)
    BY <2>1, SpanIdsAssumption, FS_Subset
  <2>3. Cardinality(arrived) \in Nat
    BY <2>2, FS_CardinalityType
  <2> QED
    BY <2>3
<1>3. \A j, k \in DOMAIN there : span[there[j]].trace = span[there[k]].trace
  OBVIOUS
<1>4. Forest(s) /\ \A k \in DOMAIN s : s[k] \in Row /\ encloser[s[k].id] = s[k].parent
  <2>1. InOrder(there, opened)
    BY <1>1
  <2>2. /\ DOMAIN s = DOMAIN there
        /\ \A k \in DOMAIN there : s[k] = [id |-> there[k], parent |-> span[there[k]].parent]
    BY <1>c
  <2> HIDE DEF Told
  <2> QED
    BY <1>2, <1>3, <2>1, <2>2, ProgramRows
<1>5. DOMAIN s = 1..Cardinality(arrived)
  BY <1>c
<1>6. rows' = s /\ truth' = [k \in DOMAIN s |-> [s[k] EXCEPT !.parent = encloser[s[k].id]]]
  BY <1>c, <1>1 DEF Read, InStartOrder
<1>7. s = [k \in DOMAIN s |-> s[k]]
  BY <1>c
<1>8. s \in Seq(Row)
  BY <1>2, <1>4, <1>5, <1>7
<1>9. \A k \in DOMAIN s : [s[k] EXCEPT !.parent = encloser[s[k].id]] = s[k]
  BY <1>4 DEF Row
<1>10. truth' = s
  BY <1>6, <1>7, <1>9
<1> QED
  BY <1>4, <1>6, <1>8, <1>10

-----------------------------------------------------------------------------
(* What exporters mean.                                                    *)

\* Exporters send ids of their own, one root at most, and parents that began
\* before their children. (An SDK's export is so; build_tree takes any rows.)
SoundRequests == \A r \in Requests : Sound(r.spans)

\* Where the rows kept come from: q's rows are of the spans that g names, in
\* their order, among the first n.
FromSpans(q, g, n) ==
    /\ g \in [DOMAIN q -> 1..n]
    /\ \A a \in DOMAIN q : q[a] = RequestRow(g[a])
    /\ \A a, b \in DOMAIN q : a < b => g[a] < g[b]

\* The rows kept, by the spans they are of.
LEMMA KeptComeFrom ==
    ASSUME request \in Requests
    PROVE  \A n \in 0..Len(request.spans) : \E g : FromSpans(Kept[n], g, n)
<1> DEFINE N == Len(request.spans)
           B == {n \in 0..N : ~ \E g : FromSpans(Kept[n], g, n)}
<1>1. N \in Nat
  BY KeptSteps
<1>2. SUFFICES ASSUME B # {} PROVE FALSE
  OBVIOUS
<1>3. PICK n \in B : \A m \in B : n <= m
  <2>1. B \subseteq Nat
    BY <1>1
  <2> HIDE DEF B
  <2> QED
    BY <1>2, <2>1, LeastNat
<1>4. /\ Kept[n] \in Seq(Row) /\ n \in 0..N
      /\ Kept[n] = IF n = 0 THEN <<>>
                   ELSE IF Usable(request.spans[n]) THEN Append(Kept[n - 1], RequestRow(n))
                   ELSE Kept[n - 1]
  BY <1>3, KeptSteps
<1>5. ~ \E g : FromSpans(Kept[n], g, n)
  BY <1>3
<1>6. n # 0
  <2>1. SUFFICES ASSUME n = 0 PROVE FALSE
    OBVIOUS
  <2>2. Kept[n] = <<>> /\ DOMAIN Kept[n] = {}
    BY <1>4, <2>1
  <2>3. FromSpans(Kept[n], [a \in {} |-> 0], n)
    BY <2>2 DEF FromSpans
  <2> QED
    BY <1>5, <2>3
<1>7. n \in 1..N /\ n - 1 \in 0..N /\ ~(n <= n - 1) /\ n \in Nat
  BY <1>1, <1>4, <1>6
<1>8. n - 1 \notin B
  <2> HIDE DEF B
  <2> QED
    BY <1>3, <1>7
<1>9. PICK g : FromSpans(Kept[n - 1], g, n - 1)
  BY <1>7, <1>8
<1>10. Kept[n - 1] \in Seq(Row)
  BY <1>7, KeptSteps
<1> HIDE DEF B, N
<1>11. PICK p : p = Kept[n - 1]
  OBVIOUS
<1>12. p \in Seq(Row) /\ FromSpans(p, g, n - 1) /\ DOMAIN p = 1..Len(p) /\ Len(p) \in Nat
  <2>1. p \in Seq(Row)
    BY <1>10, <1>11
  <2> QED
    BY <1>9, <1>11, <2>1
<1>13. CASE ~Usable(request.spans[n])
  <2>1. Kept[n] = p
    BY <1>4, <1>6, <1>11, <1>13
  <2>2. FromSpans(p, g, n)
    <3>1. \A k \in 1..(n - 1) : k \in 1..n
      BY <1>7
    <3> QED
      BY <1>12, <3>1 DEF FromSpans
  <2> QED
    BY <1>5, <2>1, <2>2
<1>14. CASE Usable(request.spans[n])
  <2>1. Kept[n] = Append(p, RequestRow(n))
    BY <1>4, <1>6, <1>11, <1>14
  <2>2. PICK q : q = Kept[n]
    OBVIOUS
  <2>3. q \in Seq(Row) /\ q = Append(p, RequestRow(n))
    BY <1>4, <2>1, <2>2
  <2>4. /\ DOMAIN q = 1..(Len(p) + 1) /\ q[Len(p) + 1] = RequestRow(n)
        /\ \A a \in 1..Len(p) : q[a] = p[a]
    BY <1>12, <2>3
  <2> DEFINE l == Len(p) + 1
             h == [a \in 1..l |-> IF a = l THEN n ELSE g[a]]
  <2>5. \A a \in 1..l : a = l \/ (a \in DOMAIN p /\ a < l)
    BY <1>12
  <2>6. \A a \in DOMAIN p : a \in 1..l /\ a # l /\ g[a] \in 1..(n - 1)
    BY <1>12 DEF FromSpans
  <2>7. \A k \in 1..(n - 1) : k \in 1..n /\ k < n
    BY <1>7
  <2>8. n \in 1..n
    BY <1>7
  <2>9. l \in Nat /\ DOMAIN q = 1..l /\ q[l] = RequestRow(n)
    BY <1>12, <2>4
  <2>10. \A a \in DOMAIN p : q[a] = RequestRow(g[a])
    BY <1>12, <2>4 DEF FromSpans
  <2>11. \A a, b \in DOMAIN p : a < b => g[a] < g[b]
    BY <1>12 DEF FromSpans
  <2> HIDE DEF l
  <2>12. h \in [DOMAIN q -> 1..n]
    BY <2>5, <2>6, <2>7, <2>8, <2>9
  <2>13. \A a \in DOMAIN q : q[a] = RequestRow(h[a])
    BY <2>5, <2>6, <2>9, <2>10
  <2>14. ASSUME NEW a \in DOMAIN q, NEW b \in DOMAIN q, a < b PROVE h[a] < h[b]
    <3>1. a \in 1..l /\ b \in 1..l /\ a # l
      BY <2>9, <2>14
    <3>2. a \in DOMAIN p /\ h[a] = g[a]
      BY <2>5, <3>1
    <3>3. CASE b = l
      BY <2>6, <2>7, <3>1, <3>2, <3>3
    <3>4. CASE b # l
      <4>1. b \in DOMAIN p /\ h[b] = g[b]
        BY <2>5, <3>1, <3>4
      <4> QED
        BY <2>11, <2>14, <3>2, <4>1
    <3> QED
      BY <3>3, <3>4
  <2>15. FromSpans(q, h, n)
    BY <2>12, <2>13, <2>14 DEF FromSpans
  <2> QED
    BY <1>5, <2>2, <2>15
<1> QED
  BY <1>13, <1>14

\* What a request of an exporter leaves behind is a forest of its own spans,
\* and each row names the parent that the exporter meant.
LEMMA ExportRows ==
    ASSUME request \in Requests, SoundRequests, NEW n \in 0..Len(request.spans)
    PROVE  Forest(Kept[n]) /\ \A a \in DOMAIN Kept[n] : Meant(Kept[n][a].id) = Kept[n][a].parent
<1> DEFINE N == Len(request.spans)
<1>1. PICK g : FromSpans(Kept[n], g, n)
  BY KeptComeFrom
<1>2. /\ N \in Nat /\ Kept[n] \in Seq(Row) /\ DOMAIN request.spans = 1..N
  <2>1. request.spans \in Seq(WireSpan)
    BY OtlpExportAssumption
  <2> QED
    BY <2>1, KeptSteps
<1>3. PICK q : q = Kept[n]
  OBVIOUS
<1>4. q \in Seq(Row) /\ FromSpans(q, g, n)
  BY <1>1, <1>2, <1>3
<1>5. PICK sp : sp = request.spans
  OBVIOUS
<1>6. DOMAIN sp = 1..N /\ Sound(sp)
  BY <1>2, <1>5 DEF SoundRequests
<1>7. \A a \in DOMAIN q : g[a] \in DOMAIN sp /\ g[a] \in Nat
  BY <1>2, <1>4, <1>6 DEF FromSpans
<1>8. \A a \in DOMAIN q : /\ q[a].id = sp[g[a]].id.id /\ q[a].parent = sp[g[a]].parent.id
                          /\ q[a].id \in Ids /\ q[a].parent \in Ids \cup {None}
  <2> SUFFICES ASSUME NEW a \in DOMAIN q
               PROVE  /\ q[a].id = sp[g[a]].id.id /\ q[a].parent = sp[g[a]].parent.id
                      /\ q[a].id \in Ids /\ q[a].parent \in Ids \cup {None}
    OBVIOUS
  <2>1. q[a] = [id |-> sp[g[a]].id.id, parent |-> sp[g[a]].parent.id]
    BY <1>4, <1>5 DEF FromSpans, RequestRow
  <2>2. q[a] \in Row
    BY <1>4
  <2>3. q[a].id \in Ids /\ q[a].parent \in Ids \cup {None}
    BY <2>2 DEF Row
  <2> QED
    BY <2>1, <2>3
<1>9. \A i \in Ids : i # None
  BY SpanIdsAssumption
<1>10. ASSUME NEW j \in DOMAIN q, NEW k \in DOMAIN q, j <= k
       PROVE  /\ q[j].parent # q[k].id
              /\ j # k => q[j].id # q[k].id /\ (q[j].parent # None \/ q[k].parent # None)
  <2>1. g[j] <= g[k] /\ (j # k => g[j] # g[k])
    <3>1. j \in Nat /\ k \in Nat
      BY <1>4
    <3>2. CASE j = k
      BY <1>7, <3>2
    <3>3. CASE j < k
      <4>1. g[j] < g[k]
        BY <1>4, <3>3 DEF FromSpans
      <4> QED
        BY <1>7, <4>1
    <3> QED
      BY <1>10, <3>1, <3>2, <3>3
  <2>2. /\ sp[g[j]].parent.id # None => sp[g[j]].parent.id # sp[g[k]].id.id
        /\ g[j] # g[k] => /\ sp[g[j]].id.id = None \/ sp[g[j]].id.id # sp[g[k]].id.id
                          /\ sp[g[j]].parent.id # None \/ sp[g[k]].parent.id # None
    BY <1>6, <1>7, <2>1 DEF Sound
  <2> QED
    BY <1>8, <1>9, <2>1, <2>2
<1>11. ASSUME NEW a \in DOMAIN q PROVE Meant(q[a].id) = q[a].parent
  <2>1. ASSUME NEW k \in DOMAIN sp, sp[k].id.id = q[a].id PROVE sp[k].parent.id = q[a].parent
    <3>1. k \in Nat /\ g[a] \in Nat /\ g[a] \in DOMAIN sp
      BY <1>6, <1>7
    <3>2. k <= g[a] \/ g[a] <= k
      BY <3>1
    <3>3. k = g[a]
      BY <1>6, <1>8, <1>9, <2>1, <3>1, <3>2 DEF Sound
    <3> QED
      BY <1>8, <3>3
  <2> DEFINE Says(p) == \E k \in DOMAIN sp : sp[k].id.id = q[a].id /\ sp[k].parent.id = p
  <2>2. Says(q[a].parent) /\ q[a].parent \in Ids \cup {None}
    BY <1>7, <1>8
  <2>3. \A p : Says(p) => p = q[a].parent
    BY <2>1
  <2>4. Meant(q[a].id) = CHOOSE p \in Ids \cup {None} : Says(p)
    BY <1>5, Zenon DEF Meant
  <2> HIDE DEF Says
  <2> QED
    BY <2>2, <2>3, <2>4
<1> QED
  BY <1>3, <1>10, <1>11 DEF Forest

\* What holds of every part, whichever of them runs.
TraceInv == TreeInv /\ SortedInv /\ ProgramInv /\ Injected /\ HandlerInv

\* Where nothing is linked, nothing is out of order.
LEMMA BlankIsSorted == Blank => SortedInv \/ pc = "link"
<1> SUFFICES ASSUME Blank, pc # "link" PROVE SortedInv
  OBVIOUS
<1> QED
  BY NoneInOrder DEF Blank, SortedInv

\* At first no span is drawn.
LEMMA DrawnAtStart == ProgramInit => Injected
BY NoneInside DEF ProgramInit, Injected

\* The composition begins with its invariant ...
LEMMA TraceStart == TraceInit => TraceInv /\ MirrorInv
<1> SUFFICES ASSUME TraceInit PROVE TraceInv /\ MirrorInv
  OBVIOUS
<1>1. HandlerInv /\ MirrorInv
  BY HandlerStart DEF TraceInit, MirrorInv
<1>2. CASE Init /\ NoProgram
  <2>1. SortedInv
    BY <1>2, BlankIsSorted DEF Init
  <2> QED
    BY <1>1, <1>2, <2>1, TreeStart, NoProgramInv DEF TraceInv
<1>3. CASE /\ pc \in Sources /\ rows = <<>> /\ Blank
           /\ IF pc = "program" THEN ProgramInit ELSE NoProgram
  <2>1. TreeInv /\ SortedInv
    BY <1>3, AsleepTree, BlankIsSorted DEF Sources
  <2>2. ProgramInv /\ Injected
    BY <1>3, ProgramStart, DrawnAtStart, NoProgramInv
  <2> QED
    BY <1>1, <2>1, <2>2 DEF TraceInv
<1> QED
  BY <1>2, <1>3 DEF TraceInit

\* Stuttering of each part.
LEMMA SortedStays == ASSUME TreeInv, SortedInv, UNCHANGED vars PROVE SortedInv'
BY SortedStep

\* Stuttering of the program.
LEMMA ProgramStays == ProgramInv /\ Injected /\ UNCHANGED program => ProgramInv' /\ Injected'
BY ProgramStep, DrawnOnce

\* Stuttering of the handler.
LEMMA HandlerStays == HandlerInv /\ UNCHANGED handler => HandlerInv'
BY HandlerStep

\* What is read from the store has been answered with 200, and committed.
LEMMA ReadExportTells ==
    ASSUME HandlerInv, ReadExport
    PROVE  /\ rows' \in Seq(Row)
           /\ SoundRequests => truth' = rows' /\ Forest(rows')
<1>1. /\ step = "committed" /\ stored # <<>> /\ stored \in Seq(Row) /\ request \in Requests
      /\ AnswerIsTruthful
  BY DEF ReadExport, HandlerInv, HandlerTypeOK
<1>2. stored = Kept[Len(request.spans)] /\ Len(request.spans) \in 0..Len(request.spans)
  BY <1>1, KeptSteps DEF AnswerIsTruthful
<1>3. /\ rows' = stored
      /\ truth' = [k \in DOMAIN stored |->
                      [stored[k] EXCEPT !.parent = [s \in {stored[l].id : l \in DOMAIN stored} |-> Meant(s)][stored[k].id]]]
  BY DEF ReadExport, Read, InStartOrder
<1>4. ASSUME SoundRequests PROVE truth' = stored /\ Forest(stored)
  <2>1. Forest(stored) /\ \A k \in DOMAIN stored : Meant(stored[k].id) = stored[k].parent
    BY <1>1, <1>2, <1>4, ExportRows
  <2>2. ASSUME NEW k \in DOMAIN stored
        PROVE  [stored[k] EXCEPT !.parent = [s \in {stored[l].id : l \in DOMAIN stored} |-> Meant(s)][stored[k].id]]
                   = stored[k]
    <3>1. stored[k] \in Row
      BY <1>1
    <3>2. [s \in {stored[l].id : l \in DOMAIN stored} |-> Meant(s)][stored[k].id] = stored[k].parent
      BY <2>1
    <3>3. [stored[k] EXCEPT !.parent = stored[k].parent] = stored[k]
      BY <3>1 DEF Row
    <3> QED
      BY <3>2, <3>3
  <2>3. stored = [k \in DOMAIN stored |-> stored[k]]
    BY <1>1
  <2> QED
    BY <1>3, <2>1, <2>2, <2>3
<1> QED
  BY <1>1, <1>3, <1>4

\* Rows just read are the truth, and none is collected.
LEMMA ReadingMirrors ==
    ASSUME rows' \in Seq(Row), truth' = rows', Forest(rows'), pc' = "collect", order' = <<>>
    PROVE  MirrorInv'
<1>1. pc' \notin Sources /\ Len(order') = 0 /\ Len(rows') \in Nat
  BY DEF Sources
<1>2. 0 + Len(rows') = Len(rows') /\ \A k \in 1..Len(rows') : 0 + k = k
  BY <1>1
<1>3. \A k \in 1..Len(rows') : rows'[k] = truth'[Len(order') + k]
  BY <1>1, <1>2
<1>4. 1..Len(order') = {}
  BY <1>1
<1> QED
  BY <1>1, <1>2, <1>3, <1>4 DEF MirrorInv

\* ... and each of its steps keeps it: those of one part leave the others
\* alone, and reading hands the rows of one to the other.
LEMMA TraceStep ==
    /\ TraceInv /\ [TraceNext]_all => TraceInv'
    /\ TraceInv /\ MirrorInv /\ SoundRequests /\ [TraceNext]_all => MirrorInv'
<1> SUFFICES ASSUME TraceInv, [TraceNext]_all
             PROVE  TraceInv' /\ (MirrorInv /\ SoundRequests => MirrorInv')
  OBVIOUS
<1> USE DEF TraceInv
<1>1. ASSUME UNCHANGED <<vars, truth>>
      PROVE  TreeInv' /\ SortedInv' /\ (MirrorInv => MirrorInv')
  BY <1>1, TreeStays, SortedStays, MirrorStep
<1>2. CASE UNCHANGED all
  BY <1>1, <1>2, ProgramStays, HandlerStays DEF all
<1>3. CASE RunProgram
  BY <1>1, <1>3, ProgramStep, DrawnOnce, HandlerStays DEF RunProgram
<1>4. CASE HandleExport
  BY <1>1, <1>4, HandlerStep, ProgramStays DEF HandleExport
<1>5. CASE BuildTree
  BY <1>5, TreeStep, SortedStep, MirrorStep, ProgramStays, HandlerStays DEF BuildTree
<1>6. CASE ReadProgram
  <2>1. /\ pc \in Sources /\ pc' = "collect" /\ UNCHANGED <<order, parent, todo, walk, tree, queue>>
        /\ NoProgram' /\ UNCHANGED handler
    BY <1>6 DEF ReadProgram, Read, NoProgram, Sources
  <2>2. rows' \in Seq(Row) /\ truth' = rows' /\ Forest(rows')
    BY <1>6, ReadProgramTells
  <2>3. TreeInv' /\ SortedInv' /\ order' = <<>>
    BY <2>1, <2>2, ReadingKeeps
  <2> QED
    BY <2>1, <2>2, <2>3, ReadingMirrors, NoProgramNext, HandlerStays
<1>7. CASE ReadExport
  <2>1. /\ pc \in Sources /\ pc' = "collect" /\ UNCHANGED <<order, parent, todo, walk, tree, queue>>
        /\ HandlerInit' /\ UNCHANGED program
    BY <1>7 DEF ReadExport, Read, HandlerInit, Sources
  <2>2. rows' \in Seq(Row) /\ (SoundRequests => truth' = rows' /\ Forest(rows'))
    BY <1>7, ReadExportTells
  <2>3. TreeInv' /\ SortedInv' /\ order' = <<>>
    BY <2>1, <2>2, ReadingKeeps
  <2> QED
    BY <2>1, <2>2, <2>3, ReadingMirrors, HandlerRestarts, ProgramStays
<1> QED
  BY <1>2, <1>3, <1>4, <1>5, <1>6, <1>7 DEF TraceNext

\* The invariants of the parts hold together, while the rows go from one to the
\* other: for all programs, requests and rows.
THEOREM TraceInvHolds == TraceSpec => []TraceInv
BY TraceStart, TraceStep, PTL DEF TraceSpec

\* build_tree drops no span and shows none twice, and all are met within the
\* depth that can be serialised: for any rows, and any depth.
THEOREM TreesAreWhole == TraceSpec => []EverySpanReturned
<1>1. TraceInv => EverySpanReturned
  BY SpansAreReturned DEF TraceInv
<1> QED
  BY <1>1, TraceInvHolds, PTL

\* A span is shown away from its parent only for a cycle, an absent parent, a
\* second root, or a parent at the greatest depth.
THEOREM LinksAreCutForAReason == TraceSpec => []OnlyBrokenLinksCut
<1>1. TraceInv => OnlyBrokenLinksCut
  BY LinksAreKept DEF TraceInv
<1> QED
  BY <1>1, TraceInvHolds, PTL

\* An answer of 200 accounts for every span of the request, as rejected or as a
\* row under the ids it meant; the commit that follows it stores those rows or
\* none of them, and nothing else is stored.
THEOREM AnswersAreTruthful == TraceSpec => []AnswerIsTruthful
<1>1. TraceInv => AnswerIsTruthful
  BY DEF TraceInv, HandlerInv
<1> QED
  BY <1>1, TraceInvHolds, PTL

\* The tree that is shown is the program's own, whatever of its spans arrived
\* and whenever it is read; and an exporter's own, where exporters send ids of
\* their own, one root at most, and parents that began before.
THEOREM TreesMirrorPrograms == ASSUME SoundRequests PROVE TraceSpec => []TreeMirrorsProgram
<1>1. TraceInv /\ MirrorInv => TreeMirrorsProgram
  BY TreesMirror DEF TraceInv
<1>2. TraceInv /\ MirrorInv /\ [TraceNext]_all => TraceInv' /\ MirrorInv'
  BY TraceStep
<1> QED
  BY <1>1, <1>2, TraceStart, PTL DEF TraceSpec
=============================================================================
