------------------------------ MODULE TracePath ------------------------------
(***************************************************************************)
(* The way of a trace from its spans to the tree that a reader is shown:   *)
(* an instrumented program (SdkSpans) or an OTLP exporter (OtlpExport)     *)
(* makes the rows, some of which may not arrive, and build_tree (SpanTree) *)
(* makes the tree. Rows that no program of ours would send are read, too.  *)
(***************************************************************************)
EXTENDS SpanTree, SdkSpans, OtlpExport

VARIABLES
    truth      \* the rows as their source knows them, once they are read

all == <<vars, program, handler, truth>>

Nothing == <<>>   \* not read yet, or rows of no known source
Sources == {"program", "export"}

\* The part that no longer runs holds nothing.
NoProgram ==
    /\ ctx = [c \in Contexts |-> Asleep] /\ opened = <<>> /\ span = [s \in Ids |-> Unused]
    /\ calls = {} /\ submitted = {} /\ encloser = [s \in Ids |-> None]

TraceInit ==
    \/ Init /\ NoProgram /\ HandlerInit /\ truth = Nothing
    \/ /\ pc \in Sources /\ rows = <<>> /\ Blank
       /\ IF pc = "program" THEN ProgramInit ELSE NoProgram
       /\ HandlerInit /\ truth = Nothing

RunProgram ==
    /\ pc = "program" /\ ProgramNext
    /\ UNCHANGED <<vars, handler, truth>>

HandleExport ==
    /\ pc = "export" /\ HandlerNext
    /\ UNCHANGED <<vars, program, truth>>

-----------------------------------------------------------------------------
(* get_trace: the rows of a trace as they are stored at that moment.       *)

\* Mutant: the rows come as the table has them.
InStartOrder_none(s) == Reverse(s)

\* order_by(started_at).
InStartOrder(s) == s

\* q lists some of s, in the order of s.
InOrder(q, s) ==
    /\ ToSet(q) \subseteq ToSet(s)
    /\ \A a, b \in DOMAIN q : a < b =>
          \E j, k \in DOMAIN s : j < k /\ s[j] = q[a] /\ s[k] = q[b]

Read(s, up) ==
    /\ rows' = InStartOrder(s)
    /\ pc' = "collect"
    /\ truth' = [k \in DOMAIN s |-> [s[k] EXCEPT !.parent = up[s[k].id]]]
    /\ UNCHANGED <<order, parent, todo, walk, tree, queue>>

\* While the program runs or after it: what is submitted may have been dropped,
\* and a span that is still open is not submitted.
ReadProgram ==
    /\ pc = "program"
    /\ \E t \in {span[s].trace : s \in submitted} :
       \E arrived \in (SUBSET {s \in submitted : span[s].trace = t}) \ {{}} :
       \E there \in [1..Cardinality(arrived) -> arrived] :
          /\ InOrder(there, opened)
          /\ Read([k \in DOMAIN there |-> [id |-> there[k], parent |-> span[there[k]].parent]],
                  encloser)
    /\ ctx' = [c \in Contexts |-> Asleep] /\ opened' = <<>> /\ span' = [s \in Ids |-> Unused]
    /\ calls' = {} /\ submitted' = {} /\ encloser' = [s \in Ids |-> None]
    /\ UNCHANGED handler

\* The spans of the request are of one trace, in the order of their start.
Meant(s) == CHOOSE p \in Ids \cup {None} :
                \E k \in DOMAIN request.spans :
                    request.spans[k].id.id = s /\ request.spans[k].parent.id = p

ReadExport ==
    /\ pc = "export" /\ step = "committed" /\ stored # <<>>
    /\ Read(stored, [s \in {stored[k].id : k \in DOMAIN stored} |-> Meant(s)])
    /\ request' = None /\ step' = "idle" /\ decoded' = <<>> /\ mapped' = <<>>
    /\ rejected' = 0 /\ answer' = 0 /\ inserted' = <<>> /\ stored' = <<>>
    /\ UNCHANGED program

BuildTree == Next /\ UNCHANGED <<program, handler, truth>>

TraceNext == RunProgram \/ HandleExport \/ ReadProgram \/ ReadExport \/ BuildTree

TraceSpec == TraceInit /\ [][TraceNext]_all
-----------------------------------------------------------------------------
(* Properties.                                                             *)

\* The tree that is shown is the program's (or the exporter's) own, less what
\* has not arrived: a span stands under the block that it was opened in, beside
\* the others of that block in the order they began in; the trace's first span
\* is the root; and only the spans of an absent block, or of one at the
\* greatest depth, are shown as subtrees of their own.
TreeMirrorsProgram ==
    pc = "returned" /\ truth # Nothing =>
        LET began == [k \in DOMAIN truth |-> truth[k].id]
            up == [i \in ToSet(began) |-> truth[CHOOSE k \in DOMAIN truth : truth[k].id = i].parent]
            deepest == IF MaxDepth \in DOMAIN Level THEN Level[MaxDepth] ELSE {}
        IN  /\ Known = ToSet(began)
            /\ {i \in Known : up[i] = None} = {root} \ {None}
            /\ \A i \in Known :
                  /\ InOrder(children[i], began)
                  /\ ToSet(children[i]) = IF i \in deepest THEN {} ELSE {j \in Known : up[j] = i}
                  /\ i \in ToSet(orphans) <=> up[i] # None /\ up[i] \notin Known \ deepest
=============================================================================
