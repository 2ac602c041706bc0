------------------------------ MODULE SdkSpans -------------------------------
(***************************************************************************)
(* span(), @trace and instrument(): blocks of an instrumented program open *)
(* and close spans, and a ContextVar holds the span that the next one has  *)
(* for its parent. A context is an asyncio task or a thread. Blocks nest,  *)
(* tasks inherit, exceptions leave blocks one by one; and a block inside a *)
(* generator stays open while the code that iterates it goes on.           *)
(***************************************************************************)
EXTENDS Naturals, SequencesExt, SpanIds

CONSTANTS
    MaxSpans,  \* bound of the number of spans that a program opens
    Contexts,
    Main       \* the context that the program starts in

ASSUME SdkSpansAssumption == Main \in Contexts /\ MaxSpans \in Nat

VARIABLES
    ctx,       \* each context: the ContextVar's value and its open blocks
    opened,    \* the spans in the order of started_at
    span,      \* the Span object of each id
    calls,     \* the open blocks that are a vendor's create call
    submitted, \* the payloads handed to the client
    encloser   \* history: the innermost block that a span was opened in

program == <<ctx, opened, span, calls, submitted, encloser>>

Unused == [parent |-> None, trace |-> None, status |-> "ok", token |-> None, where |-> None]
Asleep == [live |-> FALSE, current |-> None, blocks |-> <<>>, base |-> None,
           raising |-> FALSE, leaked |-> FALSE]

ProgramInit ==
    /\ ctx = [c \in Contexts |-> [Asleep EXCEPT !.live = (c = Main)]]
    /\ opened = <<>>
    /\ span = [s \in Ids |-> Unused]
    /\ calls = {} /\ submitted = {}
    /\ encloser = [s \in Ids |-> None]

Drawn == ToSet(opened)
Running(c) == ctx[c].live /\ ~ctx[c].raising
Innermost(c) == IF ctx[c].blocks = <<>> THEN ctx[c].base ELSE Last(ctx[c].blocks)

-----------------------------------------------------------------------------
(* span(): the ContextVar is read for the parent, set to the new span, and *)
(* the token remembers what it held.                                       *)

\* Mutant: every span draws a trace id.
Trace_fresh(s, parent) == s

\* A span without a parent draws a trace id, the others are in their parent's.
Trace(s, parent) == IF parent = None THEN s ELSE span[parent].trace

NewSpan(c, s) ==
    /\ Running(c) /\ Innermost(c) \notin calls
    /\ s \notin Drawn /\ Len(opened) < MaxSpans
    /\ opened' = Append(opened, s)
    /\ span' = [span EXCEPT ![s] = [parent |-> ctx[c].current, trace |-> Trace(s, ctx[c].current),
                                    status |-> "ok", token |-> ctx[c].current, where |-> c]]
    /\ encloser' = [encloser EXCEPT ![s] = IF ctx[c].leaked THEN ctx[c].current
                                                            ELSE Innermost(c)]
    /\ UNCHANGED submitted

\* A with block, or a call of a function that @trace decorates.
Enter(c, s) ==
    /\ NewSpan(c, s)
    /\ ctx' = [ctx EXCEPT ![c].current = s, ![c].blocks = Append(@, s)]
    /\ UNCHANGED calls

\* create of an instrumented client: nothing of the program runs inside it.
CallModel(c, s) ==
    /\ NewSpan(c, s)
    /\ ctx' = [ctx EXCEPT ![c].current = s, ![c].blocks = Append(@, s)]
    /\ calls' = calls \cup {s}

\* The block's exit: reset, finish, submit; what it raises goes on from there.
Leave(c) ==
    LET s == Last(ctx[c].blocks) IN
    /\ ctx' = [ctx EXCEPT ![c].current = span[s].token, ![c].blocks = Front(@)]
    /\ span' = [span EXCEPT ![s].status = IF ctx[c].raising THEN "error" ELSE "ok"]
    /\ submitted' = submitted \cup {s}
    /\ calls' = calls \ {s}
    /\ UNCHANGED <<opened, encloser>>

\* Mutant: the reset is skipped when the body raises.
Exit_no_finally(c) ==
    /\ ctx[c].live /\ ctx[c].blocks # <<>>
    /\ LET s == Last(ctx[c].blocks) IN
       /\ ctx' = [ctx EXCEPT ![c].current = IF ctx[c].raising THEN @ ELSE span[s].token,
                             ![c].blocks = Front(@)]
       /\ span' = [span EXCEPT ![s].status = IF ctx[c].raising THEN "error" ELSE "ok"]
       /\ submitted' = submitted \cup {s}
       /\ calls' = calls \ {s}
       /\ UNCHANGED <<opened, encloser>>

\* A vendor's answer is recorded first; what the recorder raises is swallowed.
Exit(c) ==
    /\ ctx[c].live /\ ctx[c].blocks # <<>>
    /\ Leave(c)

Raise(c) ==
    /\ Running(c)
    /\ ctx' = [ctx EXCEPT ![c].raising = TRUE]
    /\ UNCHANGED <<opened, span, calls, submitted, encloser>>

\* The program catches what has left its inner blocks.
Catch(c) ==
    /\ ctx[c].raising /\ Innermost(c) \notin calls
    /\ ctx' = [ctx EXCEPT ![c].raising = FALSE]
    /\ UNCHANGED <<opened, span, calls, submitted, encloser>>

-----------------------------------------------------------------------------
(* Contexts.                                                               *)

\* Mutant: the variable is of the thread, and a task starts with nothing.
CreateTask_no_copy(c, d) ==
    /\ Running(c) /\ Innermost(c) \notin calls
    /\ ctx[d] = Asleep
    /\ ctx' = [ctx EXCEPT ![d] = [Asleep EXCEPT !.live = TRUE, !.base = Innermost(c)]]
    /\ UNCHANGED <<opened, span, calls, submitted, encloser>>

\* A task copies the context that creates it.
CreateTask(c, d) ==
    /\ Running(c) /\ Innermost(c) \notin calls
    /\ ctx[d] = Asleep
    /\ ctx' = [ctx EXCEPT ![d] = [Asleep EXCEPT !.live = TRUE, !.current = ctx[c].current,
                                                !.base = Innermost(c), !.leaked = ctx[c].leaked]]
    /\ UNCHANGED <<opened, span, calls, submitted, encloser>>

\* A thread starts with an empty one: its spans begin traces of their own.
StartThread(c, d) ==
    /\ Running(c)
    /\ ctx[d] = Asleep
    /\ ctx' = [ctx EXCEPT ![d].live = TRUE]
    /\ UNCHANGED <<opened, span, calls, submitted, encloser>>

-----------------------------------------------------------------------------
(* A with block inside a generator runs in the context of whoever iterates *)
(* it, and its exit need not come in the order of the caller's blocks.     *)

Suspended == {s \in Drawn : /\ s \notin submitted /\ span[s].status # "lost"
                            /\ s \notin ToSet(ctx[span[s].where].blocks)}

EnterSuspended(c, s) ==
    /\ NewSpan(c, s)
    /\ ctx' = [ctx EXCEPT ![c].current = s, ![c].leaked = TRUE]
    /\ UNCHANGED calls

\* Resumed in the context that it was entered in.
ExitSuspended(c, s) ==
    /\ Running(c) /\ s \in Suspended /\ span[s].where = c
    /\ ctx' = [ctx EXCEPT ![c].current = span[s].token]
    /\ submitted' = submitted \cup {s}
    /\ UNCHANGED <<opened, span, calls, encloser>>

\* In another one reset raises ValueError, before finish and submit.
ExitElsewhere(c, s) ==
    /\ Running(c) /\ s \in Suspended /\ span[s].where # c
    /\ ctx' = [ctx EXCEPT ![c].raising = TRUE]
    /\ span' = [span EXCEPT ![s].status = "lost"]
    /\ UNCHANGED <<opened, calls, submitted, encloser>>

ProgramNext ==
    \/ \E c \in Contexts :
          \/ \E s \in Ids : \/ Enter(c, s) \/ CallModel(c, s)
                            \/ EnterSuspended(c, s) \/ ExitSuspended(c, s) \/ ExitElsewhere(c, s)
          \/ Exit(c) \/ Raise(c) \/ Catch(c)
    \/ \E c, d \in Contexts : CreateTask(c, d) \/ StartThread(c, d)

ProgramSpec == ProgramInit /\ [][ProgramNext]_program
-----------------------------------------------------------------------------
(* Properties.                                                             *)

\* However tasks interleave and exceptions leave blocks, the parent that a span
\* records is the block that it was opened in. (An iterated generator breaks
\* this in its own context and in those created from it, for what comes after.)
ParentIsEncloser == \A s \in Drawn : span[s].parent = encloser[s]

\* Whatever a program does, generators included, a trace has one root, and
\* every other span names an earlier span of the same trace.
OneRootPerTrace ==
    \A i \in DOMAIN opened :
        LET s == opened[i] IN
        IF span[s].parent = None THEN span[s].trace = s
        ELSE /\ span[s].parent \in ToSet(SubSeq(opened, 1, i - 1))
             /\ span[span[s].parent].trace = span[s].trace
=============================================================================
