---------------------------- MODULE Calculations -----------------------------
(***************************************************************************)
(* The four calculations of the system that have no state: the comparison  *)
(* of two runs, the difference of two versions of a prompt, the retrieval  *)
(* scores of an item, and the mapping of a span's attributes. Each is      *)
(* called once, with any of a set of inputs.                               *)
(***************************************************************************)
EXTENDS RunComparison, PromptDiff, RetrievalMetrics, SpanMapping

CONSTANTS Comparisons, Diffs, Retrievals, Spans   \* the inputs

ASSUME CalculationsAssumption ==
    /\ \A c \in Comparisons : /\ IsRun(c.base) /\ IsRun(c.cand)
                              /\ c.align \in {"identity", "positional"}
    /\ \A d \in Diffs : IsPrompt(d.prompt)
    /\ \A r \in Retrievals : /\ IsListing(r.item.retrieved) /\ IsListing(r.item.expected)
                             /\ r.config \in [k : Nat, normalise : BOOLEAN]
    /\ \A s \in Spans : /\ s.order \in Seq(DOMAIN s.attributes)
                        /\ ToSet(s.order) = DOMAIN s.attributes

VARIABLES call, result

vars == <<call, result>>

Pending == [of |-> "nothing"]

Init ==
    /\ \/ \E c \in Comparisons : call = [of |-> "compare", in |-> c]
       \/ \E d \in Diffs : call = [of |-> "differ", in |-> d]
       \/ \E r \in Retrievals : call = [of |-> "retrieve", in |-> r]
       \/ \E s \in Spans : call = [of |-> "map", in |-> s]
    /\ result = Pending

Return(value) == result' = value /\ UNCHANGED call

\* GET /eval/compare: two runs, and how to align them.
RefuseComparison ==
    /\ call.of = "compare" /\ result = Pending
    /\ Refused(call.in.base, call.in.cand, call.in.align)
    /\ Return([of |-> "conflict"])

CompareRuns ==
    /\ call.of = "compare" /\ result = Pending
    /\ ~Refused(call.in.base, call.in.cand, call.in.align)
    /\ Return([of |-> "comparison", is |-> Compare(call.in.base, call.in.cand, call.in.align)])

\* GET .../diff: two references to versions of one prompt, or one that has none.
RefuseDiff ==
    /\ call.of = "differ" /\ result = Pending
    /\ \E ref \in {call.in.from, call.in.to} : ~Resolvable(call.in.prompt, ref)
    /\ Return([of |-> "not found"])

DiffVersions ==
    /\ call.of = "differ" /\ result = Pending
    /\ \A ref \in {call.in.from, call.in.to} : Resolvable(call.in.prompt, ref)
    /\ LET prompt == call.in.prompt
           from == resolve_version(prompt, call.in.from)
           to == resolve_version(prompt, call.in.to)
       IN  Return([of |-> "diff", from |-> from, to |-> to,
                   is |-> diff_versions(prompt.versions[from], prompt.versions[to])])

\* The three retrieval evaluators, on one item.
Measure ==
    /\ call.of = "retrieve" /\ result = Pending
    /\ Return([of |-> "scores", are |-> Scores3(call.in.item, call.in.config)])

\* One span of an OTLP request becomes a row, or is counted as rejected.
RejectSpan ==
    /\ call.of = "map" /\ result = Pending
    /\ RefusedBySchema(call.in)
    /\ Return([of |-> "rejected"])

MapSpan ==
    /\ call.of = "map" /\ result = Pending
    /\ ~RefusedBySchema(call.in)
    /\ Return([of |-> "row", is |-> to_span_ingest(call.in)])

Next == \/ RefuseComparison \/ CompareRuns \/ RefuseDiff \/ DiffVersions
        \/ Measure \/ RejectSpan \/ MapSpan

Spec == Init /\ [][Next]_vars

-----------------------------------------------------------------------------
\* A comparison takes no side: read from the candidate to the baseline it is the
\* same one, with every gain a loss; a run differs from itself in nothing; and a
\* mean that moves is accounted for by an example (comparison.py:120, :159, :235).
RunsComparedFairly ==
    result.of = "comparison" =>
        LET base == call.in.base cand == call.in.cand align == call.in.align
        IN  /\ Compare(cand, base, align) = Mirror(result.is)
            /\ Accounted(base, cand, result.is)
            /\ base = cand => \A k \in DOMAIN result.is.examples :
                                result.is.examples[k].change = "unchanged"

\* A diff leaves nothing out: both versions can be read back from it, and its other
\* direction is its reverse. It says that nothing has changed when a digest of the
\* content says so, and else only where a parameter changed its type and not its
\* value, as from 1 to true (diffing.py:99, :116, :141, templating.py:134). And it
\* is of the versions that were asked for, by a label as by a number, unless the
\* label is itself made of digits (prompts.py:206).
DiffTellsAll ==
    result.of = "diff" =>
        LET d == result.is
            prompt == call.in.prompt
            before == prompt.versions[result.from]
            after == prompt.versions[result.to]
            Alike == /\ before.messages = after.messages
                     /\ DOMAIN before.parameters = DOMAIN after.parameters
                     /\ \A k \in DOMAIN before.parameters :
                            Same(before.parameters[k], after.parameters[k])
        IN  /\ Old(d.messages) = before.messages /\ Old(d.parameters) = before.parameters
            /\ New(d.messages) = after.messages /\ New(d.parameters) = after.parameters
            /\ LET back == diff_versions(after, before) IN
                  /\ back.messages = Backwards(d.messages)
                  /\ back.parameters = Backwards(d.parameters)
                  /\ back.identical = d.identical
            /\ content_hash(before) = content_hash(after) => d.identical
            /\ d.identical <=> Alike
            /\ \A label \in DOMAIN prompt.labels \ DOMAIN Numeral :
                  /\ call.in.from = label => result.from = prompt.labels[label]
                  /\ call.in.to = label => result.to = prompt.labels[label]

\* What is compared is two runs of a dataset or two versions of a prompt: neither
\* comparison takes a side, leaves a difference out or finds one where there is none.
ComparisonIsFair == RunsComparedFairly /\ DiffTellsAll

\* The three scores of an item tell one story: they are fractions of one; there is
\* a hit for one of them when there is for each; a cut-off further down loses no
\* recall and no rank; and recall is whole just when nothing is listed as missed
\* (retrieval.py:75, :94, :105, :133, :157).
RetrievalScoresAgree ==
    result.of = "scores" =>
        LET s == result.are item == call.in.item config == call.in.config
            hit == s.precision # Unscoreable /\ s.precision.num > 0
        IN  /\ \A score \in Range(s) : score = Unscoreable \/ InRange(score)
            /\ hit <=> s.mrr # Unscoreable /\ s.mrr.num > 0
            /\ hit => s.recall # Unscoreable
            /\ s.recall # Unscoreable =>
                 /\ hit <=> s.recall.num > 0
                 /\ s.recall.num = s.recall.den <=> Missed(item, config) = {}
            /\ s.mrr # Unscoreable => \A k \in 0..Len(item.retrieved) :
                 LET further == Scores3(item, [config EXCEPT !.k = k])
                 IN  ReadsOn(config.k, k) =>
                        /\ s.recall # Unscoreable => AtMost(s.recall, further.recall)
                        /\ AtMost(s.mrr, further.mrr)

\* Of a span that is mapped, no attribute with a value is lost, or stored twice, but
\* where the code says so: it is in the metadata, or in the column that it is
\* promoted to unless a newer spelling or messages go before it or its column can
\* not hold it; what says the span's kind is read and not kept, the total of the
\* tokens is dropped, and gen_ai.prompt and gen_ai.completion are in both places
\* (genai.py:20, :253, :279). And but where it loses one against its own word: of
\* two keys of one field of a message the dictionary's last one stays (:202), and
\* what the metadata says of the span's origin is written over attributes of the
\* same name (:293-299).
NoAttributeLost ==
    result.of = "row" =>
        LET a == call.in.attributes row == result.is
            Column(k) == {f \in DOMAIN Facts : k \in ToSet(Facts[f])}
        IN  \A k \in DOMAIN a :
                a[k] \notin Unset =>
                    \/ /\ k \in DOMAIN row.metadata /\ row.metadata[k] = a[k]
                       /\ Column(k) = {} \/ k \in {Head(Input), Head(Output)}
                    \/ /\ k \notin DOMAIN row.metadata
                       /\ \E f \in Column(k) : \/ Holds(row, f, a[k])
                                               \/ Outranked(a, f, k)
                                               \/ Unreadable(f, a[k])
                    \/ k \in ToSet(Operation) \cup {"traceloop.span.kind",
                                                  "llm.usage.total_tokens"}
                    \/ /\ k \notin DOMAIN row.metadata
                       /\ InMessage(row, k, a[k]) \/ Overwritten(call.in, k)
                    \/ k \in DOMAIN Origin(call.in)
=============================================================================
