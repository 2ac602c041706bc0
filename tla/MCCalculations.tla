--------------------------- MODULE MCCalculations ----------------------------
(* Inputs for the calculations, small enough to try all of them.     *)
EXTENDS Calculations

PinsOf(dataset, model) == [dataset |-> dataset, prompt |-> 1, rubric |-> 1, model |-> model]
Partial(D, R) == UNION {[S -> R] : S \in SUBSET D}

\* Two items and an evaluator; or one item and two evaluators, with trade-offs.
MCResults == Partial({1, 2}, Partial({"judge"}, {Gap, 0, 1, 3}))
             \cup Partial({1}, Partial({"judge", "regex"}, {Gap, 0, 2}))
BaseRuns == {[pins |-> PinsOf(1, 1), results |-> r, finished |-> TRUE] : r \in MCResults}
CandRuns == {[pins |-> p, results |-> r, finished |-> f] :
                p \in {PinsOf(1, 1), PinsOf(2, 2)}, r \in MCResults, f \in BOOLEAN}
MCComparisons ==
    {[base |-> b, cand |-> c, align |-> al] :
        b \in BaseRuns, c \in CandRuns, al \in {"identity", "positional"}}

\* Versions with two messages at most, and two parameters at most, that are called by
\* their number, by a label, or by a label that is a number.
MCNumeral == ("0" :> 0) @@ ("1" :> 1) @@ ("2" :> 2) @@ ("3" :> 3)
Texts == [role : {"system", "user"}, content : {"a", "b"}]
Settings == {[value |-> 1, type |-> "int"], [value |-> 1, type |-> "bool"],
             [value |-> 2, type |-> "int"]}
Version(m, p) == [messages |-> m, parameters |-> p]
Messaged == {Version(m, p) : m \in UNION {[1..n -> Texts] : n \in 0..2},
                             p \in Partial({"seed"}, Settings)}
Tuned == {Version(<<>>, p) : p \in Partial({"seed", "stream"}, Settings)}
PromptOf(v, w, labels) == [versions |-> <<v, w>>, labels |-> labels]
Both(V) == {[prompt |-> PromptOf(v, w, "live" :> 2), from |-> "1", to |-> "live"] : v, w \in V}
MCDiffs ==
    Both(Messaged) \cup Both(Tuned)
    \cup {[prompt |-> PromptOf(v, w, labels), from |-> from, to |-> to] :
             v \in {Version(<<>>, <<>>)}, w \in {Version(<<>>, p) : p \in Partial({"seed"}, Settings)},
             labels \in Partial({"live", "2", "3"}, {1, 2}),
             from, to \in DOMAIN MCNumeral \cup {"live", "next"}}

\* Documents of two names, each in two spellings, some retrieved twice.
Documents == [name : {"a", "b"}, spelling : {1, 2}]
Listings(n) == UNION {[1..m -> Documents] : m \in 0..n}
MCRetrievals ==
    {[item   |-> [retrieved |-> r, expected |-> e],
      config |-> [k |-> k, normalise |-> n]] :
        r \in Listings(3) \cup {Unscoreable}, e \in Listings(2) \cup {Unscoreable},
        k \in 0..3, n \in BOOLEAN}

\* Attributes that bear on one fact, with the values that it tells apart.
Values == {Null, "empty", "text", "count", "numeral", "negative", "flag", "NaN"}
Attributes ==
    Partial(ToSet(Model), {Null, "empty", "text", "count"})
    \cup Partial(ToSet(PromptTokens) \cup {"llm.usage.total_tokens"}, Values)
    \cup Partial(ToSet(CompletionTokens) \cup {"custom"}, Values \ {"text"})
    \cup Partial(ToSet(Cost) \cup {"custom"}, Values)
    \cup Partial(ToSet(Input) \cup UNION Messages.input, {Null, "empty", "text"})
    \cup Partial(ToSet(Output) \cup UNION Messages.output, {Null, "text", "count"})
    \cup Partial(ToSet(Operation) \cup {"traceloop.span.kind"},
                 {Null, "chat", "rerank", "agent", "text"})
    \cup Partial({"gen_ai.system", "db.system", "traceloop.span.kind"}, {"qdrant", "tool", "empty"})
    \cup Partial({"resource", "otel.scope", "otel.ingest", "custom"}, {Null, "text"})

\* Dictionaries in one order of the keys and in its reverse.
AllKeys == Model \o PromptTokens \o CompletionTokens \o Cost \o Input \o Output \o Operation
           \o <<"gen_ai.prompt.0.content", "llm.prompt.0.content", "gen_ai.prompt.1.content",
                "gen_ai.completion.0.content", "llm.completion.0.content",
                "gen_ai.completion.00.content">>
           \o <<"llm.usage.total_tokens", "traceloop.span.kind", "gen_ai.system", "db.system",
                "resource", "otel.scope", "otel.ingest", "custom">>
OrderOf(a, q) == SelectSeq(q, LAMBDA k : k \in DOMAIN a)

Plain == [code |-> "error", message |-> "text", exception |-> Null, elapsed |-> "forwards"]
MCSpans ==
    {[attributes |-> a, order |-> OrderOf(a, q), isRoot |-> from = Null,
      resource |-> from, scope |-> from] @@ Plain :
        a \in Attributes, q \in {AllKeys, Reverse(AllKeys)}, from \in {Null, "named"}}
    \cup [attributes : {[k \in {"custom"} |-> "text"]}, order : {<<"custom">>}, isRoot : BOOLEAN,
          resource : {Null, "named"}, scope : {Null, "named"},
          code : {"unset", "ok", "error"}, message : {Null, "text"},
          exception : {Null, "raised"}, elapsed : {Null, "backwards", "forwards"}]
=============================================================================
