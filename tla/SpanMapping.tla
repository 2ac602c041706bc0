----------------------------- MODULE SpanMapping -----------------------------
(***************************************************************************)
(* to_span_ingest: the attributes of an OTLP span, under the names that    *)
(* one or another convention gives them, become the columns of a span, its *)
(* input and output, and its metadata. A value is a class of values; the   *)
(* attributes are a dictionary, whose order decides between messages.      *)
(***************************************************************************)
EXTENDS Integers, Sequences, SequencesExt

\* The spellings of a fact, the present convention's first.
Model == <<"gen_ai.response.model", "gen_ai.request.model",
           "llm.response.model", "llm.request.model">>
PromptTokens == <<"gen_ai.usage.input_tokens", "gen_ai.usage.prompt_tokens",
                  "llm.usage.prompt_tokens">>
CompletionTokens == <<"gen_ai.usage.output_tokens", "gen_ai.usage.completion_tokens",
                      "llm.usage.completion_tokens">>
Cost == <<"gen_ai.usage.cost", "gen_ai.usage.total_cost">>
Input == <<"gen_ai.prompt", "traceloop.entity.input">>
Output == <<"gen_ai.completion", "traceloop.entity.output">>
Operation == <<"gen_ai.operation.name", "llm.request.type">>
AnyModel == <<"gen_ai.system", "gen_ai.request.model", "gen_ai.response.model",
              "llm.request.model", "llm.response.model">>

\* _INDEXED_MESSAGE: the fields of a group's messages, each the set of the keys
\* that are read as it. Two namespaces are taken for one, and an index may have
\* leading zeros. Two fields of prompts and one of completions stand for all.
Messages == [input  |-> {{"gen_ai.prompt.0.content", "llm.prompt.0.content"},
                         {"gen_ai.prompt.1.content"}},
             output |-> {{"gen_ai.completion.0.content", "llm.completion.0.content",
                          "gen_ai.completion.00.content"}}]
MessageKeys == UNION (Messages.input \cup Messages.output)

Null == "null"
Unset == {Null, "empty"}
First(a, keys) ==
    LET set == {n \in DOMAIN keys : keys[n] \in DOMAIN a /\ a[keys[n]] \notin Unset}
    IN  IF set = {} THEN Null ELSE a[keys[Min(set)]]

\* Conversions: what a column can not hold becomes null. A flag is no number; a
\* cost may be negative, and Decimal reads "NaN".
AsInt(v) == IF v \in {"count", "numeral"} THEN v ELSE Null
AsDecimal(v) == IF v \in {"count", "numeral", "negative", "NaN"} THEN v ELSE Null
Text(v) == IF v \in Unset THEN Null ELSE v

KindOf == [workflow |-> "chain", agent |-> "chain", tool |-> "tool", llm |-> "llm"]
OperationKind == [chat |-> "llm", embeddings |-> "embedding", rerank |-> "rerank",
                  execute_tool |-> "tool"]
VectorStores == {"qdrant", "redis"}

At(a, key) == IF key \in DOMAIN a THEN a[key] ELSE Null

\* resolve_kind: the most explicit statement first, the position last.
Kind(a, isRoot) ==
    LET said == At(a, "traceloop.span.kind")
        operation == First(a, Operation)
    IN  CASE said \in DOMAIN KindOf -> KindOf[said]
          [] OTHER -> CASE operation \in DOMAIN OperationKind -> OperationKind[operation]
                        [] OTHER -> CASE At(a, "db.system") \in VectorStores -> "retrieval"
                                      [] OTHER -> IF First(a, AnyModel) # Null THEN "llm"
                                                  ELSE IF isRoot THEN "chain" ELSE "other"

\* _extract_messages: of the keys of one field, the dictionary's last one wins.
LastAmong(order, keys) == order[Max({n \in DOMAIN order : order[n] \in keys})]
Extracted(span, group) ==
    [field \in {f \in Messages[group] : f \cap DOMAIN span.attributes # {}} |->
        span.attributes[LastAmong(span.order, field)]]

\* _payload: messages go before the plain attributes.
Payload(span, group, keys) ==
    LET messages == Extracted(span, group)
    IN  [messages |-> messages,
         value |-> IF DOMAIN messages = {} THEN First(span.attributes, keys) ELSE Null]

\* Mutant: the name of the vendor is taken for a column.
Promoted_system ==
    ToSet(Model) \cup ToSet(PromptTokens) \cup ToSet(CompletionTokens) \cup ToSet(Cost)
    \cup ToSet(Operation)
    \cup {"gen_ai.system", "llm.usage.total_tokens", "traceloop.span.kind",
          "traceloop.entity.input", "traceloop.entity.output"}

\* _PROMOTED_KEYS.
Promoted ==
    ToSet(Model) \cup ToSet(PromptTokens) \cup ToSet(CompletionTokens) \cup ToSet(Cost)
    \cup ToSet(Operation)
    \cup {"llm.usage.total_tokens", "traceloop.span.kind",
          "traceloop.entity.input", "traceloop.entity.output"}

\* What _metadata says of the origin, over attributes of the same names.
Origin(span) ==
    [k \in {"otel.ingest"} \cup (IF span.resource = Null THEN {} ELSE {"resource"})
                           \cup (IF span.scope = Null THEN {} ELSE {"otel.scope"}) |->
        CASE k = "resource" -> span.resource [] k = "otel.scope" -> span.scope
          [] OTHER -> "otlp"]

Metadata(span) ==
    LET a == span.attributes origin == Origin(span)
    IN  [k \in (DOMAIN a \ (Promoted \cup MessageKeys)) \cup DOMAIN origin |->
            IF k \in DOMAIN origin THEN origin[k] ELSE a[k]]

\* The end of a span may lie before its start, or be missing: one of 0 is
\* decoded as none.
Duration(span) == IF span.elapsed = "forwards" THEN span.elapsed ELSE Null

\* The first exception event, else the message of an error status.
Status(code) == IF code = "error" THEN "error" ELSE "ok"
ErrorMessage(span) ==
    IF span.exception # Null THEN span.exception
    ELSE IF span.code = "error" THEN span.message ELSE Null

\* SpanIngest takes no cost that is not finite: the span is rejected.
RefusedBySchema(span) == AsDecimal(First(span.attributes, Cost)) = "NaN"

to_span_ingest(span) ==
    LET a == span.attributes
    IN  [kind              |-> Kind(a, span.isRoot),
         status            |-> Status(span.code),
         duration          |-> Duration(span),
         error_message     |-> ErrorMessage(span),
         model             |-> Text(First(a, Model)),
         prompt_tokens     |-> AsInt(First(a, PromptTokens)),
         completion_tokens |-> AsInt(First(a, CompletionTokens)),
         cost              |-> AsDecimal(First(a, Cost)),
         input             |-> Payload(span, "input", Input),
         output            |-> Payload(span, "output", Output),
         metadata          |-> Metadata(span)]

-----------------------------------------------------------------------------
(* What may become of an attribute.                                        *)

Facts == [model |-> Model, prompt_tokens |-> PromptTokens, cost |-> Cost,
          completion_tokens |-> CompletionTokens, input |-> Input, output |-> Output]

Holds(row, fact, value) ==
    IF fact \in DOMAIN Messages THEN row[fact].value = value ELSE row[fact] = value

\* What can not be read is no column, and a promoted key has no other place.
Unreadable(fact, value) ==
    \/ fact \in {"prompt_tokens", "completion_tokens"} /\ AsInt(value) = Null
    \/ fact = "cost" /\ AsDecimal(value) = Null

\* An older spelling gives way to a newer one, and both to messages.
Outranked(a, fact, key) ==
    \/ \E m, n \in DOMAIN Facts[fact] :
           m < n /\ Facts[fact][n] = key /\ At(a, Facts[fact][m]) \notin Unset
    \/ fact \in DOMAIN Messages /\ (UNION Messages[fact]) \cap DOMAIN a # {}

\* Another key of the same field of a message comes later in the dictionary.
Overwritten(span, key) ==
    \E m, n \in DOMAIN span.order :
        /\ m < n /\ span.order[m] = key /\ span.order[n] # key
        /\ \E group \in DOMAIN Messages : \E field \in Messages[group] :
              {key, span.order[n]} \subseteq field

InMessage(row, key, value) ==
    \E group \in DOMAIN Messages : \E field \in DOMAIN row[group].messages :
        key \in field /\ row[group].messages[field] = value
=============================================================================
