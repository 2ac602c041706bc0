----------------------------- MODULE OtlpExport ------------------------------
(***************************************************************************)
(* export_traces: one OTLP request is read, decoded, charged to the rate   *)
(* limit, mapped span by span to the platform's schema, inserted in one    *)
(* statement and answered; db_session commits after the answer, or cannot. *)
(* Exporters spell the same id in several ways, and any one of their spans *)
(* may be of no use.                                                       *)
(***************************************************************************)
EXTENDS Naturals, SequencesExt, SpanIds

CONSTANTS
    Requests,  \* the requests that exporters send
    MaxBatch   \* MAX_SPANS_PER_BATCH

VARIABLES
    request,   \* the request under way, or None
    step,      \* where its handler stands
    decoded,   \* otlp_spans
    mapped,    \* the spans that are to be stored
    rejected,
    answer,    \* the status code
    inserted,  \* the rows of the request's transaction
    stored     \* the committed rows of the project, in the order of their start

database == <<inserted, stored>>
handler == <<request, step, decoded, mapped, rejected, answer, database>>

\* Ids on the wire. Hex is read whatever its case; bytes are those of protobuf.
Spelled(id, form) == [id |-> id, form |-> form]
Forms == {"lower", "upper", "base64", "bytes"}
Zeros == [id |-> None, form |-> "zeros"]   \* an explicit parent of a root
Absent == [id |-> None, form |-> "absent"]
Bad == [id |-> None, form |-> "bad"]       \* of no valid length, or no hex
Odd == [id |-> None, form |-> "odd"]       \* "0x..." or "a_b...": int() reads it

\* A span on the wire, and what a request may be.
WireIds == {Spelled(i, f) : i \in Ids, f \in Forms}
WireSpan == [id : WireIds \cup {Bad, Odd}, parent : WireIds \cup {Absent, Zeros, Bad, Odd},
             content : {"fine", "unmappable", "unstorable"}]
Bodies == {"protobuf", "json", "refused", "tripping"}

ASSUME OtlpExportAssumption ==
    \A r \in Requests : r \in [body : Bodies, spans : Seq(WireSpan)]

\* The spans of an exporter: ids of their own, one root at most, and parents
\* that began before them.
Sound(spans) ==
    \A j, k \in DOMAIN spans : j <= k =>
        /\ spans[j].parent.id # None => spans[j].parent.id # spans[k].id.id
        /\ j # k => /\ spans[j].id.id = None \/ spans[j].id.id # spans[k].id.id
                    /\ spans[j].parent.id # None \/ spans[k].parent.id # None

\* What SpanIngest refuses: an id that is none, or content (a cost of "NaN").
Unmappable(s) == s.id = None \/ s.broken \/ s.content = "unmappable"

HandlerInit ==
    /\ request = None /\ step = "idle" /\ decoded = <<>> /\ mapped = <<>>
    /\ rejected = 0 /\ answer = 0 /\ inserted = <<>> /\ stored = <<>>

Receive ==
    /\ step = "idle"
    /\ request' \in Requests
    /\ step' = "read"
    /\ UNCHANGED <<decoded, mapped, rejected, answer, database>>

Respond(code) == step' = "answered" /\ answer' = code

-----------------------------------------------------------------------------
(* Reading the body.                                                       *)

\* Too large, not gzip as announced, of another type, or not well-formed; or
\* JSON that the decoder trips over (a status code that is a name, bytes that
\* are not UTF-8), which nothing catches.
RefuseBody ==
    /\ step = "read" /\ request.body \in {"refused", "tripping"}
    /\ Respond(IF request.body = "refused" THEN 422 ELSE 500)
    /\ UNCHANGED <<request, decoded, mapped, rejected, database>>

\* Mutant: eight zero bytes are taken for the id of a parent.
Parent_zeros_literal(p) == IF p.form = "zeros" THEN "00000000" ELSE p.id

\* _optional_parent, after _normalise_id or bytes.hex.
Parent(p) == p.id

Decoded(s) == [id |-> s.id.id, parent |-> Parent(s.parent),
               broken |-> s.parent.form \in {"bad", "odd"}, content |-> s.content]

\* JSON ids are normalised here, and the first that is none fails the request,
\* an odd one only its span, later; protobuf's bytes are only converted.
HasBadId(spans) == \E k \in DOMAIN spans : "bad" \in {spans[k].id.form, spans[k].parent.form}

RefuseIds ==
    /\ step = "read" /\ request.body = "json" /\ HasBadId(request.spans)
    /\ Respond(422)
    /\ UNCHANGED <<request, decoded, mapped, rejected, database>>

Decode ==
    /\ step = "read"
    /\ \/ request.body = "protobuf"
       \/ request.body = "json" /\ ~HasBadId(request.spans)
    /\ decoded' = [k \in DOMAIN request.spans |-> Decoded(request.spans[k])]
    /\ step' = "decoded"
    /\ UNCHANGED <<request, mapped, rejected, answer, database>>

AnswerEmpty ==
    /\ step = "decoded" /\ decoded = <<>>
    /\ Respond(200)
    /\ UNCHANGED <<request, decoded, mapped, rejected, database>>

RefuseBatch ==
    /\ step = "decoded" /\ Len(decoded) > MaxBatch
    /\ Respond(422)
    /\ UNCHANGED <<request, decoded, mapped, rejected, database>>

\* check_rate_limit, with the number of spans as the cost.
Charge ==
    /\ step = "decoded" /\ decoded # <<>> /\ Len(decoded) <= MaxBatch
    /\ \/ step' = "mapping" /\ UNCHANGED answer
       \/ Respond(429)
    /\ UNCHANGED <<request, decoded, mapped, rejected, database>>

-----------------------------------------------------------------------------
(* Mapping and storing.                                                    *)

\* Mutant: what one span raises ends the loop.
Map_stops ==
    /\ step = "mapping" /\ decoded # <<>>
    /\ IF Unmappable(Head(decoded))
       THEN rejected' = rejected + 1 /\ decoded' = <<>> /\ UNCHANGED mapped
       ELSE /\ mapped' = Append(mapped, Head(decoded)) /\ decoded' = Tail(decoded)
            /\ UNCHANGED rejected
    /\ UNCHANGED <<request, step, answer, database>>

\* to_span_ingest, for one span after the other.
Map ==
    /\ step = "mapping" /\ decoded # <<>>
    /\ IF Unmappable(Head(decoded)) THEN rejected' = rejected + 1 /\ UNCHANGED mapped
       ELSE mapped' = Append(mapped, Head(decoded)) /\ UNCHANGED rejected
    /\ decoded' = Tail(decoded)
    /\ UNCHANGED <<request, step, answer, database>>

AnswerNothingMapped ==
    /\ step = "mapping" /\ decoded = <<>> /\ mapped = <<>>
    /\ Respond(200)
    /\ UNCHANGED <<request, decoded, mapped, rejected, database>>

\* What the schema lets through and the columns do not hold: a duration beyond
\* INTEGER (a span without a start is of 1970), a count beyond it, a NUL.
Unstorable(s) == s.content = "unstorable"

Ingest ==
    /\ step = "mapping" /\ decoded = <<>> /\ mapped # <<>>
    /\ \A k \in DOMAIN mapped : ~Unstorable(mapped[k])
    /\ inserted' = [k \in DOMAIN mapped |-> [id |-> mapped[k].id, parent |-> mapped[k].parent]]
    /\ Respond(200)
    /\ UNCHANGED <<request, decoded, mapped, rejected, stored>>

\* The one INSERT fails, and with it the request's transaction.
IngestFails ==
    /\ step = "mapping" /\ decoded = <<>> /\ mapped # <<>>
    /\ Respond(500)
    /\ UNCHANGED <<request, decoded, mapped, rejected, database>>

\* The end of db_session, which runs once the answer has been sent.
Ends(to) == step = "answered" /\ inserted # <<>> /\ step' = to /\ inserted' = <<>>

Commit ==
    /\ Ends("committed")
    /\ stored' = stored \o inserted
    /\ UNCHANGED <<request, decoded, mapped, rejected, answer>>

\* The commit fails, or the process dies before it.
CommitFails ==
    /\ Ends("undone")
    /\ UNCHANGED <<request, decoded, mapped, rejected, answer, stored>>

HandlerNext ==
    \/ Receive
    \/ RefuseBody \/ RefuseIds \/ Decode
    \/ AnswerEmpty \/ RefuseBatch \/ Charge
    \/ Map \/ AnswerNothingMapped \/ Ingest \/ IngestFails
    \/ Commit \/ CommitFails
-----------------------------------------------------------------------------
(* Properties.                                                             *)

Usable(s) == {"bad", "odd"} \cap {s.id.form, s.parent.form} = {} /\ s.content = "fine"

\* The rows that the first n spans of the request should become.
Kept ==
    LET kept[n \in 0..Len(request.spans)] ==
            IF n = 0 THEN <<>>
            ELSE IF Usable(request.spans[n])
                 THEN Append(kept[n - 1], [id |-> request.spans[n].id.id,
                                           parent |-> request.spans[n].parent.id])
                 ELSE kept[n - 1]
    IN  kept

\* The spans that an answer of 200 does not count as rejected are the rows of
\* its transaction, each under the id and the parent that it meant, however they
\* were spelled: the commit that follows the answer stores all of them, or, if
\* it fails, none, which the answer does not tell.  Nothing else is ever stored.
AnswerIsTruthful ==
    LET count == Len(request.spans)
    IN  /\ step \in {"answered", "committed", "undone"} /\ answer = 200 =>
               rejected + Len(Kept[count]) = count
        /\ step = "answered" => inserted = IF answer = 200 THEN Kept[count] ELSE <<>>
        /\ step = "committed" => answer = 200 /\ stored = Kept[count]
        /\ step # "committed" => stored = <<>>
=============================================================================
