----------------------------- MODULE MCTracePath -----------------------------
(***************************************************************************)
(* The instance of TracePath that TLC checks. Span ids are interchangeable *)
(* in rows, programs and requests. Exporters' spans are Sound.             *)
(***************************************************************************)
EXTENDS TracePath, TLC

CONSTANT Spellings   \* the spellings that the exporters use

Symmetry == Permutations(Ids)

Spans == {s \in WireSpan : {s.id.form, s.parent.form} \cap Forms \subseteq Spellings}
Batches == UNION {{spans \in [1..n -> Spans] : Sound(spans)} : n \in 0..MaxBatch}
TooMany == [k \in 1..(MaxBatch + 1) |-> CHOOSE s \in Spans : s.id = Bad /\ s.content = "fine"]

MCRequests == {[body |-> b, spans |-> <<>>] : b \in Bodies}
              \cup {[body |-> b, spans |-> TooMany] : b \in {"protobuf"}}
              \cup {r \in {[body |-> b, spans |-> s] : b \in {"protobuf", "json"}, s \in Batches} :
                     r.body = "protobuf" =>
                        \A k \in DOMAIN r.spans : Odd \notin {r.spans[k].id, r.spans[k].parent}}
=============================================================================
