-------------------------- MODULE RetrievalMetrics ---------------------------
(***************************************************************************)
(* precision@k, recall@k and the reciprocal rank of one dataset item: what *)
(* its retriever returned, in order and perhaps twice, against what it     *)
(* should have returned. A score is a fraction, or none.                   *)
(***************************************************************************)
EXTENDS Naturals, FiniteSets, SequencesExt

CONSTANT Unscoreable   \* UnscoreableError: a gap, not a score

ASSUME RetrievalMetricsAssumption == Unscoreable \notin [num : Nat, den : Nat]

IsListing(documents) == documents = Unscoreable \/ documents \in Seq(ToSet(documents))

\* A document is its id, or its text when it has none, in one of several
\* spellings (case and white space) that normalising makes equal.
Word(document, normalise) ==
    IF normalise THEN document.name ELSE <<document.name, document.spelling>>

Words(documents, normalise) == [n \in DOMAIN documents |-> Word(documents[n], normalise)]

\* The item lacks a list of what was retrieved, or what was expected.
Extractable(item) == item.retrieved # Unscoreable /\ item.expected # Unscoreable

\* Mutant: the first document is cut off with the others.
Retrieved_from_two(item, config) ==
    LET keys == Words(item.retrieved, config.normalise)
    IN  IF config.k = 0 \/ config.k >= Len(keys) THEN keys ELSE SubSeq(keys, 2, config.k + 1)

\* A cut-off of 0 stands for none.
Retrieved(item, config) ==
    LET keys == Words(item.retrieved, config.normalise)
    IN  IF config.k = 0 \/ config.k >= Len(keys) THEN keys ELSE SubSeq(keys, 1, config.k)

Relevant(item, config) == Words(item.expected, config.normalise)

\* The places of the words of one list that are in another.
Found(these, those) == {n \in DOMAIN these : these[n] \in ToSet(those)}
Hits(these, those) == Cardinality(Found(these, those))
Missed(item, config) == ToSet(Relevant(item, config)) \ ToSet(Retrieved(item, config))

Zero == [num |-> 0, den |-> 1]

Precision(item, config) ==
    LET retrieved == Retrieved(item, config) IN
    CASE ~Extractable(item) -> Unscoreable
      [] OTHER -> IF retrieved = <<>> THEN Zero
                  ELSE [num |-> Hits(retrieved, Relevant(item, config)), den |-> Len(retrieved)]

Recall(item, config) ==
    LET relevant == Relevant(item, config) IN
    CASE ~Extractable(item) -> Unscoreable
      [] OTHER -> IF relevant = <<>> THEN Unscoreable
                  ELSE [num |-> Hits(relevant, Retrieved(item, config)), den |-> Len(relevant)]

ReciprocalRank(item, config) ==
    LET retrieved == Retrieved(item, config)
        ranks == Found(retrieved, Relevant(item, config))
    IN  CASE ~Extractable(item) -> Unscoreable
          [] OTHER -> IF ranks = {} THEN Zero
                      ELSE [num |-> 1, den |-> Min(ranks)]

Scores3(item, config) == [precision |-> Precision(item, config), recall |-> Recall(item, config),
                          mrr |-> ReciprocalRank(item, config)]

-----------------------------------------------------------------------------
(* What the scores have to be.                                             *)

AtMost(a, b) == a.num * b.den <= b.num * a.den
InRange(a) == a.den > 0 /\ a.num <= a.den

\* A cut-off that reads on: 0 reads the whole list.
ReadsOn(k, further) == further = 0 \/ (k # 0 /\ k <= further)
=============================================================================
