-------------------------- MODULE CalculationsProofs --------------------------
(***************************************************************************)
(* The four calculations keep what they promise for every input: runs of   *)
(* any number of results and evaluators, versions of any number of         *)
(* messages and parameters, lists of any length, spans with any            *)
(* attributes. The state is a call and its result; the work is in the      *)
(* lemmas about the operators that compute the result.                     *)
(***************************************************************************)
EXTENDS Calculations, FoldFacts

-----------------------------------------------------------------------------
(* The retrieval scores of an item.                                        *)

\* Words of a list: one for each document, in order.
LEMMA WordsFacts ==
    ASSUME NEW documents, IsListing(documents), documents # Unscoreable, NEW normalise
    PROVE  /\ Len(documents) \in Nat
           /\ DOMAIN documents = 1..Len(documents)
           /\ DOMAIN Words(documents, normalise) = 1..Len(documents)
           /\ \E S : Words(documents, normalise) \in Seq(S)
           /\ Len(Words(documents, normalise)) = Len(documents)
<1>1. documents \in Seq(ToSet(documents))
  BY DEF IsListing
<1>2. Len(documents) \in Nat /\ DOMAIN documents = 1..Len(documents)
  BY <1>1
<1> DEFINE w == Words(documents, normalise)
           S == {w[n] : n \in DOMAIN documents}
<1>3. w = [n \in 1..Len(documents) |-> w[n]] /\ \A n \in 1..Len(documents) : w[n] \in S
  BY <1>2 DEF Words
<1> HIDE DEF w, S
<1>4. w \in [1..Len(documents) -> S]
  BY <1>3
<1>5. w \in Seq(S)
  BY <1>2, <1>4
<1>6. Len(w) = Len(documents) /\ DOMAIN w = 1..Len(documents)
  BY <1>2, <1>4, <1>5
<1> QED
  BY <1>2, <1>5, <1>6 DEF w

\* The first n words of a list.
Reading(item, config) ==
    IF config.k = 0 \/ config.k >= Len(item.retrieved) THEN Len(item.retrieved) ELSE config.k

\* What is retrieved, up to the cut-off.
LEMMA RetrievedFacts ==
    ASSUME NEW item, IsListing(item.retrieved), item.retrieved # Unscoreable,
           NEW config, config.k \in Nat
    PROVE  LET words == Words(item.retrieved, config.normalise)
               retrieved == Retrieved(item, config)
           IN  /\ Reading(item, config) \in 0..Len(item.retrieved)
               /\ Len(item.retrieved) \in Nat
               /\ DOMAIN retrieved = 1..Reading(item, config)
               /\ Len(retrieved) = Reading(item, config)
               /\ \A n \in 1..Reading(item, config) : retrieved[n] = words[n]
               /\ retrieved = <<>> <=> Reading(item, config) = 0
<1> DEFINE words == Words(item.retrieved, config.normalise)
           retrieved == Retrieved(item, config)
           n == Reading(item, config)
<1>1. PICK S : words \in Seq(S)
  BY WordsFacts
<1>2. Len(item.retrieved) \in Nat /\ Len(words) = Len(item.retrieved)
      /\ DOMAIN words = 1..Len(item.retrieved)
  BY WordsFacts
<1>3. n \in 0..Len(item.retrieved)
  BY <1>2 DEF Reading
<1>4. retrieved = IF n = Len(words) THEN words ELSE SubSeq(words, 1, n)
  BY <1>2 DEF Retrieved, Reading
<1> HIDE DEF words, retrieved, n
<1>5. retrieved \in Seq(S) /\ Len(retrieved) = n /\ DOMAIN retrieved = 1..n
      /\ \A m \in 1..n : retrieved[m] = words[m]
  <2>1. CASE n = Len(words)
    BY <1>1, <1>2, <1>4, <2>1
  <2>2. CASE n # Len(words)
    <3>1. retrieved = SubSeq(words, 1, n)
      BY <1>4, <2>2
    <3> QED
      BY <1>1, <1>2, <1>3, <3>1
  <2> QED
    BY <2>1, <2>2
<1>6. retrieved = <<>> <=> n = 0
  BY <1>3, <1>5
<1> QED
  BY <1>2, <1>3, <1>5, <1>6 DEF words, retrieved, n

\* The number of places of one list that are hits is at most its length; it is the
\* length when they all are.
LEMMA FoundFacts ==
    ASSUME NEW these, NEW those, NEW n \in Nat, DOMAIN these = 1..n
    PROVE  /\ IsFiniteSet(Found(these, those))
           /\ Found(these, those) \subseteq 1..n
           /\ Hits(these, those) \in 0..n
           /\ Hits(these, those) = n <=> \A m \in 1..n : these[m] \in ToSet(those)
           /\ Hits(these, those) > 0 <=> Found(these, those) # {}
<1> DEFINE F == Found(these, those)
<1>1. F \in SUBSET (1..n)
  BY DEF Found
<1>2. IsFiniteSet(1..n) /\ Cardinality(1..n) = n
  BY FS_Interval
<1> HIDE DEF F
<1>3. IsFiniteSet(F) /\ Cardinality(F) <= n /\ (n = Cardinality(F) => 1..n = F)
  BY <1>1, <1>2, FS_Subset
<1>4. Cardinality(F) \in Nat /\ (Cardinality(F) = 0 <=> F = {})
  BY <1>3, FS_CardinalityType, FS_EmptySet
<1>5. F = 1..n <=> \A m \in 1..n : these[m] \in ToSet(those)
  BY DEF Found, F
<1>6. Hits(these, those) = Cardinality(F)
  BY DEF Hits, F
<1> QED
  BY <1>1, <1>2, <1>3, <1>4, <1>5, <1>6 DEF F

\* The least of a set of naturals is one of them.
LEMMA MinFacts ==
    ASSUME NEW S, S \subseteq Nat, S # {}
    PROVE  Min(S) \in S /\ \A m \in S : Min(S) <= m
<1>1. \E n \in S : \A m \in S : n <= m
  BY LeastNat
<1> QED
  BY <1>1 DEF Min

\* Fractions of the same denominator, or of the numerator 1.
LEMMA SameDenominator == \A a, b, d \in Nat : a <= b => a * d <= b * d
OBVIOUS

\* The three scores of an item that has both lists.
LEMMA ScoresOf ==
    ASSUME NEW item, Extractable(item), IsListing(item.retrieved), IsListing(item.expected),
           NEW config, config.k \in Nat
    PROVE  LET s == Scores3(item, config)
               retrieved == Retrieved(item, config)
               relevant == Relevant(item, config)
               n == Reading(item, config)
               m == Len(item.expected)
               F == Found(retrieved, relevant)
           IN  /\ n \in Nat /\ m \in Nat /\ F \subseteq 1..n
               /\ F # {} => Min(F) \in F /\ \A r \in F : Min(F) <= r
               /\ Hits(retrieved, relevant) \in 0..n
               /\ Hits(retrieved, relevant) > 0 <=> F # {}
               /\ s.precision = IF n = 0 THEN Zero
                                ELSE [num |-> Hits(retrieved, relevant), den |-> n]
               /\ s.mrr = IF F = {} THEN Zero ELSE [num |-> 1, den |-> Min(F)]
               /\ s.recall = IF m = 0 THEN Unscoreable
                             ELSE [num |-> Hits(relevant, retrieved), den |-> m]
               /\ Hits(relevant, retrieved) \in 0..m
               /\ Hits(relevant, retrieved) = m <=> Missed(item, config) = {}
               /\ Hits(relevant, retrieved) > 0 <=> F # {}
               /\ m = 0 => F = {}
<1> DEFINE retrieved == Retrieved(item, config)
           relevant == Relevant(item, config)
           n == Reading(item, config)
           m == Len(item.expected)
           F == Found(retrieved, relevant)
           G == Found(relevant, retrieved)
<1>1. n \in Nat /\ DOMAIN retrieved = 1..n /\ Len(retrieved) = n /\ (retrieved = <<>> <=> n = 0)
  BY RetrievedFacts DEF Extractable
<1>2. /\ m \in Nat /\ DOMAIN relevant = 1..m /\ Len(relevant) = m
      /\ \E S : relevant \in Seq(S)
  BY WordsFacts DEF Extractable, Relevant
<1>3. relevant = <<>> <=> m = 0
  <2> HIDE DEF relevant, m
  <2>1. PICK S : relevant \in Seq(S)
    BY <1>2
  <2> QED
    BY <1>2, <2>1
<1>4. Scores3(item, config) =
        [precision |-> IF retrieved = <<>> THEN Zero
                       ELSE [num |-> Hits(retrieved, relevant), den |-> Len(retrieved)],
         recall |-> IF relevant = <<>> THEN Unscoreable
                    ELSE [num |-> Hits(relevant, retrieved), den |-> Len(relevant)],
         mrr |-> IF F = {} THEN Zero ELSE [num |-> 1, den |-> Min(F)]]
  BY DEF Scores3, Precision, Recall, ReciprocalRank
<1>5. F = {p \in DOMAIN retrieved : \E q \in DOMAIN relevant : retrieved[p] = relevant[q]}
  BY DEF Found, ToSet
<1>6. G = {q \in DOMAIN relevant : \E p \in DOMAIN retrieved : relevant[q] = retrieved[p]}
  BY DEF Found, ToSet
<1>7. Missed(item, config) = {relevant[q] : q \in {q \in DOMAIN relevant : relevant[q] \notin ToSet(retrieved)}}
  BY DEF Missed, ToSet
<1> HIDE DEF retrieved, relevant, n, m
<1>8. /\ F \subseteq 1..n /\ Hits(retrieved, relevant) \in 0..n
      /\ Hits(retrieved, relevant) > 0 <=> F # {}
  BY <1>1, FoundFacts
<1>9. /\ Hits(relevant, retrieved) \in 0..m
      /\ Hits(relevant, retrieved) = m <=> \A q \in 1..m : relevant[q] \in ToSet(retrieved)
      /\ Hits(relevant, retrieved) > 0 <=> G # {}
  BY <1>2, FoundFacts
<1>10. F # {} <=> G # {}
  BY <1>5, <1>6
<1>11. Missed(item, config) = {} <=> \A q \in 1..m : relevant[q] \in ToSet(retrieved)
  BY <1>2, <1>7
<1>12. m = 0 => F = {}
  BY <1>2, <1>5
<1>13. F # {} => Min(F) \in F /\ \A r \in F : Min(F) <= r
  <2> HIDE DEF F, G
  <2>1. 1..n \subseteq Nat
    BY <1>1
  <2>2. F \subseteq Nat
    BY <1>8, <2>1, Zenon
  <2> QED
    BY <2>2, MinFacts, Zenon
<1> HIDE DEF F, G
<1> QED
  BY <1>1, <1>2, <1>3, <1>4, <1>8, <1>9, <1>10, <1>11, <1>12, <1>13
     DEF retrieved, relevant, n, m, F

\* A cut-off further down reads at least as much of the list, and the same words.
LEMMA FurtherFacts ==
    ASSUME NEW item, Extractable(item), IsListing(item.retrieved), IsListing(item.expected),
           NEW config \in [k : Nat, normalise : BOOLEAN],
           NEW k \in Nat, k <= Len(item.retrieved), ReadsOn(config.k, k)
    PROVE  LET on == [config EXCEPT !.k = k] IN
           /\ on.k = k /\ Relevant(item, on) = Relevant(item, config)
           /\ Found(Retrieved(item, config), Relevant(item, config))
                \subseteq Found(Retrieved(item, on), Relevant(item, on))
           /\ Hits(Relevant(item, config), Retrieved(item, config))
                <= Hits(Relevant(item, on), Retrieved(item, on))
<1> DEFINE on == [config EXCEPT !.k = k]
           near == Retrieved(item, config)
           far == Retrieved(item, on)
           relevant == Relevant(item, config)
           words == Words(item.retrieved, config.normalise)
<1>1. on.k = k /\ on.normalise = config.normalise /\ config.k \in Nat
  OBVIOUS
<1>2. Relevant(item, on) = relevant /\ Words(item.retrieved, on.normalise) = words
  BY <1>1 DEF Relevant
<1> HIDE DEF on
<1>3. /\ DOMAIN near = 1..Reading(item, config) /\ DOMAIN far = 1..Reading(item, on)
      /\ Reading(item, config) \in Nat /\ Reading(item, on) \in Nat
      /\ \A n \in 1..Reading(item, config) : near[n] = words[n]
  BY <1>1, RetrievedFacts DEF Extractable
<1>4. \A n \in 1..Reading(item, on) : far[n] = words[n]
  BY <1>1, <1>2, RetrievedFacts DEF Extractable
<1>5. Reading(item, config) <= Reading(item, on)
  <2>1. Len(item.retrieved) \in Nat
    BY WordsFacts DEF Extractable
  <2> QED
    BY <1>1, <2>1 DEF Reading, ReadsOn
<1> HIDE DEF near, far, words
<1>6. \A n \in DOMAIN near : n \in DOMAIN far /\ far[n] = near[n]
  BY <1>3, <1>4, <1>5
<1>7. Found(near, relevant) \subseteq Found(far, relevant)
  BY <1>6 DEF Found
<1>8. Found(relevant, near) \subseteq Found(relevant, far)
  BY <1>6 DEF Found, ToSet
<1>9. IsFiniteSet(Found(relevant, far))
  <2>1. Len(item.expected) \in Nat /\ DOMAIN relevant = 1..Len(item.expected)
    BY WordsFacts DEF Extractable, Relevant
  <2> QED
    BY <2>1, FoundFacts
<1>10. Hits(relevant, near) <= Hits(relevant, far)
  BY <1>8, <1>9, FS_Subset DEF Hits
<1> QED
  BY <1>1, <1>2, <1>7, <1>10 DEF on, near, far

\* What RetrievalScoresAgree says, of an item that has both lists: ...
LEMMA ScoresTell ==
    ASSUME NEW item, Extractable(item), IsListing(item.retrieved), IsListing(item.expected),
           NEW config, config.k \in Nat
    PROVE  LET s == Scores3(item, config)
               hit == s.precision # Unscoreable /\ s.precision.num > 0
           IN  /\ \A score \in Range(s) : score = Unscoreable \/ InRange(score)
               /\ hit <=> s.mrr # Unscoreable /\ s.mrr.num > 0
               /\ hit => s.recall # Unscoreable
               /\ s.recall # Unscoreable =>
                    /\ hit <=> s.recall.num > 0
                    /\ s.recall.num = s.recall.den <=> Missed(item, config) = {}
<1> DEFINE s == Scores3(item, config)
           n == Reading(item, config)
           m == Len(item.expected)
           F == Found(Retrieved(item, config), Relevant(item, config))
           p == Hits(Retrieved(item, config), Relevant(item, config))
           r == Hits(Relevant(item, config), Retrieved(item, config))
<1>1. /\ n \in Nat /\ m \in Nat /\ F \subseteq 1..n
      /\ F # {} => Min(F) \in F
      /\ p \in 0..n /\ (p > 0 <=> F # {})
      /\ s.precision = IF n = 0 THEN Zero ELSE [num |-> p, den |-> n]
      /\ s.mrr = IF F = {} THEN Zero ELSE [num |-> 1, den |-> Min(F)]
      /\ s.recall = IF m = 0 THEN Unscoreable ELSE [num |-> r, den |-> m]
      /\ r \in 0..m /\ (r = m <=> Missed(item, config) = {})
      /\ r > 0 <=> F # {}
      /\ m = 0 => F = {}
  BY ScoresOf
<1>2. Range(s) = {s.precision, s.recall, s.mrr}
  BY DEF Scores3, Range
<1>3. Unscoreable \notin [num : Nat, den : Nat]
  BY RetrievalMetricsAssumption
<1> DEFINE least == Min(F)
<1> HIDE DEF s, n, m, F, p, r, least
<1>4. F # {} => least \in 1..n
  BY <1>1 DEF least
<1>5. [num |-> p, den |-> n] # Unscoreable /\ Zero # Unscoreable
      /\ [num |-> r, den |-> m] # Unscoreable
  BY <1>1, <1>3 DEF Zero
<1>6. F # {} => [num |-> 1, den |-> least] # Unscoreable
  BY <1>1, <1>3, <1>4
<1>7. InRange(s.precision) /\ InRange(s.mrr) /\ (s.recall = Unscoreable \/ InRange(s.recall))
  BY <1>1, <1>4 DEF InRange, Zero, least
<1>8. s.precision # Unscoreable /\ s.mrr # Unscoreable
  BY <1>1, <1>5, <1>6 DEF least
<1>9. s.precision.num > 0 <=> F # {}
  BY <1>1 DEF Zero
<1>10. s.mrr.num > 0 <=> F # {}
  <2>1. s.mrr = IF F = {} THEN Zero ELSE [num |-> 1, den |-> least]
    BY <1>1 DEF least
  <2> QED
    BY <2>1 DEF Zero
<1>11. s.recall # Unscoreable <=> m # 0
  BY <1>1, <1>5
<1>12. m # 0 => s.recall.num = r /\ s.recall.den = m
  BY <1>1
<1>13. \A score \in Range(s) : score = Unscoreable \/ InRange(score)
  BY <1>2, <1>7
<1> QED
  BY <1>1, <1>8, <1>9, <1>10, <1>11, <1>12, <1>13 DEF s

\* ... and of reading further down its list.
LEMMA ScoresGrow ==
    ASSUME NEW item, Extractable(item), IsListing(item.retrieved), IsListing(item.expected),
           NEW config \in [k : Nat, normalise : BOOLEAN],
           NEW k \in Nat, k <= Len(item.retrieved), ReadsOn(config.k, k)
    PROVE  LET s == Scores3(item, config)
               further == Scores3(item, [config EXCEPT !.k = k])
           IN  /\ s.recall # Unscoreable => AtMost(s.recall, further.recall)
               /\ AtMost(s.mrr, further.mrr)
<1> DEFINE on == [config EXCEPT !.k = k]
           m == Len(item.expected)
           F == Found(Retrieved(item, config), Relevant(item, config))
           G == Found(Retrieved(item, on), Relevant(item, on))
           p == Hits(Relevant(item, config), Retrieved(item, config))
           q == Hits(Relevant(item, on), Retrieved(item, on))
           s == Scores3(item, config)
           t == Scores3(item, on)
<1>1. on.k = k /\ F \subseteq G /\ p <= q
  BY FurtherFacts
<1>2. /\ m \in Nat /\ F \subseteq 1..Reading(item, config) /\ Reading(item, config) \in Nat
      /\ F # {} => Min(F) \in F /\ \A r \in F : Min(F) <= r
      /\ s.mrr = IF F = {} THEN Zero ELSE [num |-> 1, den |-> Min(F)]
      /\ s.recall = IF m = 0 THEN Unscoreable ELSE [num |-> p, den |-> m]
      /\ p \in 0..m
  BY ScoresOf
<1> HIDE DEF on
<1>3. /\ G \subseteq 1..Reading(item, on) /\ Reading(item, on) \in Nat
      /\ G # {} => Min(G) \in G /\ \A r \in G : Min(G) <= r
      /\ t.mrr = IF G = {} THEN Zero ELSE [num |-> 1, den |-> Min(G)]
      /\ t.recall = IF m = 0 THEN Unscoreable ELSE [num |-> q, den |-> m]
      /\ q \in 0..m
  BY <1>1, ScoresOf
<1> DEFINE f == Min(F)
           g == Min(G)
<1> HIDE DEF m, F, G, p, q, s, t, f, g
<1>4. s.recall # Unscoreable => AtMost(s.recall, t.recall)
  <2>1. s.recall # Unscoreable => s.recall = [num |-> p, den |-> m] /\ t.recall = [num |-> q, den |-> m]
    BY <1>2, <1>3
  <2>2. p * m <= q * m
    BY <1>1, <1>2, <1>3, SameDenominator
  <2> QED
    BY <2>1, <2>2 DEF AtMost
<1>5. G # {} => g \in Nat /\ g \in G /\ \A r \in G : g <= r
  <2>1. G # {} => g \in G /\ \A r \in G : g <= r
    BY <1>3 DEF g
  <2>2. \A r \in G : r \in Nat
    BY <1>3
  <2> QED
    BY <2>1, <2>2
<1>6. F # {} => f \in Nat /\ f \in F
  <2>1. F # {} => f \in F
    BY <1>2 DEF f
  <2>2. \A r \in F : r \in Nat
    BY <1>2
  <2> QED
    BY <2>1, <2>2
<1>7. AtMost(s.mrr, t.mrr)
  <2>1. CASE F = {}
    <3>1. s.mrr.num = 0 /\ s.mrr.den = 1 /\ t.mrr.num \in Nat
      BY <1>2, <1>3, <2>1 DEF Zero
    <3>2. t.mrr.den \in Nat
      <4>1. t.mrr = IF G = {} THEN Zero ELSE [num |-> 1, den |-> g]
        BY <1>3 DEF g
      <4> QED
        BY <1>5, <4>1 DEF Zero
    <3> QED
      BY <3>1, <3>2 DEF AtMost
  <2>2. CASE F # {}
    <3>1. G # {} /\ f \in Nat /\ g \in Nat /\ g <= f
      BY <1>1, <1>5, <1>6, <2>2
    <3>2. s.mrr = [num |-> 1, den |-> f] /\ t.mrr = [num |-> 1, den |-> g]
      BY <1>2, <1>3, <2>2, <3>1 DEF f, g
    <3> QED
      BY <3>1, <3>2 DEF AtMost
  <2> QED
    BY <2>1, <2>2
<1> QED
  BY <1>4, <1>7 DEF on, s, t
-----------------------------------------------------------------------------
(* The mapping of a span's attributes.                                     *)

\* The first spelling that has a value: either this one, or there is one before it.
LEMMA FirstFacts ==
    ASSUME NEW a, NEW keys, DOMAIN keys \subseteq Nat,
           NEW n \in DOMAIN keys, keys[n] \in DOMAIN a, a[keys[n]] \notin Unset
    PROVE  /\ First(a, keys) \notin Unset
           /\ \/ First(a, keys) = a[keys[n]]
              \/ \E m \in DOMAIN keys : m < n /\ At(a, keys[m]) \notin Unset
<1> DEFINE set == {m \in DOMAIN keys : keys[m] \in DOMAIN a /\ a[keys[m]] \notin Unset}
           least == Min(set)
<1>1. First(a, keys) = IF set = {} THEN Null ELSE a[keys[least]]
  BY DEF First
<1>2. n \in set /\ set \subseteq Nat
  OBVIOUS
<1>3. least \in set /\ least <= n
  <2> HIDE DEF set
  <2> QED
    BY <1>2, MinFacts
<1> HIDE DEF least
<1>4. keys[least] \in DOMAIN a /\ a[keys[least]] \notin Unset /\ least \in DOMAIN keys
  BY <1>3
<1>5. First(a, keys) = a[keys[least]]
  BY <1>1, <1>2
<1>6. CASE least = n
  BY <1>4, <1>5, <1>6
<1>7. CASE least # n
  <2>1. least < n
    BY <1>2, <1>3, <1>7
  <2> QED
    BY <1>4, <1>5, <2>1 DEF At
<1> QED
  BY <1>6, <1>7

\* The spellings of each fact.
LEMMA Spellings ==
    /\ DOMAIN Model = 1..4 /\ DOMAIN PromptTokens = 1..3 /\ DOMAIN CompletionTokens = 1..3
    /\ DOMAIN Cost = 1..2 /\ DOMAIN Input = 1..2 /\ DOMAIN Output = 1..2
    /\ DOMAIN Operation = 1..2
    /\ Head(Input) = "gen_ai.prompt" /\ Head(Output) = "gen_ai.completion"
<1>1. DOMAIN Model = 1..4
  BY DEF Model
<1>2. DOMAIN PromptTokens = 1..3 /\ DOMAIN CompletionTokens = 1..3
  BY DEF PromptTokens, CompletionTokens
<1>3. DOMAIN Cost = 1..2 /\ DOMAIN Input = 1..2 /\ DOMAIN Output = 1..2 /\ DOMAIN Operation = 1..2
  BY DEF Cost, Input, Output, Operation
<1>4. Head(Input) = "gen_ai.prompt" /\ Head(Output) = "gen_ai.completion"
  BY DEF Input, Output
<1> QED
  BY <1>1, <1>2, <1>3, <1>4

LEMMA FactNames ==
    /\ DOMAIN Facts = {"model", "prompt_tokens", "cost", "completion_tokens", "input", "output"}
    /\ DOMAIN Messages = {"input", "output"}
    /\ Facts.model = Model /\ Facts.prompt_tokens = PromptTokens /\ Facts.cost = Cost
    /\ Facts.completion_tokens = CompletionTokens /\ Facts.input = Input
    /\ Facts.output = Output
BY DEF Facts, Messages

LEMMA Inputs == ToSet(Input) = {"gen_ai.prompt", "traceloop.entity.input"}
<1>1. Input[1] = "gen_ai.prompt" /\ Input[2] = "traceloop.entity.input"
  BY DEF Input
<1>2. 1..2 = {1, 2}
  OBVIOUS
<1> QED
  BY <1>1, <1>2, Spellings DEF ToSet

LEMMA Outputs == ToSet(Output) = {"gen_ai.completion", "traceloop.entity.output"}
<1>1. Output[1] = "gen_ai.completion" /\ Output[2] = "traceloop.entity.output"
  BY DEF Output
<1>2. 1..2 = {1, 2}
  OBVIOUS
<1> QED
  BY <1>1, <1>2, Spellings DEF ToSet

\* A column of one value holds the first spelling, unless it can not be read.
LEMMA ColumnHolds ==
    ASSUME NEW span, NEW fact \in {"model", "prompt_tokens", "cost", "completion_tokens"},
           NEW k \in ToSet(Facts[fact]), k \in DOMAIN span.attributes,
           span.attributes[k] \notin Unset
    PROVE  \/ Holds(to_span_ingest(span), fact, span.attributes[k])
           \/ Outranked(span.attributes, fact, k)
           \/ Unreadable(fact, span.attributes[k])
<1> DEFINE a == span.attributes
           keys == Facts[fact]
           first == First(a, keys)
           row == to_span_ingest(span)
<1>1. DOMAIN keys \subseteq Nat
  <2>1. 1..4 \subseteq Nat /\ 1..3 \subseteq Nat /\ 1..2 \subseteq Nat
    OBVIOUS
  <2> QED
    BY <2>1, Spellings, FactNames
<1>2. PICK n \in DOMAIN keys : keys[n] = k
  BY DEF ToSet
<1>3. /\ row.model = Text(First(a, Model))
      /\ row.prompt_tokens = AsInt(First(a, PromptTokens))
      /\ row.completion_tokens = AsInt(First(a, CompletionTokens))
      /\ row.cost = AsDecimal(First(a, Cost))
  BY DEF to_span_ingest
<1>4. \/ first = a[k]
      \/ \E m \in DOMAIN keys : m < n /\ At(a, keys[m]) \notin Unset
  <2> HIDE DEF keys, a
  <2> QED
    BY <1>1, <1>2, FirstFacts DEF a, keys
<1>5. CASE first = a[k]
  <2>1. fact \notin DOMAIN Messages
    BY FactNames
  <2> HIDE DEF row
  <2>2. CASE fact = "model"
    BY <1>3, <1>5, <2>1, <2>2, FactNames DEF Holds, Text, row
  <2>3. CASE fact = "cost"
    <3>1. row.cost = AsDecimal(a[k])
      BY <1>3, <1>5, <2>3, FactNames
    <3>2. AsDecimal(a[k]) = a[k] \/ AsDecimal(a[k]) = Null
      BY DEF AsDecimal
    <3> QED
      BY <2>1, <2>3, <3>1, <3>2 DEF Holds, Unreadable, row
  <2>4. CASE fact \in {"prompt_tokens", "completion_tokens"}
    <3>1. row[fact] = AsInt(a[k])
      BY <1>3, <1>5, <2>4, FactNames
    <3>2. AsInt(a[k]) = a[k] \/ AsInt(a[k]) = Null
      BY DEF AsInt
    <3> QED
      BY <2>1, <2>4, <3>1, <3>2 DEF Holds, Unreadable, row
  <2> QED
    BY <2>2, <2>3, <2>4
<1>6. CASE \E m \in DOMAIN keys : m < n /\ At(a, keys[m]) \notin Unset
  BY <1>2, <1>6 DEF Outranked
<1> QED
  BY <1>4, <1>5, <1>6

\* The input and the output hold their first spelling, or messages.
LEMMA PayloadHolds ==
    ASSUME NEW span, NEW fact \in {"input", "output"},
           NEW k \in ToSet(Facts[fact]), k \in DOMAIN span.attributes,
           span.attributes[k] \notin Unset
    PROVE  \/ Holds(to_span_ingest(span), fact, span.attributes[k])
           \/ Outranked(span.attributes, fact, k)
<1> DEFINE a == span.attributes
           keys == Facts[fact]
           first == First(a, keys)
           row == to_span_ingest(span)
           messages == Extracted(span, fact)
<1>1. DOMAIN keys = 1..2 /\ 1..2 \subseteq Nat
  BY Spellings, FactNames
<1>2. PICK n \in DOMAIN keys : keys[n] = k
  BY DEF ToSet
<1>3. row.input = Payload(span, "input", Input) /\ row.output = Payload(span, "output", Output)
  BY DEF to_span_ingest
<1>4. row[fact] = Payload(span, fact, keys) /\ fact \in DOMAIN Messages
  BY <1>3, FactNames
<1>5. \/ first = a[k]
      \/ \E m \in DOMAIN keys : m < n /\ At(a, keys[m]) \notin Unset
  <2> HIDE DEF keys, a
  <2> QED
    BY <1>1, <1>2, FirstFacts DEF a, keys
<1>6. DOMAIN messages = {field \in Messages[fact] : field \cap DOMAIN a # {}}
  BY DEF Extracted
<1>7. row[fact].value = IF DOMAIN messages = {} THEN first ELSE Null
  BY <1>4 DEF Payload
<1> HIDE DEF row, first, messages
<1>8. CASE (UNION Messages[fact]) \cap DOMAIN a # {}
  BY <1>4, <1>8 DEF Outranked
<1>9. CASE (UNION Messages[fact]) \cap DOMAIN a = {}
  <2>1. DOMAIN messages = {}
    BY <1>6, <1>9
  <2> QED
    BY <1>2, <1>4, <1>5, <1>7, <2>1 DEF Holds, Outranked, row
<1> QED
  BY <1>8, <1>9

\* The greatest of numbers that have a bound.
LEMMA MaxFacts ==
    ASSUME NEW S, S \subseteq Nat, S # {}, NEW b \in Nat, \A n \in S : n <= b
    PROVE  Max(S) \in S /\ \A m \in S : m <= Max(S)
<1>1. \E n \in S : \A m \in S : m <= n
  BY GreatestNat
<1>2. \E n \in S : \A m \in S : n >= m
  BY <1>1
<1>3. Max(S) \in S /\ \A m \in S : Max(S) >= m
  BY <1>2 DEF Max
<1> QED
  BY <1>3

\* A key of a message is in the message, or a later one of its field is.
LEMMA MessageKept ==
    ASSUME NEW span, span.order \in Seq(DOMAIN span.attributes),
           ToSet(span.order) = DOMAIN span.attributes,
           NEW k \in MessageKeys, k \in DOMAIN span.attributes
    PROVE  \/ InMessage(to_span_ingest(span), k, span.attributes[k])
           \/ Overwritten(span, k)
<1> DEFINE a == span.attributes
           order == span.order
           row == to_span_ingest(span)
<1>1. PICK group \in DOMAIN Messages : \E field \in Messages[group] : k \in field
  BY FactNames DEF MessageKeys
<1>2. PICK field \in Messages[group] : k \in field
  BY <1>1
<1>3. PICK m \in DOMAIN order : order[m] = k
  BY DEF ToSet
<1> DEFINE set == {n \in DOMAIN order : order[n] \in field}
           last == Max(set)
<1>4. Len(order) \in Nat /\ DOMAIN order = 1..Len(order)
  OBVIOUS
<1>5. set \subseteq Nat /\ m \in set /\ \A n \in set : n <= Len(order)
  BY <1>2, <1>3, <1>4
<1>6. last \in set /\ m <= last
  <2> HIDE DEF set
  <2> QED
    BY <1>4, <1>5, MaxFacts
<1>7. row[group].messages = Extracted(span, group)
  <2>1. row.input = Payload(span, "input", Input) /\ row.output = Payload(span, "output", Output)
    BY DEF to_span_ingest
  <2> HIDE DEF row
  <2>2. CASE group = "input"
    BY <2>1, <2>2 DEF Payload
  <2>3. CASE group = "output"
    BY <2>1, <2>3 DEF Payload
  <2> QED
    BY <2>2, <2>3, FactNames
<1>8. field \in DOMAIN Extracted(span, group) /\ Extracted(span, group)[field] = a[order[last]]
  <2>1. field \cap DOMAIN a # {}
    BY <1>2
  <2>2. LastAmong(order, field) = order[last]
    BY DEF LastAmong
  <2> HIDE DEF last
  <2> QED
    BY <1>2, <2>1, <2>2 DEF Extracted
<1> HIDE DEF row, last
<1>9. CASE order[last] = k
  BY <1>2, <1>7, <1>8, <1>9 DEF InMessage, row
<1>10. CASE order[last] # k
  <2>1. m < last /\ last \in DOMAIN order /\ order[last] \in field
    <3>1. m \in Nat /\ last \in Nat /\ m # last
      BY <1>3, <1>5, <1>6, <1>10
    <3> QED
      BY <1>6, <3>1
  <2>2. {k, order[last]} \subseteq field
    BY <1>2, <2>1
  <2> QED
    BY <1>1, <1>2, <1>3, <1>10, <2>1, <2>2 DEF Overwritten
<1> QED
  BY <1>9, <1>10

\* What NoAttributeLost says, of one span.
LEMMA AttributesKept ==
    ASSUME NEW span, span.order \in Seq(DOMAIN span.attributes),
           ToSet(span.order) = DOMAIN span.attributes
    PROVE  LET a == span.attributes
               row == to_span_ingest(span)
               Column(k) == {f \in DOMAIN Facts : k \in ToSet(Facts[f])}
           IN  \A k \in DOMAIN a :
                a[k] \notin Unset =>
                    \/ /\ k \in DOMAIN row.metadata /\ row.metadata[k] = a[k]
                       /\ Column(k) = {} \/ k \in {Head(Input), Head(Output)}
                    \/ /\ k \notin DOMAIN row.metadata
                       /\ \E f \in Column(k) : \/ Holds(row, f, a[k])
                                               \/ Outranked(a, f, k)
                                               \/ Unreadable(f, a[k])
                    \/ k \in ToSet(Operation) \cup {"traceloop.span.kind",
                                                  "llm.usage.total_tokens"}
                    \/ /\ k \notin DOMAIN row.metadata
                       /\ InMessage(row, k, a[k]) \/ Overwritten(span, k)
                    \/ k \in DOMAIN Origin(span)
<1> DEFINE a == span.attributes
           row == to_span_ingest(span)
           Column(k) == {f \in DOMAIN Facts : k \in ToSet(Facts[f])}
<1> SUFFICES ASSUME NEW k \in DOMAIN a, a[k] \notin Unset, k \notin DOMAIN Origin(span),
                    k \notin ToSet(Operation) \cup {"traceloop.span.kind", "llm.usage.total_tokens"}
             PROVE  \/ /\ k \in DOMAIN row.metadata /\ row.metadata[k] = a[k]
                       /\ Column(k) = {} \/ k \in {Head(Input), Head(Output)}
                    \/ /\ k \notin DOMAIN row.metadata
                       /\ \E f \in Column(k) : \/ Holds(row, f, a[k])
                                               \/ Outranked(a, f, k)
                                               \/ Unreadable(f, a[k])
                    \/ /\ k \notin DOMAIN row.metadata
                       /\ InMessage(row, k, a[k]) \/ Overwritten(span, k)
  OBVIOUS
<1>1. /\ DOMAIN row.metadata = (DOMAIN a \ (Promoted \cup MessageKeys)) \cup DOMAIN Origin(span)
      /\ k \in DOMAIN row.metadata => row.metadata[k] = a[k]
  <2>1. row.metadata = Metadata(span)
    BY DEF to_span_ingest
  <2> HIDE DEF row
  <2> QED
    BY <2>1 DEF Metadata
<1>2. ASSUME NEW f \in Column(k)
      PROVE  Holds(row, f, a[k]) \/ Outranked(a, f, k) \/ Unreadable(f, a[k])
  <2>1. f \in {"model", "prompt_tokens", "cost", "completion_tokens"} \/ f \in {"input", "output"}
    BY <1>2, FactNames
  <2> QED
    BY <1>2, <2>1, ColumnHolds, PayloadHolds
<1>3. CASE k \in MessageKeys
  <2>1. k \notin DOMAIN row.metadata
    BY <1>1, <1>3
  <2>2. InMessage(row, k, a[k]) \/ Overwritten(span, k)
    BY <1>3, MessageKept
  <2> QED
    BY <2>1, <2>2
<1>4. CASE k \notin MessageKeys /\ k \in Promoted
  <2>1. k \notin DOMAIN row.metadata
    BY <1>1, <1>4
  <2>2. Column(k) # {}
    <3>1. \/ k \in ToSet(Model) \/ k \in ToSet(PromptTokens) \/ k \in ToSet(CompletionTokens)
          \/ k \in ToSet(Cost) \/ k \in ToSet(Input) \/ k \in ToSet(Output)
      BY <1>4, Inputs, Outputs DEF Promoted
    <3> QED
      BY <3>1, FactNames
  <2> QED
    BY <1>2, <2>1, <2>2
<1>5. CASE k \notin MessageKeys /\ k \notin Promoted
  <2>1. k \in DOMAIN row.metadata /\ row.metadata[k] = a[k]
    BY <1>1, <1>5
  <2>2. ASSUME NEW f \in Column(k) PROVE k \in {Head(Input), Head(Output)}
    <3>1. f \in DOMAIN Facts /\ k \in ToSet(Facts[f])
      BY <2>2
    <3>2. /\ k \notin ToSet(Model) /\ k \notin ToSet(PromptTokens)
          /\ k \notin ToSet(CompletionTokens) /\ k \notin ToSet(Cost)
          /\ k \notin {"traceloop.entity.input", "traceloop.entity.output"}
      BY <1>5 DEF Promoted
    <3>3. k \in ToSet(Input) \/ k \in ToSet(Output)
      BY <3>1, <3>2, FactNames
    <3> QED
      BY <3>2, <3>3, Inputs, Outputs, Spellings
  <2> QED
    BY <2>1, <2>2
<1> QED
  BY <1>3, <1>4, <1>5
-----------------------------------------------------------------------------
(* The comparison of two runs: read from the candidate to the baseline.    *)

Outcomes == {"improved", "regressed", "added", "removed", "unchanged"}

LEMMA Opposites ==
    /\ DOMAIN Opposite = Outcomes
    /\ Opposite["improved"] = "regressed" /\ Opposite["regressed"] = "improved"
    /\ Opposite["added"] = "removed" /\ Opposite["removed"] = "added"
    /\ Opposite["unchanged"] = "unchanged"
BY DEF Opposite, Outcomes

\* A score is a number or a gap, never both.
LEMMA GapFacts == Epsilon \in Nat /\ \A n \in Nat : n # Gap
BY RunComparisonAssumption

LEMMA ChangeMirror ==
    ASSUME NEW a \in Nat, NEW b \in Nat, NEW slack \in Nat
    PROVE  /\ Change(a, b, slack) \in {"unchanged", "improved", "regressed"}
           /\ Change(b, a, slack) = Opposite[Change(a, b, slack)]
<1>1. Distance(a, b) = Distance(b, a)
  BY DEF Distance
<1>2. CASE Distance(a, b) <= slack
  BY <1>1, <1>2, Opposites DEF Change
<1>3. CASE ~ (Distance(a, b) <= slack) /\ b > a
  <2>1. Change(a, b, slack) = "improved"
    BY <1>3 DEF Change
  <2>2. Change(b, a, slack) = "regressed"
    BY <1>1, <1>3 DEF Change
  <2> QED
    BY <2>1, <2>2, Opposites
<1>4. CASE ~ (Distance(a, b) <= slack) /\ a > b
  <2>1. Change(a, b, slack) = "regressed"
    BY <1>4 DEF Change
  <2>2. Change(b, a, slack) = "improved"
    BY <1>1, <1>4 DEF Change
  <2> QED
    BY <2>1, <2>2, Opposites
<1>5. ~ (Distance(a, b) <= slack) => a > b \/ b > a
  BY DEF Distance
<1> QED
  BY <1>2, <1>3, <1>4, <1>5

LEMMA ClassifyMirror ==
    ASSUME NEW a \in Nat \cup {Gap}, NEW b \in Nat \cup {Gap}
    PROVE  Classify(a, b) \in Outcomes /\ Classify(b, a) = Opposite[Classify(a, b)]
<1>1. CASE a = Gap \/ b = Gap
  BY <1>1, Opposites DEF Classify, Outcomes
<1>2. CASE a # Gap /\ b # Gap
  <2>1. Classify(a, b) = Change(a, b, Epsilon) /\ Classify(b, a) = Change(b, a, Epsilon)
    BY <1>2 DEF Classify
  <2> QED
    BY <1>2, <2>1, ChangeMirror, GapFacts DEF Outcomes
<1> QED
  BY <1>1, <1>2

\* An item is found by its key, in either run.
LEMMA KeyFacts ==
    ASSUME NEW base, NEW cand, NEW align \in {"identity", "positional"},
           ~Refused(base, cand, align)
    PROVE  /\ \A i : Key(base, i, align) = Key(cand, i, align)
           /\ \A i : Index(Key(base, i, align)) = i /\ Index(Key(cand, i, align)) = i
<1>1. CASE align = "identity"
  <2>1. base.pins["dataset"] = cand.pins["dataset"]
    BY <1>1 DEF Refused
  <2>2. \A x, i : <<x, i>>[Len(<<x, i>>)] = i
    OBVIOUS
  <2> QED
    BY <1>1, <2>1, <2>2 DEF Key, Index
<1>2. CASE align = "positional"
  <2>1. \A i : <<i>>[Len(<<i>>)] = i
    OBVIOUS
  <2> QED
    BY <1>2, <2>1 DEF Key, Index
<1> QED
  BY <1>1, <1>2

\* What a run has for a key: the scores of one of its results, or none.
LEMMA ScoresFacts ==
    ASSUME NEW run, IsRun(run), NEW align \in {"identity", "positional"}, NEW key, NEW e,
           \A i : Index(Key(run, i, align)) = i
    PROVE  /\ Score(Scores(run, key, align), e) \in Nat \cup {Gap}
           /\ key \notin Keys(run, align) => DOMAIN Scores(run, key, align) = {}
<1>1. CASE key \in Keys(run, align)
  <2>1. PICK i \in DOMAIN run.results : key = Key(run, i, align)
    BY <1>1 DEF Keys
  <2>2. Scores(run, key, align) = run.results[i]
    BY <1>1, <2>1 DEF Scores
  <2> QED
    BY <1>1, <2>1, <2>2 DEF Score, IsRun
<1>2. CASE key \notin Keys(run, align)
  <2>1. DOMAIN NoScores = {}
    BY DEF NoScores
  <2> QED
    BY <1>2, <2>1 DEF Scores, Score
<1> QED
  BY <1>1, <1>2

\* The example of a key, mirrored.
Turned(example) ==
    [evaluators |-> [e \in DOMAIN example.evaluators |-> Opposite[example.evaluators[e]]],
     change     |-> Opposite[example.change]]

\* An example, turned, is the example of the two runs the other way round.
LEMMA ExampleMirror ==
    ASSUME NEW base, IsRun(base), NEW cand, IsRun(cand),
           NEW align \in {"identity", "positional"}, ~Refused(base, cand, align),
           NEW key \in Keys(base, align) \cup Keys(cand, align)
    PROVE  /\ Example(base, cand, key, align).change \in Outcomes
           /\ Example(cand, base, key, align) = Turned(Example(base, cand, key, align))
<1> DEFINE before == Scores(base, key, align)
           after == Scores(cand, key, align)
           there == EvaluatorChanges(before, after)
           back == EvaluatorChanges(after, before)
           inBase == key \in Keys(base, align)
           inCand == key \in Keys(cand, align)
<1>1. \A e : Score(before, e) \in Nat \cup {Gap} /\ Score(after, e) \in Nat \cup {Gap}
  BY KeyFacts, ScoresFacts
<1>2. DOMAIN back = DOMAIN there
  BY DEF EvaluatorChanges
<1>3. \A e \in DOMAIN there : there[e] \in Outcomes /\ back[e] = Opposite[there[e]]
  <2>1. \A e \in DOMAIN there : /\ there[e] = Classify(Score(before, e), Score(after, e))
                                /\ back[e] = Classify(Score(after, e), Score(before, e))
    BY DEF EvaluatorChanges
  <2> HIDE DEF there, back, before, after
  <2> QED
    BY <1>1, <2>1, ClassifyMirror
<1>4. back = [e \in DOMAIN there |-> Opposite[there[e]]]
  <2>1. back = [e \in DOMAIN back |-> back[e]]
    BY DEF EvaluatorChanges
  <2> HIDE DEF there, back
  <2> QED
    BY <1>2, <1>3, <2>1
<1>5. /\ Example(base, cand, key, align) =
           [evaluators |-> there, change |-> Verdict(inBase, inCand, Range(there))]
      /\ Example(cand, base, key, align) =
           [evaluators |-> back, change |-> Verdict(inCand, inBase, Range(back))]
  BY DEF Example
<1> HIDE DEF there, back, before, after
<1>6. /\ "regressed" \in Range(back) <=> "improved" \in Range(there)
      /\ "improved" \in Range(back) <=> "regressed" \in Range(there)
  BY <1>2, <1>3, Opposites DEF Range, Outcomes
<1> DEFINE R == Range(there)
           Q == Range(back)
<1>7. /\ Verdict(inBase, inCand, R) \in Outcomes
      /\ Verdict(inCand, inBase, Q) = Opposite[Verdict(inBase, inCand, R)]
  <2> HIDE DEF R, Q
  <2>1. \A p, q, r, s : /\ r \in BOOLEAN /\ s \in BOOLEAN /\ (r \/ s)
                        /\ ("regressed" \in q <=> "improved" \in p)
                        /\ ("improved" \in q <=> "regressed" \in p)
                        => /\ Verdict(r, s, p) \in Outcomes
                           /\ Verdict(s, r, q) = Opposite[Verdict(r, s, p)]
    BY Opposites DEF Verdict, Outcomes
  <2>2. inBase \in BOOLEAN /\ inCand \in BOOLEAN /\ (inBase \/ inCand)
    OBVIOUS
  <2>3. ("regressed" \in Q <=> "improved" \in R) /\ ("improved" \in Q <=> "regressed" \in R)
    BY <1>6 DEF R, Q
  <2> HIDE DEF inBase, inCand
  <2> QED
    BY <2>1, <2>2, <2>3
<1> QED
  BY <1>4, <1>5, <1>7 DEF Turned

-----------------------------------------------------------------------------
(* The means.                                                              *)

\* A product does not depend on the order of its factors.
LEMMA Products == \A a, b, c \in Nat : a * b \in Nat /\ (a * b) * c = (a * c) * b /\ a * b = b * a
OBVIOUS

\* The scores of an evaluator, by the index of the item.
ScoresOfAll(run, e) == [i \in Scored(run, e) |-> run.results[i][e]]

\* A mean is a sum of numbers, over a finite set.
LEMMA MeanFacts ==
    ASSUME NEW run, IsRun(run), NEW e
    PROVE  /\ IsFiniteSet(Scored(run, e))
           /\ \A i \in Scored(run, e) : ScoresOfAll(run, e)[i] \in Nat
           /\ Mean(run, e).sum = SumOver(ScoresOfAll(run, e), Scored(run, e))
           /\ Mean(run, e).of = Cardinality(Scored(run, e))
           /\ Mean(run, e).sum \in Nat /\ Mean(run, e).of \in Nat
<1>1. IsFiniteSet(Scored(run, e))
  BY FS_Subset DEF Scored, IsRun
<1>2. \A i \in Scored(run, e) : ScoresOfAll(run, e)[i] \in Nat
  BY DEF Scored, Score, ScoresOfAll, IsRun
<1>3. Mean(run, e).sum = MapThenSumSet(LAMBDA i : ScoresOfAll(run, e)[i], Scored(run, e))
  BY DEF Mean, ScoresOfAll
<1>4. SumOver(ScoresOfAll(run, e), Scored(run, e))
        = MapThenSumSet(LAMBDA i : ScoresOfAll(run, e)[i], Scored(run, e))
  BY DEF SumOver
<1>5. Mean(run, e).of = Cardinality(Scored(run, e))
  BY DEF Mean
<1>6. SumOver(ScoresOfAll(run, e), Scored(run, e)) \in Nat /\ Cardinality(Scored(run, e)) \in Nat
  BY <1>1, <1>2, SumType, FS_CardinalityType
<1> QED
  BY <1>1, <1>2, <1>3, <1>4, <1>5, <1>6

LEMMA MeanInType ==
    ASSUME NEW run, IsRun(run), NEW e
    PROVE  MeanIn(run, e).sum \in Nat /\ MeanIn(run, e).of \in Nat
BY MeanFacts DEF MeanIn, NoMean

\* The change of a mean, the other way round.
LEMMA MeanMirror ==
    ASSUME NEW before, before.sum \in Nat, before.of \in Nat,
           NEW after, after.sum \in Nat, after.of \in Nat
    PROVE  /\ MeanChange(before, after) \in Outcomes
           /\ MeanChange(after, before) = Opposite[MeanChange(before, after)]
<1>1. CASE before.of = 0 \/ after.of = 0
  BY <1>1, Opposites DEF MeanChange, Outcomes
<1>2. CASE before.of # 0 /\ after.of # 0
  <2> DEFINE b == before.sum * after.of
             a == after.sum * before.of
             slack == Epsilon * before.of * after.of
  <2>1. a \in Nat /\ b \in Nat /\ slack \in Nat /\ slack = Epsilon * after.of * before.of
    BY Products, GapFacts
  <2>2. MeanChange(before, after) = Change(b, a, slack)
    BY <1>2 DEF MeanChange
  <2>3. MeanChange(after, before) = Change(a, b, slack)
    BY <1>2, <2>1 DEF MeanChange
  <2> HIDE DEF a, b, slack
  <2> QED
    BY <2>1, <2>2, <2>3, ChangeMirror DEF Outcomes
<1> QED
  BY <1>1, <1>2

\* A comparison takes no side.
LEMMA ComparesBothWays ==
    ASSUME NEW base, IsRun(base), NEW cand, IsRun(cand),
           NEW align \in {"identity", "positional"}, ~Refused(base, cand, align)
    PROVE  Compare(cand, base, align) = Mirror(Compare(base, cand, align))
<1> DEFINE K == Keys(base, align) \cup Keys(cand, align)
           E == Reported(base) \cup Reported(cand)
           there == [key \in K |-> Example(base, cand, key, align)]
           back == [key \in K |-> Example(cand, base, key, align)]
           Those(examples, change) == {k \in DOMAIN examples : examples[k].change = change}
<1>1. /\ Keys(cand, align) \cup Keys(base, align) = K
      /\ Reported(cand) \cup Reported(base) = E
  OBVIOUS
<1>2. ~Refused(cand, base, align)
  BY DEF Refused
<1>3. Compare(base, cand, align) =
        [warnings   |-> {p \in Pins : base.pins[p] # cand.pins[p]},
         evaluators |-> [e \in E |-> MeanChange(MeanIn(base, e), MeanIn(cand, e))],
         examples   |-> there,
         regressed  |-> Cardinality(Those(there, "regressed")),
         improved   |-> Cardinality(Those(there, "improved"))]
  BY DEF Compare
<1>4. Compare(cand, base, align) =
        [warnings   |-> {p \in Pins : cand.pins[p] # base.pins[p]},
         evaluators |-> [e \in E |-> MeanChange(MeanIn(cand, e), MeanIn(base, e))],
         examples   |-> back,
         regressed  |-> Cardinality(Those(back, "regressed")),
         improved   |-> Cardinality(Those(back, "improved"))]
  BY <1>1 DEF Compare
<1>5. \A key \in K : there[key].change \in Outcomes /\ back[key] = Turned(there[key])
  BY ExampleMirror
<1>6. back = [k \in DOMAIN there |-> Turned(there[k])]
  <2>1. DOMAIN there = K /\ back = [k \in K |-> back[k]]
    OBVIOUS
  <2> HIDE DEF there, back, K
  <2> QED
    BY <1>5, <2>1
<1>7. /\ Those(back, "regressed") = Those(there, "improved")
      /\ Those(back, "improved") = Those(there, "regressed")
  <2>1. \A key \in K : back[key].change = Opposite[there[key].change]
    <3>1. \A example : Turned(example).change = Opposite[example.change]
      BY DEF Turned
    <3> HIDE DEF there, back, K
    <3> QED
      BY <1>5, <3>1
  <2>2. DOMAIN there = K /\ DOMAIN back = K
    OBVIOUS
  <2>3. \A key \in K : /\ back[key].change = "regressed" <=> there[key].change = "improved"
                       /\ back[key].change = "improved" <=> there[key].change = "regressed"
    <3> HIDE DEF there, back, K
    <3> QED
      BY <1>5, <2>1, Opposites DEF Outcomes
  <2> HIDE DEF there, back, K
  <2> QED
    BY <2>2, <2>3
<1> DEFINE means == [e \in E |-> MeanChange(MeanIn(base, e), MeanIn(cand, e))]
<1>8. [e \in E |-> MeanChange(MeanIn(cand, e), MeanIn(base, e))]
        = [e \in DOMAIN means |-> Opposite[means[e]]]
  <2>1. \A e \in E : MeanChange(MeanIn(cand, e), MeanIn(base, e))
                       = Opposite[MeanChange(MeanIn(base, e), MeanIn(cand, e))]
    BY MeanInType, MeanMirror
  <2> HIDE DEF E
  <2> QED
    BY <2>1
<1>9. {p \in Pins : cand.pins[p] # base.pins[p]} = {p \in Pins : base.pins[p] # cand.pins[p]}
  OBVIOUS
<1> HIDE DEF there, back, means, E, K, Those
<1>10. Compare(base, cand, align) =
        [warnings   |-> {p \in Pins : base.pins[p] # cand.pins[p]},
         evaluators |-> means, examples |-> there,
         regressed  |-> Cardinality(Those(there, "regressed")),
         improved   |-> Cardinality(Those(there, "improved"))]
  BY <1>3 DEF means
<1>11. Compare(cand, base, align) =
        [warnings   |-> {p \in Pins : base.pins[p] # cand.pins[p]},
         evaluators |-> [e \in DOMAIN means |-> Opposite[means[e]]],
         examples   |-> [k \in DOMAIN there |-> Turned(there[k])],
         regressed  |-> Cardinality(Those(there, "improved")),
         improved   |-> Cardinality(Those(there, "regressed"))]
  BY <1>4, <1>6, <1>7, <1>8, <1>9
<1>12. \A c : Mirror(c) =
        [warnings   |-> c.warnings,
         evaluators |-> [e \in DOMAIN c.evaluators |-> Opposite[c.evaluators[e]]],
         examples   |-> [k \in DOMAIN c.examples |-> Turned(c.examples[k])],
         regressed  |-> c.improved,
         improved   |-> c.regressed]
  BY DEF Mirror, Turned
<1> DEFINE c == Compare(base, cand, align)
<1>13. /\ c.warnings = {p \in Pins : base.pins[p] # cand.pins[p]}
       /\ c.evaluators = means /\ c.examples = there
       /\ c.regressed = Cardinality(Those(there, "regressed"))
       /\ c.improved = Cardinality(Those(there, "improved"))
  BY <1>10
<1> HIDE DEF c
<1> QED
  BY <1>11, <1>12, <1>13, Zenon DEF c

\* A run differs from itself in nothing.
LEMMA SelfUnchanged ==
    ASSUME NEW run, IsRun(run), NEW align \in {"identity", "positional"},
           NEW key \in Keys(run, align)
    PROVE  Example(run, run, key, align).change = "unchanged"
<1> DEFINE scores == Scores(run, key, align)
           changes == EvaluatorChanges(scores, scores)
<1>1. ~Refused(run, run, align)
  BY DEF Refused
<1>2. \A e : Score(scores, e) \in Nat \cup {Gap}
  BY <1>1, KeyFacts, ScoresFacts
<1>3. \A n \in Nat \cup {Gap} : Classify(n, n) = "unchanged"
  <2>1. \A n \in Nat : Distance(n, n) <= Epsilon
    BY GapFacts DEF Distance
  <2> QED
    BY <2>1, GapFacts DEF Classify, Change
<1>4. \A e \in DOMAIN changes : changes[e] = Classify(Score(scores, e), Score(scores, e))
  BY DEF EvaluatorChanges
<1>5. Example(run, run, key, align).change = Verdict(TRUE, TRUE, Range(changes))
  BY DEF Example
<1> HIDE DEF scores, changes
<1>6. "regressed" \notin Range(changes) /\ "improved" \notin Range(changes)
  BY <1>2, <1>3, <1>4 DEF Range
<1> QED
  BY <1>5, <1>6 DEF Verdict

-----------------------------------------------------------------------------
(* A mean that moves is accounted for by an example.                       *)

\* The score of an item, in a run that may have no result for it.
Value(run, i, e) == IF i \in DOMAIN run.results THEN Score(run.results[i], e) ELSE Gap

LEMMA ValueFacts ==
    ASSUME NEW run, IsRun(run), NEW e
    PROVE  /\ \A i : Value(run, i, e) \in Nat \cup {Gap}
           /\ \A i : Value(run, i, e) # Gap <=> i \in Scored(run, e)
           /\ \A i \in Scored(run, e) : Value(run, i, e) = run.results[i][e]
BY DEF Value, Score, Scored, IsRun

\* A run that has finished reports the mean of every evaluator that scored.
LEMMA ReportedMean ==
    ASSUME NEW run, IsRun(run), run.finished, NEW e
    PROVE  MeanIn(run, e) = Mean(run, e)
<1>1. CASE e \in Reported(run)
  BY <1>1 DEF MeanIn
<1>2. CASE e \notin Reported(run)
  <2>1. Scored(run, e) = {}
    BY <1>2 DEF Reported, Scored, Score
  <2>2. Mean(run, e).sum = 0 /\ Mean(run, e).of = 0
    BY <2>1, MeanFacts, SumEmpty, FS_EmptySet
  <2>3. Mean(run, e) = [sum |-> Mean(run, e).sum, of |-> Mean(run, e).of]
    BY DEF Mean
  <2> QED
    BY <1>2, <2>2, <2>3 DEF MeanIn, NoMean
<1> QED
  BY <1>1, <1>2

\* When no score of an evaluator fell by more than Epsilon, its mean has not either.
LEMMA MeanNotRegressed ==
    ASSUME NEW base, IsRun(base), NEW cand, IsRun(cand), NEW e,
           Scored(base, e) = Scored(cand, e),
           \A i \in Scored(base, e) : Value(base, i, e) <= Value(cand, i, e) + Epsilon
    PROVE  MeanChange(Mean(base, e), Mean(cand, e)) \notin {"regressed", "added", "removed"}
<1> DEFINE S == Scored(base, e)
           f == ScoresOfAll(base, e)
           g == ScoresOfAll(cand, e)
           n == Cardinality(S)
           B == Mean(base, e).sum
           A == Mean(cand, e).sum
<1>1. /\ IsFiniteSet(S) /\ n \in Nat /\ B \in Nat /\ A \in Nat
      /\ B = SumOver(f, S) /\ A = SumOver(g, S)
      /\ Mean(base, e).of = n /\ Mean(cand, e).of = n
  BY MeanFacts
<1>2. \A i \in S : f[i] \in Nat /\ g[i] \in Nat /\ f[i] <= g[i] + Epsilon
  <2>1. \A i \in S : f[i] \in Nat /\ g[i] \in Nat
    BY MeanFacts
  <2>2. \A i \in S : f[i] = Value(base, i, e) /\ g[i] = Value(cand, i, e)
    BY ValueFacts DEF ScoresOfAll
  <2> QED
    BY <2>1, <2>2
<1>3. B <= A + Epsilon * n
  BY <1>1, <1>2, GapFacts, SumWithin
<1> HIDE DEF A, B, n, S
<1>4. CASE n = 0
  BY <1>1, <1>4 DEF MeanChange
<1>5. CASE n # 0
  <2>1. /\ Mean(base, e).sum = B /\ Mean(cand, e).sum = A
        /\ MeanChange(Mean(base, e), Mean(cand, e)) = Change(B * n, A * n, Epsilon * n * n)
    BY <1>1, <1>5 DEF MeanChange, A, B
  <2> DEFINE slack == Epsilon * n * n
  <2>2. B * n \in Nat /\ A * n \in Nat /\ slack \in Nat
    BY <1>1, GapFacts, Products
  <2>3. B * n <= A * n + slack
    <3>1. \A x, y, z, w \in Nat : x <= y + z => x * w <= y * w + z * w
      OBVIOUS
    <3>2. Epsilon * n \in Nat
      BY <1>1, GapFacts, Products
    <3> QED
      BY <1>1, <1>3, <3>1, <3>2
  <2> HIDE DEF slack
  <2>4. \A x, y, z \in Nat : x <= y + z => Change(x, y, z) \in {"unchanged", "improved"}
    BY DEF Change, Distance
  <2> QED
    BY <2>1, <2>2, <2>3, <2>4 DEF slack
<1> QED
  BY <1>4, <1>5

\* Why the mean of an evaluator is lower, or new.
LEMMA MovedFor ==
    ASSUME NEW base, IsRun(base), base.finished, NEW cand, IsRun(cand), cand.finished, NEW e
    PROVE  LET moved == MeanChange(MeanIn(base, e), MeanIn(cand, e))
               class(i) == Classify(Value(base, i, e), Value(cand, i, e))
               I == DOMAIN base.results \cup DOMAIN cand.results
           IN  /\ moved = "regressed" => \E i \in I : class(i) \in {"regressed", "added", "removed"}
               /\ moved = "added" => \E i \in I : class(i) = "added"
<1> DEFINE moved == MeanChange(MeanIn(base, e), MeanIn(cand, e))
           class(i) == Classify(Value(base, i, e), Value(cand, i, e))
           I == DOMAIN base.results \cup DOMAIN cand.results
<1>1. moved = MeanChange(Mean(base, e), Mean(cand, e))
  BY ReportedMean
<1>2. Scored(base, e) \subseteq I /\ Scored(cand, e) \subseteq I
  BY DEF Scored
<1>3. \A i : /\ Value(base, i, e) \in Nat \cup {Gap} /\ Value(cand, i, e) \in Nat \cup {Gap}
             /\ Value(base, i, e) # Gap <=> i \in Scored(base, e)
             /\ Value(cand, i, e) # Gap <=> i \in Scored(cand, e)
  BY ValueFacts
<1> HIDE DEF I, moved
<1>4. ASSUME moved = "regressed", \A i \in I : class(i) \notin {"regressed", "added", "removed"}
      PROVE  FALSE
  <2>1. ASSUME NEW i, i \in Scored(base, e) \/ i \in Scored(cand, e)
        PROVE  /\ i \in Scored(base, e) /\ i \in Scored(cand, e)
               /\ Value(base, i, e) <= Value(cand, i, e) + Epsilon
    <3>1. class(i) \notin {"regressed", "added", "removed"}
      BY <1>2, <1>4, <2>1
    <3>2. Value(base, i, e) # Gap /\ Value(cand, i, e) # Gap
      BY <1>3, <2>1, <3>1 DEF Classify
    <3>3. class(i) = Change(Value(base, i, e), Value(cand, i, e), Epsilon)
      BY <3>2 DEF Classify
    <3>4. \A x, y, z \in Nat : Change(x, y, z) # "regressed" => x <= y + z
      BY DEF Change, Distance
    <3> QED
      BY <1>3, <3>1, <3>2, <3>3, <3>4, GapFacts
  <2>2. Scored(base, e) = Scored(cand, e)
    BY <2>1
  <2> QED
    BY <1>1, <1>4, <2>1, <2>2, MeanNotRegressed
<1>5. ASSUME moved = "added" PROVE \E i \in I : class(i) = "added"
  <2>1. Mean(base, e).of \in Nat /\ Mean(cand, e).of \in Nat
    BY MeanFacts
  <2>2. Mean(base, e).of = 0 /\ Mean(cand, e).of > 0
    <3>1. \A x, y, z : Change(x, y, z) # "added"
      BY DEF Change
    <3> QED
      BY <1>1, <1>5, <2>1, <3>1 DEF MeanChange
  <2>3. Scored(base, e) = {} /\ Scored(cand, e) # {}
    BY <2>2, MeanFacts, FS_EmptySet
  <2>4. PICK i : i \in Scored(cand, e)
    BY <2>3
  <2>5. Value(base, i, e) = Gap /\ Value(cand, i, e) # Gap
    BY <1>3, <2>3, <2>4
  <2> QED
    BY <1>2, <2>4, <2>5 DEF Classify
<1> QED
  BY <1>4, <1>5 DEF I, moved

\* What Accounted says of a comparison.
LEMMA MeansAccounted ==
    ASSUME NEW base, IsRun(base), NEW cand, IsRun(cand),
           NEW align \in {"identity", "positional"}, ~Refused(base, cand, align)
    PROVE  Accounted(base, cand, Compare(base, cand, align))
<1> DEFINE c == Compare(base, cand, align)
           I == DOMAIN base.results \cup DOMAIN cand.results
           K == Keys(base, align) \cup Keys(cand, align)
<1>1. /\ \A e \in DOMAIN c.evaluators :
             c.evaluators[e] = MeanChange(MeanIn(base, e), MeanIn(cand, e))
      /\ DOMAIN c.examples = K
      /\ \A k \in K : c.examples[k] = Example(base, cand, k, align)
  BY DEF Compare
<1> HIDE DEF c
<1> SUFFICES ASSUME base.finished, cand.finished,
                    NEW e \in DOMAIN c.evaluators, c.evaluators[e] # "unchanged"
             PROVE  \E k \in DOMAIN c.examples :
                        /\ e \in DOMAIN c.examples[k].evaluators
                        /\ c.examples[k].evaluators[e] \in Causes[c.evaluators[e]]
  BY DEF Accounted, c
<1> DEFINE moved == c.evaluators[e]
           class(i) == Classify(Value(base, i, e), Value(cand, i, e))
<1>2. moved = MeanChange(MeanIn(base, e), MeanIn(cand, e))
  BY <1>1
<1>3. \A i : /\ Value(base, i, e) \in Nat \cup {Gap} /\ Value(cand, i, e) \in Nat \cup {Gap}
  BY ValueFacts
<1>4. /\ Causes["regressed"] = {"regressed", "added", "removed"}
      /\ Causes["improved"] = {"improved", "added", "removed"}
      /\ Causes["added"] = {"added"} /\ Causes["removed"] = {"removed"}
  BY DEF Causes
<1>5. \E i \in I : class(i) \in Causes[moved]
  <2> DEFINE back == MeanChange(MeanIn(cand, e), MeanIn(base, e))
             other(i) == Classify(Value(cand, i, e), Value(base, i, e))
  <2>1. moved \in Outcomes /\ back = Opposite[moved]
    <3>1. /\ MeanIn(base, e).sum \in Nat /\ MeanIn(base, e).of \in Nat
          /\ MeanIn(cand, e).sum \in Nat /\ MeanIn(cand, e).of \in Nat
      BY MeanInType
    <3> QED
      BY <1>2, <3>1, MeanMirror
  <2>2. \A i : class(i) \in Outcomes /\ other(i) = Opposite[class(i)]
    BY <1>3, ClassifyMirror
  <2>3. /\ moved = "regressed" => \E i \in I : class(i) \in {"regressed", "added", "removed"}
        /\ moved = "added" => \E i \in I : class(i) = "added"
    BY <1>2, MovedFor
  <2>4. /\ back = "regressed" => \E i \in I : other(i) \in {"regressed", "added", "removed"}
        /\ back = "added" => \E i \in I : other(i) = "added"
    <3>1. DOMAIN cand.results \cup DOMAIN base.results = I
      OBVIOUS
    <3> QED
      BY <3>1, MovedFor
  <2> HIDE DEF moved, back, I, class, other
  <2>5. CASE moved = "regressed"
    BY <1>4, <2>3, <2>5
  <2>6. CASE moved = "added"
    BY <1>4, <2>3, <2>6
  <2>7. CASE moved = "improved"
    <3>1. PICK i \in I : other(i) \in {"regressed", "added", "removed"}
      BY <2>1, <2>4, <2>7, Opposites
    <3>2. class(i) \in {"improved", "added", "removed"}
      BY <2>2, <3>1, Opposites DEF Outcomes
    <3> QED
      BY <1>4, <2>7, <3>2
  <2>8. CASE moved = "removed"
    <3>1. PICK i \in I : other(i) = "added"
      BY <2>1, <2>4, <2>8, Opposites
    <3>2. class(i) = "removed"
      BY <2>2, <3>1, Opposites DEF Outcomes
    <3> QED
      BY <1>4, <2>8, <3>2
  <2> QED
    BY <2>1, <2>5, <2>6, <2>7, <2>8 DEF Outcomes, moved
<1>6. PICK i \in I : class(i) \in Causes[moved]
  BY <1>5
<1>7. PICK k : k = Key(base, i, align)
  OBVIOUS
<1>8. k = Key(cand, i, align) /\ Index(k) = i
  BY <1>7, KeyFacts
<1>9. /\ k \in Keys(base, align) <=> i \in DOMAIN base.results
      /\ k \in Keys(cand, align) <=> i \in DOMAIN cand.results
  <2>1. \A j : Index(Key(base, j, align)) = j /\ Index(Key(cand, j, align)) = j
    BY KeyFacts
  <2> QED
    BY <1>7, <1>8, <2>1 DEF Keys
<1>10. k \in K
  BY <1>6, <1>9
<1> DEFINE before == Scores(base, k, align)
           after == Scores(cand, k, align)
<1>11. Score(before, e) = Value(base, i, e) /\ Score(after, e) = Value(cand, i, e)
  <2>1. DOMAIN NoScores = {}
    BY DEF NoScores
  <2> QED
    BY <1>8, <1>9, <2>1 DEF Scores, Score, Value
<1>12. c.examples[k].evaluators = EvaluatorChanges(before, after)
  <2>1. Example(base, cand, k, align).evaluators = EvaluatorChanges(before, after)
    BY DEF Example
  <2> QED
    BY <1>1, <1>10, <2>1
<1> HIDE DEF before, after
<1>13. class(i) # "unchanged"
  <2>1. moved \in {"regressed", "improved", "added", "removed"}
    <3>1. /\ MeanIn(base, e).sum \in Nat /\ MeanIn(base, e).of \in Nat
          /\ MeanIn(cand, e).sum \in Nat /\ MeanIn(cand, e).of \in Nat
      BY MeanInType
    <3>2. MeanChange(MeanIn(base, e), MeanIn(cand, e)) \in Outcomes
      BY <3>1, MeanMirror
    <3> QED
      BY <1>2, <3>2 DEF Outcomes
  <2> HIDE DEF class
  <2> QED
    BY <1>4, <1>6, <2>1
<1>14. e \in DOMAIN before \cup DOMAIN after
  <2>1. CASE e \notin DOMAIN before /\ e \notin DOMAIN after
    <3>1. Score(before, e) = Gap /\ Score(after, e) = Gap
      BY <2>1 DEF Score
    <3> QED
      BY <1>11, <1>13, <3>1 DEF Classify
  <2> QED
    BY <2>1
<1>15. e \in DOMAIN c.examples[k].evaluators /\ c.examples[k].evaluators[e] = class(i)
  BY <1>11, <1>12, <1>14 DEF EvaluatorChanges
<1> QED
  BY <1>1, <1>6, <1>10, <1>15
-----------------------------------------------------------------------------
(* The difference of two versions.                                         *)

\* What the two diffs have in common: each key of either side, with both sides.
Records(diffs, before, after) ==
    /\ DOMAIN diffs = DOMAIN before \cup DOMAIN after
    /\ \A k \in DOMAIN diffs :
          /\ diffs[k].from = Side(before, k) /\ diffs[k].to = Side(after, k)
          /\ diffs[k].change = "added" <=> k \notin DOMAIN before
          /\ diffs[k].change = "removed" <=> k \notin DOMAIN after

LEMMA DiffsRecord ==
    ASSUME NEW before, NEW after
    PROVE  /\ Records(diff_messages(before, after), before, after)
           /\ Records(diff_parameters(before, after), before, after)
<1> DEFINE m == diff_messages(before, after)
           p == diff_parameters(before, after)
<1>1. /\ DOMAIN m = DOMAIN before \cup DOMAIN after
      /\ \A k \in DOMAIN m :
            /\ m[k].from = Side(before, k) /\ m[k].to = Side(after, k)
            /\ m[k].change = ChangeKind(k \in DOMAIN before, k \in DOMAIN after, before[k] = after[k])
  BY DEF diff_messages
<1>2. /\ DOMAIN p = DOMAIN before \cup DOMAIN after
      /\ \A k \in DOMAIN p :
            /\ p[k].from = Side(before, k) /\ p[k].to = Side(after, k)
            /\ p[k].change = ChangeKind(k \in DOMAIN before, k \in DOMAIN after,
                                       Same(before[k], after[k]))
  BY DEF diff_parameters
<1> HIDE DEF m, p
<1>3. Records(m, before, after)
  BY <1>1 DEF Records, ChangeKind
<1>4. Records(p, before, after)
  BY <1>2 DEF Records, ChangeKind
<1> QED
  BY <1>3, <1>4 DEF m, p

\* Both sides can be read back.
LEMMA SidesRead ==
    ASSUME NEW before, NEW after, IsFunction(before), IsFunction(after),
           NEW diffs, Records(diffs, before, after)
    PROVE  Old(diffs) = before /\ New(diffs) = after
<1>1. {k \in DOMAIN diffs : diffs[k].change # "added"} = DOMAIN before
  BY DEF Records
<1>2. {k \in DOMAIN diffs : diffs[k].change # "removed"} = DOMAIN after
  BY DEF Records
<1>3. \A k \in DOMAIN before : diffs[k].from = before[k]
  BY DEF Records, Side
<1>4. \A k \in DOMAIN after : diffs[k].to = after[k]
  BY DEF Records, Side
<1>5. Old(diffs) = [k \in DOMAIN before |-> before[k]]
  BY <1>1, <1>3 DEF Old
<1>6. New(diffs) = [k \in DOMAIN after |-> after[k]]
  BY <1>2, <1>4 DEF New
<1> QED
  BY <1>5, <1>6 DEF IsFunction

\* A diff, from the other side.
LEMMA DiffsTurn ==
    ASSUME NEW before, NEW after
    PROVE  /\ diff_messages(after, before) = Backwards(diff_messages(before, after))
           /\ diff_parameters(after, before) = Backwards(diff_parameters(before, after))
<1> DEFINE K == DOMAIN before \cup DOMAIN after
<1>1. \A k \in K : ChangeKind(k \in DOMAIN after, k \in DOMAIN before, after[k] = before[k])
                    = Undoing(ChangeKind(k \in DOMAIN before, k \in DOMAIN after, before[k] = after[k]))
  BY DEF ChangeKind, Undoing
<1>2. \A k \in K : ChangeKind(k \in DOMAIN after, k \in DOMAIN before, Same(after[k], before[k]))
                    = Undoing(ChangeKind(k \in DOMAIN before, k \in DOMAIN after,
                                         Same(before[k], after[k])))
  BY DEF ChangeKind, Undoing, Same
<1>3. DOMAIN after \cup DOMAIN before = K
  OBVIOUS
<1>4. diff_messages(after, before) = Backwards(diff_messages(before, after))
  BY <1>1, <1>3 DEF diff_messages, Backwards
<1>5. diff_parameters(after, before) = Backwards(diff_parameters(before, after))
  BY <1>2, <1>3 DEF diff_parameters, Backwards
<1> QED
  BY <1>4, <1>5

LEMMA TurnedUnchanged ==
    ASSUME NEW diffs
    PROVE  AllUnchanged(Backwards(diffs)) <=> AllUnchanged(diffs)
<1>1. \A k \in DOMAIN diffs : Undoing(diffs[k].change) = "unchanged" <=> diffs[k].change = "unchanged"
  BY DEF Undoing
<1>2. /\ DOMAIN Backwards(diffs) = DOMAIN diffs
      /\ \A k \in DOMAIN diffs : Backwards(diffs)[k].change = Undoing(diffs[k].change)
  BY DEF Backwards
<1> QED
  BY <1>1, <1>2 DEF AllUnchanged

\* What it takes for nothing to have changed.
LEMMA UnchangedMessages ==
    ASSUME NEW before, NEW after, IsFunction(before), IsFunction(after)
    PROVE  AllUnchanged(diff_messages(before, after)) <=> before = after
<1> DEFINE m == diff_messages(before, after)
<1>1. /\ DOMAIN m = DOMAIN before \cup DOMAIN after
      /\ \A k \in DOMAIN m :
            m[k].change = ChangeKind(k \in DOMAIN before, k \in DOMAIN after, before[k] = after[k])
  BY DEF diff_messages
<1> HIDE DEF m
<1>2. ASSUME AllUnchanged(m) PROVE before = after
  <2>1. DOMAIN before = DOMAIN after /\ \A k \in DOMAIN before : before[k] = after[k]
    BY <1>1, <1>2 DEF AllUnchanged, ChangeKind
  <2> QED
    BY <2>1 DEF IsFunction
<1>3. ASSUME before = after PROVE AllUnchanged(m)
  BY <1>1, <1>3 DEF AllUnchanged, ChangeKind
<1> QED
  BY <1>2, <1>3 DEF m

LEMMA UnchangedParameters ==
    ASSUME NEW before, NEW after
    PROVE  AllUnchanged(diff_parameters(before, after))
             <=> /\ DOMAIN before = DOMAIN after
                 /\ \A k \in DOMAIN before : Same(before[k], after[k])
<1> DEFINE p == diff_parameters(before, after)
<1>1. /\ DOMAIN p = DOMAIN before \cup DOMAIN after
      /\ \A k \in DOMAIN p :
            p[k].change = ChangeKind(k \in DOMAIN before, k \in DOMAIN after,
                                     Same(before[k], after[k]))
  BY DEF diff_parameters
<1> HIDE DEF p
<1> QED
  BY <1>1 DEF AllUnchanged, ChangeKind, p

-----------------------------------------------------------------------------
(* The calls.                                                              *)

\* A call is one of the inputs, and its result, when it has one, is what the
\* calculation gives for it.
CalculationsInv ==
    /\ \/ call.of = "compare" /\ call.in \in Comparisons
       \/ call.of = "differ" /\ call.in \in Diffs
       \/ call.of = "retrieve" /\ call.in \in Retrievals
       \/ call.of = "map" /\ call.in \in Spans
    /\ result.of = "comparison" =>
         /\ call.of = "compare" /\ ~Refused(call.in.base, call.in.cand, call.in.align)
         /\ result.is = Compare(call.in.base, call.in.cand, call.in.align)
    /\ result.of = "diff" =>
         /\ call.of = "differ"
         /\ \A ref \in {call.in.from, call.in.to} : Resolvable(call.in.prompt, ref)
         /\ result.from = resolve_version(call.in.prompt, call.in.from)
         /\ result.to = resolve_version(call.in.prompt, call.in.to)
         /\ result.is = diff_versions(call.in.prompt.versions[result.from],
                                      call.in.prompt.versions[result.to])
    /\ result.of = "scores" =>
         call.of = "retrieve" /\ result.are = Scores3(call.in.item, call.in.config)
    /\ result.of = "row" =>
         call.of = "map" /\ ~RefusedBySchema(call.in) /\ result.is = to_span_ingest(call.in)

\* Each calculation answers its own call, and its answer stays.
THEOREM CalculationsInvHolds == Spec => []CalculationsInv
<1>1. Init => CalculationsInv
  BY DEF Init, Pending, CalculationsInv
<1>2. CalculationsInv /\ [Next]_vars => CalculationsInv'
  <2> SUFFICES ASSUME CalculationsInv, [Next]_vars PROVE CalculationsInv'
    OBVIOUS
  <2>1. CASE RefuseComparison
    BY <2>1 DEF RefuseComparison, Return, CalculationsInv
  <2>2. CASE CompareRuns
    BY <2>2 DEF CompareRuns, Return, CalculationsInv
  <2>3. CASE Measure
    BY <2>3 DEF Measure, Return, CalculationsInv
  <2>4. CASE RejectSpan
    BY <2>4 DEF RejectSpan, Return, CalculationsInv
  <2>5. CASE MapSpan
    BY <2>5 DEF MapSpan, Return, CalculationsInv
  <2>6. CASE RefuseDiff
    BY <2>6 DEF RefuseDiff, Return, CalculationsInv
  <2>7. CASE DiffVersions
    BY <2>7 DEF DiffVersions, Return, CalculationsInv
  <2>8. CASE UNCHANGED vars
    BY <2>8 DEF vars, CalculationsInv
  <2> QED
    BY <2>1, <2>2, <2>3, <2>4, <2>5, <2>6, <2>7, <2>8 DEF Next
<1> QED
  BY <1>1, <1>2, PTL DEF Spec

\* A comparison takes no side, finds no change between a run and itself, and accounts
\* for every mean that moved by an example (comparison.py:120, :159, :235).
LEMMA RunsAreComparedFairly == CalculationsInv => RunsComparedFairly
<1>1. CalculationsInv => RunsComparedFairly
  <2> SUFFICES ASSUME CalculationsInv, result.of = "comparison" PROVE RunsComparedFairly
    BY DEF RunsComparedFairly
  <2> DEFINE base == call.in.base
             cand == call.in.cand
             align == call.in.align
  <2>1. /\ call.in \in Comparisons /\ ~Refused(base, cand, align)
        /\ result.is = Compare(base, cand, align)
    BY DEF CalculationsInv
  <2>2. IsRun(base) /\ IsRun(cand) /\ align \in {"identity", "positional"}
    BY <2>1, CalculationsAssumption
  <2> HIDE DEF base, cand, align
  <2>3. Compare(cand, base, align) = Mirror(result.is)
    BY <2>1, <2>2, ComparesBothWays
  <2>4. Accounted(base, cand, result.is)
    BY <2>1, <2>2, MeansAccounted
  <2>5. ASSUME base = cand, NEW k \in DOMAIN result.is.examples
        PROVE  result.is.examples[k].change = "unchanged"
    <3>1. k \in Keys(base, align) /\ result.is.examples[k] = Example(base, base, k, align)
      BY <2>1, <2>5 DEF Compare
    <3> QED
      BY <2>2, <3>1, SelfUnchanged
  <2> QED
    BY <2>3, <2>4, <2>5 DEF RunsComparedFairly, base, cand, align
<1> QED
  BY <1>1

\* Both versions can be read back from a diff, its other direction is its reverse, it
\* says that nothing has changed just when at most types have, and a label that is no
\* number stands for its version (diffing.py:99, :116, :141, prompts.py:206).
LEMMA DiffsTellAll == CalculationsInv => DiffTellsAll
<1>1. CalculationsInv => DiffTellsAll
  <2> SUFFICES ASSUME CalculationsInv, result.of = "diff" PROVE DiffTellsAll
    BY DEF DiffTellsAll
  <2> DEFINE prompt == call.in.prompt
             before == prompt.versions[result.from]
             after == prompt.versions[result.to]
             bm == before.messages
             am == after.messages
             bp == before.parameters
             ap == after.parameters
             d == result.is
             back == diff_versions(after, before)
  <2>1. /\ call.in \in Diffs /\ Resolvable(prompt, call.in.from) /\ Resolvable(prompt, call.in.to)
        /\ result.from = resolve_version(prompt, call.in.from)
        /\ result.to = resolve_version(prompt, call.in.to)
        /\ d = diff_versions(before, after)
    BY DEF CalculationsInv
  <2>2. IsPrompt(prompt)
    BY <2>1, CalculationsAssumption
  <2>3. result.from \in DOMAIN prompt.versions /\ result.to \in DOMAIN prompt.versions
    BY <2>1, <2>2 DEF IsPrompt, Resolvable, resolve_version, Range
  <2>4. IsFunction(bm) /\ IsFunction(am) /\ IsFunction(bp) /\ IsFunction(ap)
    BY <2>2, <2>3 DEF IsPrompt
  <2>5. /\ d.messages = diff_messages(bm, am) /\ d.parameters = diff_parameters(bp, ap)
    BY <2>1 DEF diff_versions
  <2>6. /\ back.messages = diff_messages(am, bm) /\ back.parameters = diff_parameters(ap, bp)
        /\ back.identical = (AllUnchanged(back.messages) /\ AllUnchanged(back.parameters))
    BY DEF diff_versions
  <2>7. d.identical = (AllUnchanged(d.messages) /\ AllUnchanged(d.parameters))
    BY <2>1 DEF diff_versions
  <2>8. content_hash(before) = content_hash(after) => bm = am /\ bp = ap
    BY DEF content_hash
  <2>9. \A label \in DOMAIN prompt.labels \ DOMAIN Numeral :
           /\ call.in.from = label => result.from = prompt.labels[label]
           /\ call.in.to = label => result.to = prompt.labels[label]
    BY <2>1 DEF resolve_version
  <2> HIDE DEF bm, am, bp, ap, d, back
  <2>10. Old(d.messages) = bm /\ New(d.messages) = am
    BY <2>4, <2>5, DiffsRecord, SidesRead
  <2>11. Old(d.parameters) = bp /\ New(d.parameters) = ap
    BY <2>4, <2>5, DiffsRecord, SidesRead
  <2>12. back.messages = Backwards(d.messages) /\ back.parameters = Backwards(d.parameters)
    BY <2>5, <2>6, DiffsTurn
  <2>13. back.identical = d.identical
    BY <2>6, <2>7, <2>12, TurnedUnchanged
  <2>14. d.identical <=> /\ bm = am /\ DOMAIN bp = DOMAIN ap
                         /\ \A k \in DOMAIN bp : Same(bp[k], ap[k])
    <3>1. AllUnchanged(d.messages) <=> bm = am
      BY <2>4, <2>5, UnchangedMessages
    <3>2. AllUnchanged(d.parameters) <=> /\ DOMAIN bp = DOMAIN ap
                                         /\ \A k \in DOMAIN bp : Same(bp[k], ap[k])
      BY <2>5, UnchangedParameters
    <3> QED
      BY <2>7, <3>1, <3>2
  <2>15. content_hash(before) = content_hash(after) => d.identical
    BY <2>8, <2>14 DEF Same
  <2> HIDE DEF before, after, prompt
  <2> QED
    BY <2>9, <2>10, <2>11, <2>12, <2>13, <2>14, <2>15
       DEF DiffTellsAll, bm, am, bp, ap, d, back, before, after, prompt
<1> QED
  BY <1>1

\* The comparison of two runs, as that of two versions, takes no side and leaves out
\* no difference (comparison.py:120, diffing.py:141).
THEOREM ComparisonsAreFair == Spec => []ComparisonIsFair
<1>1. CalculationsInv => ComparisonIsFair
  BY RunsAreComparedFairly, DiffsTellAll DEF ComparisonIsFair
<1> QED
  BY <1>1, CalculationsInvHolds, PTL

\* The three scores of an item tell one story, and reading further down the list
\* loses neither recall nor rank (retrieval.py:75, :94, :105, :133, :157).
THEOREM RetrievalScoresTellOneStory == Spec => []RetrievalScoresAgree
<1>1. CalculationsInv => RetrievalScoresAgree
  <2> SUFFICES ASSUME CalculationsInv, result.of = "scores" PROVE RetrievalScoresAgree
    BY DEF RetrievalScoresAgree
  <2> DEFINE item == call.in.item
             config == call.in.config
             s == Scores3(item, config)
             hit == s.precision # Unscoreable /\ s.precision.num > 0
  <2>1. call.in \in Retrievals /\ result.are = s
    BY DEF CalculationsInv
  <2>2. /\ IsListing(item.retrieved) /\ IsListing(item.expected)
        /\ config \in [k : Nat, normalise : BOOLEAN] /\ config.k \in Nat
    BY <2>1, CalculationsAssumption
  <2> HIDE DEF item, config
  <2>3. CASE Extractable(item)
    <3>1. /\ \A score \in Range(s) : score = Unscoreable \/ InRange(score)
          /\ hit <=> s.mrr # Unscoreable /\ s.mrr.num > 0
          /\ hit => s.recall # Unscoreable
          /\ s.recall # Unscoreable =>
               /\ hit <=> s.recall.num > 0
               /\ s.recall.num = s.recall.den <=> Missed(item, config) = {}
      BY <2>2, <2>3, ScoresTell
    <3>2. ASSUME NEW k \in 0..Len(item.retrieved), ReadsOn(config.k, k)
          PROVE  LET further == Scores3(item, [config EXCEPT !.k = k])
                 IN  /\ s.recall # Unscoreable => AtMost(s.recall, further.recall)
                     /\ AtMost(s.mrr, further.mrr)
      <4>1. k \in Nat /\ k <= Len(item.retrieved)
        <5>1. Len(item.retrieved) \in Nat
          BY <2>2, <2>3, WordsFacts DEF Extractable
        <5> QED
          BY <5>1
      <4> QED
        BY <2>2, <2>3, <3>2, <4>1, ScoresGrow
    <3> HIDE DEF s
    <3> QED
      BY <2>1, <3>1, <3>2 DEF RetrievalScoresAgree, item, config
  <2>4. CASE ~Extractable(item)
    <3>1. s = [precision |-> Unscoreable, recall |-> Unscoreable, mrr |-> Unscoreable]
      BY <2>4 DEF Scores3, Precision, Recall, ReciprocalRank
    <3>2. /\ s.precision = Unscoreable /\ s.recall = Unscoreable /\ s.mrr = Unscoreable
          /\ \A score \in Range(s) : score = Unscoreable
      BY <3>1 DEF Range
    <3> HIDE DEF s
    <3> QED
      BY <2>1, <3>2 DEF RetrievalScoresAgree
  <2> QED
    BY <2>3, <2>4
<1> QED
  BY <1>1, CalculationsInvHolds, PTL

\* No attribute with a value is lost or stored twice but where the code says so, and
\* where a later key of the same field of a message, or what the metadata says of the
\* span's origin, is written over it (genai.py:20, :202, :253, :279, :293-299).
THEOREM AttributesAreNotLost == Spec => []NoAttributeLost
<1>1. CalculationsInv => NoAttributeLost
  <2> SUFFICES ASSUME CalculationsInv, result.of = "row" PROVE NoAttributeLost
    BY DEF NoAttributeLost
  <2>1. call.in \in Spans /\ result.is = to_span_ingest(call.in)
    BY DEF CalculationsInv
  <2>2. PICK span \in Spans : span = call.in
    BY <2>1
  <2>3. result.is = to_span_ingest(span)
    BY <2>1, <2>2
  <2>4. span.order \in Seq(DOMAIN span.attributes) /\ ToSet(span.order) = DOMAIN span.attributes
    BY <2>2, CalculationsAssumption
  <2> QED
    BY <2>2, <2>3, <2>4, AttributesKept DEF NoAttributeLost
<1> QED
  BY <1>1, CalculationsInvHolds, PTL
=============================================================================
