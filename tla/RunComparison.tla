---------------------------- MODULE RunComparison ----------------------------
(***************************************************************************)
(* compare_runs: two evaluation runs side by side, example by example and  *)
(* evaluator by evaluator. A run is its pins, the scores of its results by *)
(* the index of their item, and whether it has finished: a run that has    *)
(* not lacks results, and the means, which its last step writes. A result  *)
(* that errored has no scores; an evaluator may have left a gap.           *)
(***************************************************************************)
EXTENDS Integers, Sequences, FiniteSets, FiniteSetsExt, Functions

CONSTANTS
    Gap,       \* no score: the example could not be scored
    Epsilon    \* a difference that is no change

ASSUME RunComparisonAssumption == Epsilon \in Nat /\ Gap \notin Int

Pins == {"dataset", "prompt", "rubric", "model"}

\* What is compared: scores are numbers from 0 on, and there are finitely many.
IsRun(run) ==
    /\ IsFiniteSet(DOMAIN run.results)
    /\ \A i \in DOMAIN run.results : \A e \in DOMAIN run.results[i] :
           run.results[i][e] \in Nat \cup {Gap}

Distance(a, b) == IF a > b THEN a - b ELSE b - a

Change(before, after, slack) ==
    IF Distance(before, after) <= slack THEN "unchanged"
    ELSE IF after > before THEN "improved" ELSE "regressed"

\* _classify.
Classify(before, after) ==
    CASE before = Gap /\ after = Gap -> "unchanged"
      [] before = Gap /\ after # Gap -> "added"
      [] before # Gap /\ after = Gap -> "removed"
      [] OTHER -> Change(before, after, Epsilon)

-----------------------------------------------------------------------------
(* _compare_examples. An item belongs to one version of a dataset, and has *)
(* one index there.                                                        *)

Key(run, i, align) == IF align = "identity" THEN <<run.pins["dataset"], i>> ELSE <<i>>
Index(key) == key[Len(key)]
Keys(run, align) == {Key(run, i, align) : i \in DOMAIN run.results}

NoScores == [e \in {} |-> Gap]
Scores(run, key, align) ==
    IF key \in Keys(run, align) THEN run.results[Index(key)] ELSE NoScores
Score(scores, e) == IF e \in DOMAIN scores THEN scores[e] ELSE Gap

EvaluatorChanges(before, after) ==
    [e \in DOMAIN before \cup DOMAIN after |-> Classify(Score(before, e), Score(after, e))]

\* Mutant: an example that both won and lost has won.
Verdict_optimistic(inBase, inCand, changes) ==
    CASE "improved" \in changes -> "improved"
      [] "regressed" \in changes -> "regressed"
      [] OTHER -> CASE ~inBase -> "added" [] ~inCand -> "removed" [] OTHER -> "unchanged"

\* An example that has won here and lost there is no verdict.
Verdict(inBase, inCand, changes) ==
    CASE "regressed" \in changes /\ "improved" \notin changes -> "regressed"
      [] "improved" \in changes /\ "regressed" \notin changes -> "improved"
      [] OTHER -> CASE ~inBase -> "added" [] inBase /\ ~inCand -> "removed" [] OTHER -> "unchanged"

Example(base, cand, key, align) ==
    LET changes == EvaluatorChanges(Scores(base, key, align), Scores(cand, key, align))
    IN  [evaluators |-> changes,
         change     |-> Verdict(key \in Keys(base, align), key \in Keys(cand, align), Range(changes))]

-----------------------------------------------------------------------------
(* _compare_aggregates. A mean is the sum of the scores that are no gap,   *)
(* and their number; an unfinished run has none.                           *)

Scored(run, e) == {i \in DOMAIN run.results : Score(run.results[i], e) # Gap}
Mean(run, e) ==
    LET scores == [i \in Scored(run, e) |-> run.results[i][e]]
    IN  [sum |-> MapThenSumSet(LAMBDA i : scores[i], Scored(run, e)),
         of  |-> Cardinality(Scored(run, e))]
Reported(run) ==
    IF run.finished THEN UNION {DOMAIN run.results[i] : i \in DOMAIN run.results} ELSE {}
NoMean == [sum |-> 0, of |-> 0]
MeanIn(run, e) == IF e \in Reported(run) THEN Mean(run, e) ELSE NoMean

MeanChange(before, after) ==
    CASE before.of = 0 /\ after.of = 0 -> "unchanged"
      [] before.of = 0 /\ after.of > 0 -> "added"
      [] before.of > 0 /\ after.of = 0 -> "removed"
      [] OTHER -> Change(before.sum * after.of, after.sum * before.of,
                         Epsilon * before.of * after.of)

\* compare_runs: a conflict, or the comparison with its warnings.
Refused(base, cand, align) == align = "identity" /\ base.pins["dataset"] # cand.pins["dataset"]

Compare(base, cand, align) ==
    LET examples == [key \in Keys(base, align) \cup Keys(cand, align) |->
                        Example(base, cand, key, align)]
        Having(change) == Cardinality({k \in DOMAIN examples : examples[k].change = change})
    IN  [warnings   |-> {p \in Pins : base.pins[p] # cand.pins[p]},
         evaluators |-> [e \in Reported(base) \cup Reported(cand) |->
                            MeanChange(MeanIn(base, e), MeanIn(cand, e))],
         examples   |-> examples,
         regressed  |-> Having("regressed"),
         improved   |-> Having("improved")]

-----------------------------------------------------------------------------
(* What a comparison has to be.                                            *)

Opposite == [improved |-> "regressed", regressed |-> "improved", added |-> "removed",
             removed |-> "added", unchanged |-> "unchanged"]

\* The same comparison, read from the candidate to the baseline.
Mirror(c) ==
    [warnings   |-> c.warnings,
     evaluators |-> [e \in DOMAIN c.evaluators |-> Opposite[c.evaluators[e]]],
     examples   |-> [k \in DOMAIN c.examples |->
                       [evaluators |-> [e \in DOMAIN c.examples[k].evaluators |->
                                           Opposite[c.examples[k].evaluators[e]]],
                        change |-> Opposite[c.examples[k].change]]],
     regressed  |-> c.improved,
     improved   |-> c.regressed]

\* What an evaluator did on an example, when that is why its mean has moved.
Causes == [regressed |-> {"regressed", "added", "removed"},
           improved  |-> {"improved", "added", "removed"},
           added     |-> {"added"}, removed |-> {"removed"}]

\* The two have finished: a mean that moved is accounted for by an example.
Accounted(base, cand, c) ==
    base.finished /\ cand.finished =>
        \A e \in DOMAIN c.evaluators :
            c.evaluators[e] # "unchanged" =>
                \E k \in DOMAIN c.examples :
                    /\ e \in DOMAIN c.examples[k].evaluators
                    /\ c.examples[k].evaluators[e] \in Causes[c.evaluators[e]]
=============================================================================
