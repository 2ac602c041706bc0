----------------------------- MODULE ReviewQueue -----------------------------
(***************************************************************************)
(* The review queue of a project and the dataset its labelled items are    *)
(* promoted into: people label and skip items while others promote them,   *)
(* upload versions of the dataset or delete it. A request reads in one     *)
(* step and writes in a later one, in a READ COMMITTED transaction without *)
(* row locks; only the numbering of dataset versions is locked.            *)
(***************************************************************************)
EXTENDS Naturals, Sequences, FiniteSets, SequencesExt

CONSTANTS
    Items,      \* review items, of distinct traces
    WithOutput, \* those whose snapshot has the model's output
    Controls,   \* those of the control sample: no check had found anything
    Reviewers, Promoters, Uploaders,  \* requests
    MaxExamples \* the most examples a dataset version may have

ASSUME ReviewQueueAssumption ==
    /\ IsFiniteSet(Items)
    /\ WithOutput \subseteq Items
    /\ Controls \subseteq Items
    /\ "upload" \notin Items  \* what an uploaded example is made of
    /\ MaxExamples \in Nat \ {0}

Verdicts == {"good", "bad"}
Unlabeled == "none"

VARIABLES
    item,      \* the rows of review_items
    exists,    \* the dataset
    versions,  \* its versions, each the sequence of its examples
    pinned,    \* an eval run refers to one of them
    pc,        \* where each request stands
    saw,       \* the items a request has read, as it read them
    want,      \* the label a reviewer gives
    base,      \* the examples a promotion carries forward
    contested  \* history: items that two promotions have held at once

vars == <<item, exists, versions, pinned, pc, saw, want, base, contested>>
dataset == <<exists, versions, pinned>>
locals == <<saw, want, base>>

Requests == Reviewers \cup Promoters \cup Uploaders
Ended == {"done", "refused"}

\* An example made of review item i, with the label it was read with.
FromItem(i, row) == [item |-> i, verdict |-> row.verdict, corrected |-> row.corrected]
Uploaded == [item |-> "upload", verdict |-> "none", corrected |-> FALSE]

NoSnapshot == [i \in {} |-> {}]

Init ==
    /\ item = [i \in Items |-> [status |-> "pending", verdict |-> Unlabeled,
                                corrected |-> FALSE, promoted |-> 0]]
    /\ exists = TRUE
    /\ versions = <<>>
    /\ pinned = FALSE
    /\ pc = [r \in Requests |-> "new"]
    /\ saw = [r \in Requests |-> NoSnapshot]
    /\ want = [r \in Reviewers |-> [verdict |-> Unlabeled, corrected |-> FALSE]]
    /\ base = [r \in Promoters |-> <<>>]
    /\ contested = {}

Goto(r, from, to) == pc[r] = from /\ pc' = [pc EXCEPT ![r] = to]
Snapshot(S) == [i \in S |-> item[i]]

-----------------------------------------------------------------------------
(* Labels.                                                                 *)

\* Mutant: the check that the item is not promoted is forgotten.
ReadToLabel_unchecked(r, i) ==
    /\ Goto(r, "new", "labeling")
    /\ saw' = [saw EXCEPT ![r] = Snapshot({i})]
    /\ \E v \in Verdicts, c \in BOOLEAN : want' = [want EXCEPT ![r] = [verdict |-> v, corrected |-> c]]
    /\ UNCHANGED <<item, dataset, base, contested>>

ReadToLabel(r, i) ==
    /\ item[i].promoted = 0
    /\ Goto(r, "new", "labeling")
    /\ saw' = [saw EXCEPT ![r] = Snapshot({i})]
    /\ \E v \in Verdicts, c \in BOOLEAN : want' = [want EXCEPT ![r] = [verdict |-> v, corrected |-> c]]
    /\ UNCHANGED <<item, dataset, base, contested>>

LabelRefused(r, i) ==
    /\ item[i].promoted # 0
    /\ Goto(r, "new", "refused")
    /\ UNCHANGED <<item, dataset, locals, contested>>

\* The flush writes the columns that differ from what was read, and no others.
Column(was, seen, new) == IF new = seen THEN was ELSE new

WriteLabel(r) ==
    /\ Goto(r, "labeling", "done")
    /\ \E i \in DOMAIN saw[r] :
          item' = [item EXCEPT
              ![i].status = Column(@, saw[r][i].status, "labeled"),
              ![i].verdict = Column(@, saw[r][i].verdict, want[r].verdict),
              ![i].corrected = Column(@, saw[r][i].corrected, want[r].corrected)]
    /\ UNCHANGED <<dataset, locals, contested>>

\* skip_item has no check: any item can be skipped, at any time.
ReadToSkip(r, i) ==
    /\ Goto(r, "new", "skipping")
    /\ saw' = [saw EXCEPT ![r] = Snapshot({i})]
    /\ UNCHANGED <<item, dataset, want, base, contested>>

WriteSkip(r) ==
    /\ Goto(r, "skipping", "done")
    /\ \E i \in DOMAIN saw[r] :
          item' = [item EXCEPT ![i].status = Column(@, saw[r][i].status, "skipped")]
    /\ UNCHANGED <<dataset, locals, contested>>

Review(r) ==
    \/ \E i \in Items : ReadToLabel(r, i) \/ LabelRefused(r, i) \/ ReadToSkip(r, i)
    \/ WriteLabel(r) \/ WriteSkip(r)

-----------------------------------------------------------------------------
(* promote_items                                                           *)

Promoting(r) == r \in Promoters /\ pc[r] \in {"selected", "carrying"}

Promotable(S) == \A i \in S : item[i].status = "labeled" /\ item[i].promoted = 0

SelectItems(r) ==
    /\ Goto(r, "new", "selected")
    /\ \E S \in (SUBSET Items) \ {{}} :
          /\ Promotable(S)
          /\ saw' = [saw EXCEPT ![r] = Snapshot(S)]
          /\ contested' = contested \cup
                (S \cap UNION {DOMAIN saw[q] : q \in {q \in Promoters : Promoting(q)}})
    /\ UNCHANGED <<item, dataset, want, base>>

\* The expected output is the correction of a bad item, the output of a good one.
HasExpected(i, row) == IF row.verdict = "bad" THEN row.corrected ELSE i \in WithOutput

\* The latest version's examples, none of a dataset without versions.
Latest == IF versions = <<>> THEN <<>> ELSE Last(versions)

\* They are read, to be carried forward.
CarryForward(r) ==
    /\ exists
    /\ \A i \in DOMAIN saw[r] : HasExpected(i, saw[r][i])
    /\ Goto(r, "selected", "carrying")
    /\ base' = [base EXCEPT ![r] = Latest]
    /\ UNCHANGED <<item, dataset, saw, want, contested>>

NewExamples(r) == [n \in 1..Cardinality(DOMAIN saw[r]) |->
    LET i == SetToSeq(DOMAIN saw[r])[n] IN FromItem(i, saw[r][i])]

\* Mutant: the items are not stamped.
AppendPromoted_unstamped(r) ==
    /\ exists
    /\ Goto(r, "carrying", "done")
    /\ Len(base[r]) + Cardinality(DOMAIN saw[r]) <= MaxExamples
    /\ versions' = Append(versions, base[r] \o NewExamples(r))
    /\ UNCHANGED <<item, exists, pinned, locals, contested>>
\* Under the lock of the dataset's row: number the version, insert it, stamp
\* the items, commit.
AppendPromoted(r) ==
    /\ exists
    /\ Goto(r, "carrying", "done")
    /\ Len(base[r]) + Cardinality(DOMAIN saw[r]) <= MaxExamples
    /\ versions' = Append(versions, base[r] \o NewExamples(r))
    /\ item' = [i \in Items |-> IF i \in DOMAIN saw[r]
                                  THEN [item[i] EXCEPT !.promoted = Len(versions')]
                                  ELSE item[i]]
    /\ UNCHANGED <<exists, pinned, locals, contested>>

\* A check fails, the version is too large, the dataset is gone, or the
\* process dies: nothing is committed.
Refuse(r) ==
    /\ pc[r] \notin Ended
    /\ pc' = [pc EXCEPT ![r] = "refused"]
    /\ UNCHANGED <<item, dataset, locals, contested>>

Promote(r) == SelectItems(r) \/ CarryForward(r) \/ AppendPromoted(r)

-----------------------------------------------------------------------------
(* The dataset.                                                            *)

UploadVersion(r) ==
    /\ exists
    /\ Goto(r, "new", "done")
    /\ versions' = Append(versions, <<Uploaded>>)
    /\ UNCHANGED <<item, exists, pinned, locals, contested>>

PinVersion ==
    /\ versions # <<>>
    /\ ~pinned
    /\ pinned' = TRUE
    /\ UNCHANGED <<item, exists, versions, pc, locals, contested>>

\* Mutant: ON DELETE SET NULL, or no foreign key, instead of RESTRICT.
DeleteDataset_unrestricted ==
    /\ exists
    /\ exists' = FALSE
    /\ versions' = <<>>
    /\ UNCHANGED <<item, pinned, pc, locals, contested>>

\* RESTRICT: neither an eval run nor a promoted item refers to a version.
DeleteDataset ==
    /\ exists
    /\ ~pinned
    /\ \A i \in Items : item[i].promoted = 0
    /\ exists' = FALSE
    /\ versions' = <<>>
    /\ UNCHANGED <<item, pinned, pc, locals, contested>>

-----------------------------------------------------------------------------
(* What GET .../review/stats reports of the queue. It changes nothing.     *)

queue_stats ==
    LET With(column, value) == {i \in Items : item[i][column] = value}
    IN  [pending          |-> Cardinality(With("status", "pending")),
         labeled          |-> Cardinality(With("status", "labeled")),
         skipped          |-> Cardinality(With("status", "skipped")),
         promoted         |-> Cardinality(Items \ With("promoted", 0)),
         control_reviewed |-> Cardinality(Controls \cap With("status", "labeled")),
         control_missed   |-> Cardinality(Controls \cap With("verdict", "bad"))]

-----------------------------------------------------------------------------
Next ==
    \/ \E r \in Reviewers : Review(r)
    \/ \E r \in Promoters : Promote(r)
    \/ \E r \in Uploaders : UploadVersion(r)
    \/ \E r \in Requests : Refuse(r)
    \/ PinVersion
    \/ DeleteDataset

Spec == Init /\ [][Next]_vars
-----------------------------------------------------------------------------
(* Properties.                                                             *)

Occurrences(v, i) == Cardinality({n \in DOMAIN v : v[n].item = i})

\* A promoted item refers to a version that is there and holds its example,
\* with a label the item has had and an answer to be scored against.
PromotionResolves ==
    \A i \in Items : item[i].promoted # 0 =>
        /\ item[i].promoted \in DOMAIN versions
        /\ \E n \in DOMAIN versions[item[i].promoted] :
              LET e == versions[item[i].promoted][n] IN
              e.item = i /\ e.verdict \in Verdicts /\ HasExpected(i, e)

\* However labels, skips, uploads and promotions interleave, an item is in a
\* version at most once, unless two promotions had selected it at once; and what
\* a promotion carries forward never makes a version too large to be run.
ExampleOnce ==
    \A n \in DOMAIN versions :
        /\ Len(versions[n]) \in 1..MaxExamples
        /\ \A i \in Items \ contested : Occurrences(versions[n], i) <= 1

\* What has been judged stays judged, whatever overlaps: the label of a promoted item
\* changes only by a request that had read the item before it was promoted, what is
\* counted as promoted stays so, and the misses outnumber the control items that were
\* reviewed only by items that were labelled and then skipped (review.py:305, :349,
\* :358, :497).
JudgementsStand ==
    [][/\ \A i \in Items : item[i].promoted # 0 /\ item'[i].verdict # item[i].verdict =>
             \E r \in Reviewers : /\ pc[r] = "labeling" /\ pc'[r] = "done"
                                  /\ i \in DOMAIN saw[r] /\ saw[r][i].promoted = 0
       /\ queue_stats'.promoted >= queue_stats.promoted
       /\ queue_stats.control_missed > queue_stats.control_reviewed =>
             \E i \in Controls : item[i].verdict = "bad" /\ item[i].status = "skipped"]_vars
=============================================================================
