---------------------------- MODULE ReviewProofs -----------------------------
(***************************************************************************)
(* Proofs about the review of traces: about the queue and the promotion of *)
(* its items (ReviewQueue), for every number of items and requests, and    *)
(* about what fills it (GuardrailSampler), for every number of projects,   *)
(* traces and overlapping passes, and every order of lists and arrivals.   *)
(***************************************************************************)
EXTENDS ReviewQueue, GuardrailSampler, FiniteSetTheorems, TLAPS

-----------------------------------------------------------------------------
(* The review queue.                                                       *)

Labels == Verdicts \cup {Unlabeled}
ItemRow == [status : {"pending", "labeled", "skipped"}, verdict : Labels,
            corrected : BOOLEAN, promoted : Nat]
Example == [item : Items \cup {"upload"}, verdict : Labels, corrected : BOOLEAN]

TablesOK ==
    /\ item \in [Items -> ItemRow]
    /\ versions \in Seq(Seq(Example))

LocalsOK ==
    /\ pc \in [Requests -> {"new", "labeling", "skipping", "selected", "carrying"} \cup Ended]
    /\ saw = [r \in Requests |-> saw[r]]
    /\ want \in [Reviewers -> [verdict : Labels, corrected : BOOLEAN]]
    /\ base \in [Promoters -> Seq(Example)]

\* A row that says it is labelled has a label, and one that has a label is settled.
Labelled(row) == /\ row.status = "labeled" => row.verdict \in Verdicts
                 /\ row.verdict \in Verdicts => row.status # "pending"

\* What request r has read: rows that were labelled if they said so, and whose
\* label can have changed since, but not have gone. A reviewer that is about to
\* write has read an item that was not promoted; what a promotion has selected
\* has labels, and once that is checked, answers.
RequestInv(r) ==
    /\ DOMAIN saw[r] \subseteq Items
    /\ \A i \in DOMAIN saw[r] :
          /\ saw[r][i] \in ItemRow
          /\ Labelled(saw[r][i])
          /\ saw[r][i].verdict \in Verdicts => item[i].verdict \in Verdicts
          /\ saw[r][i].status # "pending" => item[i].status # "pending"
    /\ pc[r] = "labeling" =>
          /\ r \in Reviewers
          /\ want[r].verdict \in Verdicts
          /\ \A i \in DOMAIN saw[r] : saw[r][i].promoted = 0
    /\ pc[r] \in {"selected", "carrying"} =>
          r \in Promoters /\ \A i \in DOMAIN saw[r] : saw[r][i].verdict \in Verdicts
    /\ pc[r] = "carrying" => \A i \in DOMAIN saw[r] : HasExpected(i, saw[r][i])

ReviewInv ==
    /\ TablesOK /\ LocalsOK
    /\ \A i \in Items : Labelled(item[i])
    /\ \A r \in Requests : RequestInv(r)
    /\ PromotionResolves

-----------------------------------------------------------------------------
(* Steps.                                                                  *)

\* Step of one request: the others have what they had, and no label goes.
LEMMA OwnStep ==
    ASSUME ReviewInv, NEW r \in Requests,
           TablesOK', LocalsOK', \A i \in Items : Labelled(item'[i]),
           RequestInv(r)', PromotionResolves',
           \A q \in Requests \ {r} : /\ pc'[q] = pc[q] /\ saw'[q] = saw[q]
                                     /\ q \in Reviewers => want'[q] = want[q],
           \A i \in Items :
              /\ item[i].verdict \in Verdicts => item'[i].verdict \in Verdicts
              /\ item[i].status # "pending" => item'[i].status # "pending"
    PROVE  ReviewInv'
<1>1. ASSUME NEW q \in Requests PROVE RequestInv(q)'
  <2>1. CASE q = r
    BY <2>1
  <2>2. CASE q # r
    <3>1. /\ RequestInv(q) /\ pc'[q] = pc[q] /\ saw'[q] = saw[q]
          /\ q \in Reviewers => want'[q] = want[q]
      BY <2>2 DEF ReviewInv
    <3>2. \A i \in DOMAIN saw'[q] :
            /\ saw'[q][i].verdict \in Verdicts => item'[i].verdict \in Verdicts
            /\ saw'[q][i].status # "pending" => item'[i].status # "pending"
      BY <3>1 DEF RequestInv
    <3> QED
      BY <3>1, <3>2 DEF RequestInv
  <2> QED
    BY <2>1, <2>2
<1> QED
  BY <1>1 DEF ReviewInv

LEMMA GotoFacts ==
    ASSUME LocalsOK, NEW r \in Requests, NEW from, NEW to, Goto(r, from, to)
    PROVE  pc[r] = from /\ pc'[r] = to /\ \A q \in Requests \ {r} : pc'[q] = pc[q]
BY DEF LocalsOK, Goto

\* A request that reads the rows S and writes nothing.
LEMMA ReadKeeps ==
    ASSUME ReviewInv, NEW r \in Requests, NEW S \in SUBSET Items,
           saw' = [saw EXCEPT ![r] = Snapshot(S)], UNCHANGED <<item, versions>>, LocalsOK',
           \A q \in Requests \ {r} : pc'[q] = pc[q] /\ (q \in Reviewers => want'[q] = want[q]),
           pc'[r] # "carrying",
           pc'[r] = "labeling" => /\ r \in Reviewers /\ want'[r].verdict \in Verdicts
                                  /\ \A i \in S : item[i].promoted = 0,
           pc'[r] = "selected" => /\ r \in Promoters
                                  /\ \A i \in S : item[i].status = "labeled"
    PROVE  ReviewInv'
<1>1. saw'[r] = Snapshot(S) /\ \A q \in Requests \ {r} : saw'[q] = saw[q]
  BY DEF ReviewInv, LocalsOK
<1>2. DOMAIN saw'[r] = S /\ \A i \in S : saw'[r][i] = item[i]
  BY <1>1 DEF Snapshot
<1>3. \A i \in S : item[i] \in ItemRow /\ Labelled(item[i])
  BY DEF ReviewInv, TablesOK
<1>4. RequestInv(r)'
  BY <1>2, <1>3 DEF RequestInv, Labelled
<1>5. TablesOK' /\ PromotionResolves' /\ \A i \in Items : Labelled(item'[i])
  BY DEF ReviewInv, TablesOK, PromotionResolves
<1> QED
  BY <1>1, <1>4, <1>5, OwnStep

LEMMA ReadToLabelKeeps ==
    ASSUME ReviewInv, NEW r \in Reviewers, NEW i \in Items, ReadToLabel(r, i) PROVE ReviewInv'
<1>1. r \in Requests
  BY DEF Requests
<1>2. pc'[r] = "labeling" /\ \A q \in Requests \ {r} : pc'[q] = pc[q]
  BY <1>1, GotoFacts DEF ReviewInv, ReadToLabel
<1>3. PICK v \in Verdicts, c \in BOOLEAN : want' = [want EXCEPT ![r] = [verdict |-> v, corrected |-> c]]
  BY DEF ReadToLabel
<1>4. [verdict |-> v, corrected |-> c] \in [verdict : Labels, corrected : BOOLEAN]
  BY <1>3 DEF Labels
<1>5. want' \in [Reviewers -> [verdict : Labels, corrected : BOOLEAN]] /\ want'[r].verdict \in Verdicts
  BY <1>3, <1>4 DEF ReviewInv, LocalsOK
<1>6. \A q \in Reviewers \ {r} : want'[q] = want[q]
  BY <1>3 DEF ReviewInv, LocalsOK
<1>7. LocalsOK'
  BY <1>1, <1>5 DEF ReviewInv, LocalsOK, ReadToLabel, Goto
<1>8. item[i].promoted = 0 /\ saw' = [saw EXCEPT ![r] = Snapshot({i})] /\ UNCHANGED <<item, versions>>
  BY DEF ReadToLabel, dataset
<1>9. {i} \in SUBSET Items /\ \A j \in {i} : item[j].promoted = 0
  BY <1>8
<1> QED
  BY <1>1, <1>2, <1>5, <1>6, <1>7, <1>8, <1>9, ReadKeeps

LEMMA ReadToSkipKeeps ==
    ASSUME ReviewInv, NEW r \in Reviewers, NEW i \in Items, ReadToSkip(r, i) PROVE ReviewInv'
<1>1. r \in Requests
  BY DEF Requests
<1>2. pc'[r] = "skipping" /\ \A q \in Requests \ {r} : pc'[q] = pc[q]
  BY <1>1, GotoFacts DEF ReviewInv, ReadToSkip
<1>3. LocalsOK'
  BY <1>1 DEF ReviewInv, LocalsOK, ReadToSkip, Goto
<1>4. saw' = [saw EXCEPT ![r] = Snapshot({i})] /\ UNCHANGED <<item, versions, want>>
  BY DEF ReadToSkip, dataset
<1> QED
  BY <1>1, <1>2, <1>3, <1>4, ReadKeeps

LEMMA SelectItemsKeeps ==
    ASSUME ReviewInv, NEW r \in Promoters, SelectItems(r) PROVE ReviewInv'
<1>1. r \in Requests
  BY DEF Requests
<1>2. pc'[r] = "selected" /\ \A q \in Requests \ {r} : pc'[q] = pc[q]
  BY <1>1, GotoFacts DEF ReviewInv, SelectItems
<1>3. PICK S \in (SUBSET Items) \ {{}} : Promotable(S) /\ saw' = [saw EXCEPT ![r] = Snapshot(S)]
  BY DEF SelectItems
<1>4. LocalsOK'
  BY <1>1, <1>3 DEF ReviewInv, LocalsOK, SelectItems, Goto
<1>5. UNCHANGED <<item, versions, want>>
  BY DEF SelectItems, dataset
<1>6. S \in SUBSET Items /\ \A i \in S : item[i].status = "labeled"
  BY <1>3 DEF Promotable
<1> QED
  BY <1>1, <1>2, <1>3, <1>4, <1>5, <1>6, ReadKeeps

\* A request that is refused, or done with a version of its own, writes no item.
LEMMA EndKeeps ==
    ASSUME ReviewInv, NEW r \in Requests, NEW to \in Ended,
           pc' = [pc EXCEPT ![r] = to], UNCHANGED <<item, saw, want, base>>,
           versions' \in Seq(Seq(Example)), PromotionResolves'
    PROVE  ReviewInv'
<1>1. pc'[r] \in Ended /\ \A q \in Requests \ {r} : pc'[q] = pc[q]
  BY DEF ReviewInv, LocalsOK
<1>2. RequestInv(r)'
  BY <1>1 DEF ReviewInv, RequestInv, Ended
<1>3. TablesOK' /\ LocalsOK' /\ \A i \in Items : Labelled(item'[i])
  BY DEF ReviewInv, TablesOK, LocalsOK
<1> QED
  BY <1>1, <1>2, <1>3, OwnStep

LEMMA WriteLabelKeeps ==
    ASSUME ReviewInv, NEW r \in Reviewers, WriteLabel(r) PROVE ReviewInv'
<1>1. r \in Requests
  BY DEF Requests
<1>2. pc[r] = "labeling" /\ pc'[r] = "done" /\ \A q \in Requests \ {r} : pc'[q] = pc[q]
  BY <1>1, GotoFacts DEF ReviewInv, WriteLabel
<1>3. RequestInv(r)
  BY <1>1 DEF ReviewInv
<1>4. PICK i \in DOMAIN saw[r] :
          item' = [item EXCEPT
              ![i].status = Column(@, saw[r][i].status, "labeled"),
              ![i].verdict = Column(@, saw[r][i].verdict, want[r].verdict),
              ![i].corrected = Column(@, saw[r][i].corrected, want[r].corrected)]
  BY DEF WriteLabel
<1>5. i \in Items /\ saw[r][i] \in ItemRow /\ item[i] \in ItemRow
      /\ want[r] \in [verdict : Labels, corrected : BOOLEAN]
  BY <1>3, <1>4 DEF RequestInv, ReviewInv, TablesOK, LocalsOK
<1>6. /\ \A j \in Items \ {i} : item'[j] = item[j]
      /\ item'[i] = [item[i] EXCEPT
              !.status = Column(@, saw[r][i].status, "labeled"),
              !.verdict = Column(@, saw[r][i].verdict, want[r].verdict),
              !.corrected = Column(@, saw[r][i].corrected, want[r].corrected)]
      /\ item' = [j \in Items |-> item'[j]]
  BY <1>4, <1>5 DEF ReviewInv, TablesOK
<1>7. /\ item'[i].verdict \in Verdicts /\ item'[i].promoted = item[i].promoted
      /\ item'[i].status # "pending"
  BY <1>2, <1>3, <1>4, <1>5, <1>6 DEF RequestInv, Column, ItemRow
<1>8. item'[i] \in ItemRow
  BY <1>5, <1>6 DEF ItemRow, Column
<1>9. TablesOK'
  BY <1>6, <1>8 DEF ReviewInv, TablesOK, WriteLabel, dataset
<1>10. LocalsOK'
  BY <1>1 DEF ReviewInv, LocalsOK, WriteLabel, Goto, Ended, locals
<1>11. \A j \in Items : Labelled(item'[j]) /\ item'[j].promoted = item[j].promoted
  BY <1>6, <1>7 DEF ReviewInv, Labelled
<1>12. \A j \in Items : /\ item[j].verdict \in Verdicts => item'[j].verdict \in Verdicts
                        /\ item[j].status # "pending" => item'[j].status # "pending"
  BY <1>6, <1>7
<1>13. UNCHANGED <<versions, saw, want>>
  BY DEF WriteLabel, dataset, locals
<1>14. RequestInv(r)'
  BY <1>2, <1>3, <1>12, <1>13 DEF RequestInv
<1>15. PromotionResolves'
  BY <1>11, <1>13 DEF ReviewInv, PromotionResolves
<1> QED
  BY <1>1, <1>2, <1>9, <1>10, <1>11, <1>12, <1>13, <1>14, <1>15, OwnStep

LEMMA WriteSkipKeeps ==
    ASSUME ReviewInv, NEW r \in Reviewers, WriteSkip(r) PROVE ReviewInv'
<1>1. r \in Requests
  BY DEF Requests
<1>2. pc'[r] = "done" /\ \A q \in Requests \ {r} : pc'[q] = pc[q]
  BY <1>1, GotoFacts DEF ReviewInv, WriteSkip
<1>3. RequestInv(r)
  BY <1>1 DEF ReviewInv
<1>4. PICK i \in DOMAIN saw[r] :
          item' = [item EXCEPT ![i].status = Column(@, saw[r][i].status, "skipped")]
  BY DEF WriteSkip
<1>5. i \in Items /\ saw[r][i] \in ItemRow /\ item[i] \in ItemRow /\ Labelled(item[i])
  BY <1>3, <1>4 DEF RequestInv, ReviewInv, TablesOK
<1>6. /\ \A j \in Items \ {i} : item'[j] = item[j]
      /\ item'[i] = [item[i] EXCEPT !.status = Column(@, saw[r][i].status, "skipped")]
      /\ item' = [j \in Items |-> item'[j]]
  BY <1>4, <1>5 DEF ReviewInv, TablesOK
<1>7. /\ item'[i].verdict = item[i].verdict /\ item'[i].promoted = item[i].promoted
      /\ item'[i] \in ItemRow /\ Labelled(item'[i])
      /\ item[i].status # "pending" => item'[i].status # "pending"
  BY <1>5, <1>6 DEF Column, ItemRow, Labelled
<1>8. TablesOK'
  BY <1>6, <1>7 DEF ReviewInv, TablesOK, WriteSkip, dataset
<1>9. LocalsOK'
  BY <1>1 DEF ReviewInv, LocalsOK, WriteSkip, Goto, Ended, locals
<1>10. \A j \in Items : /\ Labelled(item'[j]) /\ item'[j].promoted = item[j].promoted
                        /\ item[j].verdict \in Verdicts => item'[j].verdict \in Verdicts
                        /\ item[j].status # "pending" => item'[j].status # "pending"
  BY <1>6, <1>7 DEF ReviewInv
<1>11. UNCHANGED <<versions, saw, want>>
  BY DEF WriteSkip, dataset, locals
<1>12. RequestInv(r)'
  BY <1>2, <1>3, <1>10, <1>11 DEF RequestInv
<1>13. PromotionResolves'
  BY <1>10, <1>11 DEF ReviewInv, PromotionResolves
<1> QED
  BY <1>1, <1>2, <1>8, <1>9, <1>10, <1>11, <1>12, <1>13, OwnStep

LEMMA CarryForwardKeeps ==
    ASSUME ReviewInv, NEW r \in Promoters, CarryForward(r) PROVE ReviewInv'
<1>1. r \in Requests
  BY DEF Requests
<1>2. pc[r] = "selected" /\ pc'[r] = "carrying" /\ \A q \in Requests \ {r} : pc'[q] = pc[q]
  BY <1>1, GotoFacts DEF ReviewInv, CarryForward
<1>3. (IF versions = <<>> THEN <<>> ELSE Last(versions)) \in Seq(Example)
  <2>1. versions \in Seq(Seq(Example))
    BY DEF ReviewInv, TablesOK
  <2>2. versions # <<>> => Last(versions) \in Seq(Example)
    BY <2>1 DEF Last
  <2> QED
    BY <2>2
<1>4. LocalsOK'
  BY <1>1, <1>3 DEF ReviewInv, LocalsOK, CarryForward, Latest, Goto
<1>5. UNCHANGED <<item, versions, saw, want>>
  BY DEF CarryForward, Latest, dataset
<1>6. RequestInv(r)
  BY <1>1 DEF ReviewInv
<1>7. RequestInv(r)'
  BY <1>2, <1>5, <1>6 DEF RequestInv, CarryForward
<1>8. TablesOK' /\ PromotionResolves' /\ \A i \in Items : Labelled(item'[i])
  BY <1>5 DEF ReviewInv, TablesOK, PromotionResolves
<1> QED
  BY <1>1, <1>2, <1>4, <1>5, <1>7, <1>8, OwnStep

-----------------------------------------------------------------------------
(* Versions.                                                               *)

\* A set listed in order: every element is there, once, and nothing else.
LEMMA ListFacts ==
    ASSUME NEW S, IsFiniteSet(S)
    PROVE  /\ Cardinality(S) \in Nat
           /\ \A n \in 1..Cardinality(S) : SetToSeq(S)[n] \in S
           /\ \A x \in S : \E n \in 1..Cardinality(S) : SetToSeq(S)[n] = x
           /\ \A m, n \in 1..Cardinality(S) : SetToSeq(S)[m] = SetToSeq(S)[n] => m = n
<1>1. Cardinality(S) \in Nat /\ ExistsBijection(1..Cardinality(S), S)
  BY FS_CardinalityType
<1>3. PICK f : f \in Bijection(1..Cardinality(S), S)
  BY <1>1 DEF ExistsBijection
<1>4. f \in [1..Cardinality(S) -> S] /\ IsInjective(f)
  BY <1>3 DEF Bijection, Injection, IsInjective
<1>5. SetToSeq(S) \in [1..Cardinality(S) -> S] /\ IsInjective(SetToSeq(S))
  BY <1>4 DEF SetToSeq
<1>6. SetToSeq(S) \in Injection(1..Cardinality(S), S)
  BY <1>5 DEF Injection, IsInjective
<1>7. Cardinality(1..Cardinality(S)) = Cardinality(S)
  BY <1>1, FS_Interval
<1>8. SetToSeq(S) \in Surjection(1..Cardinality(S), S)
  BY <1>6, <1>7, FS_Injection
<1> QED
  BY <1>1, <1>5, <1>8 DEF Surjection, IsInjective

LEMMA NewExamplesFacts ==
    ASSUME ReviewInv, NEW r \in Requests
    PROVE  /\ NewExamples(r) \in Seq(Example)
           /\ \A i \in DOMAIN saw[r] :
                 \E n \in DOMAIN NewExamples(r) : NewExamples(r)[n] = FromItem(i, saw[r][i])
<1> DEFINE D == DOMAIN saw[r]
<1>1. D \subseteq Items /\ \A i \in D : saw[r][i] \in ItemRow
  BY DEF ReviewInv, RequestInv
<1>2. IsFiniteSet(D)
  BY <1>1, FS_Subset, ReviewQueueAssumption
<1>3. \A i \in D : FromItem(i, saw[r][i]) \in Example
  BY <1>1 DEF FromItem, Example, ItemRow
<1>4. /\ Cardinality(D) \in Nat
      /\ \A n \in 1..Cardinality(D) : SetToSeq(D)[n] \in D
      /\ \A x \in D : \E n \in 1..Cardinality(D) : SetToSeq(D)[n] = x
  BY <1>2, ListFacts
<1>5. /\ DOMAIN NewExamples(r) = 1..Cardinality(D)
      /\ \A n \in 1..Cardinality(D) :
            NewExamples(r)[n] = FromItem(SetToSeq(D)[n], saw[r][SetToSeq(D)[n]])
      /\ NewExamples(r) = [n \in 1..Cardinality(D) |-> NewExamples(r)[n]]
  BY DEF NewExamples
<1>6. \A n \in 1..Cardinality(D) : NewExamples(r)[n] \in Example
  BY <1>3, <1>4, <1>5
<1>7. NewExamples(r) \in [1..Cardinality(D) -> Example]
  BY <1>5, <1>6
<1>8. NewExamples(r) \in Seq(Example)
  BY <1>4, <1>7
<1> HIDE DEF D
<1>9. \A x \in D : \E n \in DOMAIN NewExamples(r) : NewExamples(r)[n] = FromItem(x, saw[r][x])
  BY <1>4, <1>5
<1> QED
  BY <1>8, <1>9 DEF D

\* The versions that are there stay as they are when one is added.
LEMMA AddedVersion ==
    ASSUME ReviewInv, NEW v \in Seq(Example), versions' = Append(versions, v)
    PROVE  /\ versions' \in Seq(Seq(Example))
           /\ Len(versions') \in DOMAIN versions' /\ versions'[Len(versions')] = v
           /\ Len(versions') \in Nat
           /\ \A n \in DOMAIN versions : n \in DOMAIN versions' /\ versions'[n] = versions[n]
BY DEF ReviewInv, TablesOK

LEMMA UploadKeeps ==
    ASSUME ReviewInv, NEW r \in Uploaders, UploadVersion(r) PROVE ReviewInv'
<1>1. r \in Requests
  BY DEF Requests
<1>2. Uploaded \in Example
  BY DEF Uploaded, Example, Labels, Unlabeled
<1>3. <<Uploaded>> \in Seq(Example) /\ versions' = Append(versions, <<Uploaded>>)
  BY <1>2 DEF UploadVersion
<1>4. /\ versions' \in Seq(Seq(Example))
      /\ \A n \in DOMAIN versions : n \in DOMAIN versions' /\ versions'[n] = versions[n]
  BY <1>3, AddedVersion
<1>5. UNCHANGED <<item, saw, want, base>> /\ pc' = [pc EXCEPT ![r] = "done"] /\ "done" \in Ended
  BY DEF UploadVersion, Goto, locals, Ended
<1>6. PromotionResolves'
  BY <1>4, <1>5 DEF ReviewInv, PromotionResolves
<1> QED
  BY <1>1, <1>4, <1>5, <1>6, EndKeeps

LEMMA AppendPromotedKeeps ==
    ASSUME ReviewInv, NEW r \in Promoters, AppendPromoted(r) PROVE ReviewInv'
<1>1. r \in Requests
  BY DEF Requests
<1>2. pc[r] = "carrying" /\ pc'[r] = "done" /\ \A q \in Requests \ {r} : pc'[q] = pc[q]
  BY <1>1, GotoFacts DEF ReviewInv, AppendPromoted
<1>3. RequestInv(r)
  BY <1>1 DEF ReviewInv
<1> DEFINE D == DOMAIN saw[r]
           v == base[r] \o NewExamples(r)
<1>4. base[r] \in Seq(Example) /\ NewExamples(r) \in Seq(Example)
  BY <1>1, NewExamplesFacts DEF ReviewInv, LocalsOK
<1>5. v \in Seq(Example)
  BY <1>4
<1>6. \A i \in D : \E n \in DOMAIN v : v[n] = FromItem(i, saw[r][i])
  <2>1. TAKE i \in D
  <2>2. PICK m \in DOMAIN NewExamples(r) : NewExamples(r)[m] = FromItem(i, saw[r][i])
    BY <1>1, NewExamplesFacts
  <2>3. Len(base[r]) + m \in DOMAIN v /\ v[Len(base[r]) + m] = NewExamples(r)[m]
    BY <1>4, <2>2
  <2> QED
    BY <2>2, <2>3
<1>7. versions' = Append(versions, v)
  BY DEF AppendPromoted
<1> HIDE DEF v
<1>8. /\ versions' \in Seq(Seq(Example))
      /\ Len(versions') \in DOMAIN versions' /\ versions'[Len(versions')] = v
      /\ Len(versions') \in Nat
      /\ \A n \in DOMAIN versions : n \in DOMAIN versions' /\ versions'[n] = versions[n]
  BY <1>5, <1>7, AddedVersion
<1>9. /\ item' = [i \in Items |-> item'[i]]
      /\ \A i \in D : i \in Items => item'[i] = [item[i] EXCEPT !.promoted = Len(versions')]
      /\ \A i \in Items \ D : item'[i] = item[i]
  BY DEF AppendPromoted
<1>10. \A i \in Items : item[i] \in ItemRow
  BY DEF ReviewInv, TablesOK
<1>11. \A i \in Items : item'[i] \in ItemRow /\ item'[i].verdict = item[i].verdict
                       /\ item'[i].status = item[i].status
  <2>1. ASSUME NEW i \in Items, NEW n \in Nat
        PROVE  LET x == [item[i] EXCEPT !.promoted = n] IN
               x \in ItemRow /\ x.verdict = item[i].verdict /\ x.status = item[i].status
    BY <1>10 DEF ItemRow
  <2> QED
    BY <1>8, <1>9, <1>10, <2>1, Zenon
<1>12. TablesOK'
  BY <1>8, <1>9, <1>11 DEF TablesOK
<1>13. UNCHANGED <<saw, want, base>>
  BY DEF AppendPromoted, locals
<1>14. LocalsOK'
  BY <1>1, <1>13 DEF ReviewInv, LocalsOK, AppendPromoted, Goto, Ended
<1>15. \A i \in Items : Labelled(item'[i])
  BY <1>11 DEF ReviewInv, Labelled
<1>16. RequestInv(r)'
  BY <1>2, <1>3, <1>11, <1>13 DEF RequestInv
<1>17. PromotionResolves'
  <2>1. SUFFICES ASSUME NEW i \in Items, item'[i].promoted # 0
                 PROVE  /\ item'[i].promoted \in DOMAIN versions'
                        /\ \E n \in DOMAIN versions'[item'[i].promoted] :
                              LET e == versions'[item'[i].promoted][n] IN
                              e.item = i /\ e.verdict \in Verdicts /\ HasExpected(i, e)
    BY DEF PromotionResolves
  <2>2. CASE i \in D
    <3>1. item'[i].promoted = Len(versions')
      <4>1. \A n : [item[i] EXCEPT !.promoted = n].promoted = n
        BY <1>10 DEF ItemRow
      <4> QED
        BY <1>9, <2>2, <4>1, Zenon
    <3>2. PICK n \in DOMAIN v : v[n] = FromItem(i, saw[r][i])
      BY <1>6, <2>2
    <3>3. saw[r][i].verdict \in Verdicts /\ HasExpected(i, saw[r][i])
      BY <1>2, <1>3, <2>2 DEF RequestInv
    <3>4. v[n].item = i /\ v[n].verdict \in Verdicts /\ HasExpected(i, v[n])
      BY <3>2, <3>3 DEF FromItem, HasExpected
    <3>5. item'[i].promoted \in DOMAIN versions' /\ versions'[item'[i].promoted] = v
      BY <1>8, <3>1
    <3> QED
      BY <3>2, <3>4, <3>5, Zenon
  <2>3. CASE i \notin D
    <3>1. item'[i] = item[i]
      BY <1>9, <2>3
    <3>2. /\ item[i].promoted \in DOMAIN versions
          /\ \E n \in DOMAIN versions[item[i].promoted] :
                LET e == versions[item[i].promoted][n] IN
                e.item = i /\ e.verdict \in Verdicts /\ HasExpected(i, e)
      BY <2>1, <3>1, Zenon DEF ReviewInv, PromotionResolves
    <3>3. /\ item'[i].promoted \in DOMAIN versions'
          /\ versions'[item'[i].promoted] = versions[item[i].promoted]
      BY <1>8, <3>1, <3>2
    <3> QED
      BY <3>2, <3>3, Zenon
  <2> QED
    BY <2>2, <2>3
<1> QED
  BY <1>1, <1>2, <1>11, <1>12, <1>13, <1>14, <1>15, <1>16, <1>17, OwnStep

-----------------------------------------------------------------------------
(* Each item once.                                                         *)

\* Of the items of the table that are not in C, neither are two examples of a
\* version made of one, nor is any made of one that is not promoted.
Once(v, table, C) ==
    \A i \in Items \ C :
        /\ \A m, n \in DOMAIN v : v[m].item = i /\ v[n].item = i => m = n
        /\ table[i].promoted = 0 => \A n \in DOMAIN v : v[n].item # i

\* A promotion under way holds something; what it holds uncontested is not
\* promoted and nobody else's, so it is not in what is carried forward either.
HoldInv(r) ==
    Promoting(r) =>
        /\ DOMAIN saw[r] # {}
        /\ \A i \in DOMAIN saw[r] \ contested :
              /\ item[i].promoted = 0
              /\ \A q \in Promoters \ {r} : Promoting(q) => i \notin DOMAIN saw[q]
        /\ pc[r] = "carrying" => Once(base[r], item, contested)

OnceInv ==
    /\ \A n \in DOMAIN versions :
          Len(versions[n]) \in 1..MaxExamples /\ Once(versions[n], item, contested)
    /\ \A r \in Promoters : HoldInv(r)

\* Items get contested and promoted, never the reverse.
LEMMA OnceLasts ==
    ASSUME NEW v, NEW t, NEW C, Once(v, t, C), NEW u, NEW D, C \subseteq D,
           \A i \in Items \ D : u[i].promoted = 0 => t[i].promoted = 0
    PROVE  Once(v, u, D)
BY DEF Once

\* A step that selects, carries forward and promotes nothing: the promotions
\* that are still under way have what they had.
LEMMA HoldLasts ==
    ASSUME ReviewInv, OnceInv, contested' = contested,
           \A i \in Items : item'[i].promoted = item[i].promoted,
           \A r \in Promoters : pc'[r] \in {"selected", "carrying"} =>
               pc'[r] = pc[r] /\ saw'[r] = saw[r] /\ base'[r] = base[r],
           \A n \in DOMAIN versions' :
               Len(versions'[n]) \in 1..MaxExamples /\ Once(versions'[n], item, contested)
    PROVE  OnceInv'
<1>1. \A v : Once(v, item, contested) => Once(v, item', contested')
  BY OnceLasts, Zenon
<1>2. \A n \in DOMAIN versions' : Once(versions'[n], item', contested')
  BY <1>1
<1>3. ASSUME NEW r \in Promoters, Promoting(r)' PROVE HoldInv(r)'
  <2>1. pc'[r] = pc[r] /\ saw'[r] = saw[r] /\ base'[r] = base[r]
    BY <1>3 DEF Promoting
  <2>2. Promoting(r) /\ HoldInv(r)
    BY <1>3, <2>1 DEF OnceInv, Promoting
  <2>3. pc'[r] = "carrying" => Once(base'[r], item', contested')
    BY <1>1, <2>1, <2>2 DEF HoldInv
  <2>4. \A i \in DOMAIN saw'[r] \ contested' :
            item'[i].promoted = 0 /\ i \in Items
    <3>1. DOMAIN saw[r] \subseteq Items
      BY DEF ReviewInv, RequestInv, Requests
    <3> QED
      BY <2>1, <2>2, <3>1 DEF HoldInv
  <2>5. ASSUME NEW i \in DOMAIN saw'[r] \ contested', NEW q \in Promoters \ {r}, Promoting(q)'
        PROVE  i \notin DOMAIN saw'[q]
    <3>1. Promoting(q) /\ saw'[q] = saw[q]
      BY <2>5 DEF Promoting
    <3> QED
      BY <2>1, <2>2, <2>5, <3>1 DEF HoldInv
  <2> QED
    BY <2>1, <2>2, <2>3, <2>4, <2>5 DEF HoldInv
<1>4. \A r \in Promoters : HoldInv(r)'
  BY <1>3 DEF HoldInv
<1> QED
  BY <1>2, <1>4 DEF OnceInv

LEMMA LabelsPromoteNothing ==
    ASSUME ReviewInv, NEW r \in Reviewers, Review(r)
    PROVE  \A i \in Items : item'[i].promoted = item[i].promoted
<1>1. \A i \in Items : item[i] \in ItemRow
  BY DEF ReviewInv, TablesOK
<1>2. item = [i \in Items |-> item[i]]
  BY DEF ReviewInv, TablesOK
<1>3. ASSUME WriteLabel(r) PROVE \A i \in Items : item'[i].promoted = item[i].promoted
  <2>1. PICK i \in DOMAIN saw[r] :
          item' = [item EXCEPT
              ![i].status = Column(@, saw[r][i].status, "labeled"),
              ![i].verdict = Column(@, saw[r][i].verdict, want[r].verdict),
              ![i].corrected = Column(@, saw[r][i].corrected, want[r].corrected)]
    BY <1>3 DEF WriteLabel
  <2> QED
    BY <1>1, <1>2, <2>1 DEF ItemRow
<1>4. ASSUME WriteSkip(r) PROVE \A i \in Items : item'[i].promoted = item[i].promoted
  <2>1. PICK i \in DOMAIN saw[r] :
          item' = [item EXCEPT ![i].status = Column(@, saw[r][i].status, "skipped")]
    BY <1>4 DEF WriteSkip
  <2> QED
    BY <1>1, <1>2, <2>1 DEF ItemRow
<1>5. item' = item \/ WriteLabel(r) \/ WriteSkip(r)
  BY DEF Review, ReadToLabel, LabelRefused, ReadToSkip
<1> QED
  BY <1>3, <1>4, <1>5

\* What each action that is not a promotion's leaves of the promotions.
LEMMA ReviewKeepsOnce ==
    ASSUME ReviewInv, OnceInv, NEW r \in Reviewers, Review(r) PROVE OnceInv'
<1>1. r \in Requests
  BY DEF Requests
<1>2. UNCHANGED <<versions, base, contested>>
  BY DEF Review, ReadToLabel, LabelRefused, ReadToSkip, WriteLabel, WriteSkip, dataset, locals
<1>3. pc'[r] \notin {"selected", "carrying"} /\ \A q \in Requests \ {r} : pc'[q] = pc[q]
  <2>1. \E to \in {"labeling", "refused", "skipping", "done"} : pc' = [pc EXCEPT ![r] = to]
    BY DEF Review, ReadToLabel, LabelRefused, ReadToSkip, WriteLabel, WriteSkip, Goto
  <2> QED
    BY <1>1, <2>1 DEF ReviewInv, LocalsOK
<1>4. \A q \in Requests \ {r} : saw'[q] = saw[q]
  <2>1. saw' = saw \/ \E i \in Items : saw' = [saw EXCEPT ![r] = Snapshot({i})]
    BY DEF Review, ReadToLabel, LabelRefused, ReadToSkip, WriteLabel, WriteSkip, locals
  <2>2. saw = [q \in Requests |-> saw[q]]
    BY DEF ReviewInv, LocalsOK
  <2>3. ASSUME NEW x, saw' = [saw EXCEPT ![r] = x] PROVE \A q \in Requests \ {r} : saw'[q] = saw[q]
    BY <2>2, <2>3
  <2> QED
    BY <2>1, <2>3
<1>5. \A i \in Items : item'[i].promoted = item[i].promoted
  BY LabelsPromoteNothing
<1>6. \A q \in Promoters : q \in Requests
  BY DEF Requests
<1> QED
  BY <1>1, <1>2, <1>3, <1>4, <1>5, <1>6, HoldLasts DEF OnceInv

LEMMA SelectKeepsOnce ==
    ASSUME ReviewInv, OnceInv, NEW r \in Promoters, SelectItems(r) PROVE OnceInv'
<1>1. r \in Requests /\ \A q \in Promoters : q \in Requests
  BY DEF Requests
<1>2. pc[r] = "new" /\ pc'[r] = "selected" /\ \A q \in Requests \ {r} : pc'[q] = pc[q]
  BY <1>1, GotoFacts DEF ReviewInv, SelectItems
<1>3. PICK S \in (SUBSET Items) \ {{}} :
          /\ Promotable(S)
          /\ saw' = [saw EXCEPT ![r] = Snapshot(S)]
          /\ contested' = contested \cup
                (S \cap UNION {DOMAIN saw[q] : q \in {q \in Promoters : Promoting(q)}})
  BY DEF SelectItems
<1>4. UNCHANGED <<item, versions, base>>
  BY DEF SelectItems, dataset
<1>5. DOMAIN saw'[r] = S /\ \A q \in Requests \ {r} : saw'[q] = saw[q]
  BY <1>1, <1>3 DEF ReviewInv, LocalsOK, Snapshot
<1>6. contested \subseteq contested' /\ \A v : Once(v, item, contested) => Once(v, item', contested')
  BY <1>3, <1>4, OnceLasts, Zenon
<1>7. \A q \in Promoters \ {r} : \A i \in S \ contested' : Promoting(q) => i \notin DOMAIN saw[q]
  BY <1>3
<1>8. ~Promoting(r) /\ \A q \in Promoters \ {r} : Promoting(q)' <=> Promoting(q)
  BY <1>1, <1>2 DEF Promoting
<1>9. \A i \in S : item'[i].promoted = 0
  BY <1>3, <1>4 DEF Promotable
<1>10. HoldInv(r)'
  <2>1. \A i \in S \ contested' : \A q \in Promoters \ {r} : Promoting(q)' => i \notin DOMAIN saw'[q]
    BY <1>1, <1>5, <1>7, <1>8
  <2> QED
    BY <1>2, <1>3, <1>5, <1>9, <2>1 DEF HoldInv
<1>11. ASSUME NEW q \in Promoters \ {r}, Promoting(q)' PROVE HoldInv(q)'
  <2>1. Promoting(q) /\ HoldInv(q) /\ saw'[q] = saw[q] /\ pc'[q] = pc[q] /\ base'[q] = base[q]
    BY <1>1, <1>2, <1>4, <1>5, <1>8, <1>11 DEF OnceInv
  <2>2. pc'[q] = "carrying" => Once(base'[q], item', contested')
    BY <1>6, <2>1 DEF HoldInv
  <2>3. ASSUME NEW i \in DOMAIN saw[q] \ contested', NEW p \in Promoters \ {q}, Promoting(p)'
        PROVE  i \notin DOMAIN saw'[p]
    <3>1. CASE p = r
      BY <1>5, <1>7, <2>1, <2>3, <3>1
    <3>2. CASE p # r
      BY <1>1, <1>5, <1>6, <1>8, <2>1, <2>3, <3>2 DEF HoldInv
    <3> QED
      BY <3>1, <3>2
  <2> QED
    BY <1>4, <1>6, <2>1, <2>2, <2>3 DEF HoldInv
<1>12. \A q \in Promoters : HoldInv(q)'
  BY <1>10, <1>11 DEF HoldInv
<1> QED
  BY <1>4, <1>6, <1>12 DEF OnceInv

LEMMA CarryKeepsOnce ==
    ASSUME ReviewInv, OnceInv, NEW r \in Promoters, CarryForward(r) PROVE OnceInv'
<1>1. r \in Requests /\ \A q \in Promoters : q \in Requests
  BY DEF Requests
<1>2. pc[r] = "selected" /\ pc'[r] = "carrying" /\ \A q \in Requests \ {r} : pc'[q] = pc[q]
  BY <1>1, GotoFacts DEF ReviewInv, CarryForward
<1>3. UNCHANGED <<item, versions, saw, contested>>
  BY DEF CarryForward, Latest, dataset
<1>4. /\ base'[r] = (IF versions = <<>> THEN <<>> ELSE Last(versions))
      /\ \A q \in Promoters \ {r} : base'[q] = base[q]
  BY DEF ReviewInv, LocalsOK, CarryForward, Latest
<1>5. Once(base'[r], item, contested)
  <2>1. CASE versions = <<>>
    BY <1>4, <2>1 DEF Once
  <2>2. CASE versions # <<>>
    <3>1. Last(versions) = versions[Len(versions)] /\ Len(versions) \in DOMAIN versions
      BY <2>2 DEF ReviewInv, TablesOK, Last
    <3> QED
      BY <1>4, <2>2, <3>1 DEF OnceInv
  <2> QED
    BY <2>1, <2>2
<1>6. \A q \in Promoters : /\ Promoting(q)' <=> Promoting(q)
                           /\ pc'[q] = "carrying" => q = r \/ pc[q] = "carrying"
  BY <1>1, <1>2 DEF Promoting
<1>7. ASSUME NEW q \in Promoters PROVE HoldInv(q)'
  <2>1. HoldInv(q)
    BY DEF OnceInv
  <2>2. Promoting(q) /\ pc'[q] = "carrying" => Once(base'[q], item', contested')
    BY <1>3, <1>4, <1>5, <1>6, <2>1 DEF HoldInv
  <2> QED
    BY <1>3, <1>6, <2>1, <2>2 DEF HoldInv
<1> QED
  BY <1>3, <1>7 DEF OnceInv

LEMMA UploadKeepsOnce ==
    ASSUME ReviewInv, OnceInv, NEW r \in Uploaders, UploadVersion(r) PROVE OnceInv'
<1>1. r \in Requests /\ \A q \in Promoters : q \in Requests
  BY DEF Requests
<1>2. pc'[r] = "done" /\ \A q \in Requests \ {r} : pc'[q] = pc[q]
  BY <1>1, GotoFacts DEF ReviewInv, UploadVersion
<1>3. UNCHANGED <<item, saw, base, contested>> /\ versions' = Append(versions, <<Uploaded>>)
  BY DEF UploadVersion, locals
<1>4. Once(<<Uploaded>>, item, contested) /\ Len(<<Uploaded>>) \in 1..MaxExamples
  BY ReviewQueueAssumption DEF Once, Uploaded
<1>5. \A n \in DOMAIN versions' : versions'[n] = <<Uploaded>> \/
          (n \in DOMAIN versions /\ versions'[n] = versions[n])
  BY <1>3 DEF ReviewInv, TablesOK
<1> QED
  BY <1>1, <1>2, <1>3, <1>4, <1>5, HoldLasts DEF OnceInv

\* They are as many as the items, each made of another one.
LEMMA NewExamplesOnce ==
    ASSUME ReviewInv, NEW r \in Requests
    PROVE  /\ \A n \in DOMAIN NewExamples(r) : NewExamples(r)[n].item \in DOMAIN saw[r]
           /\ \A m, n \in DOMAIN NewExamples(r) :
                 NewExamples(r)[m].item = NewExamples(r)[n].item => m = n
           /\ DOMAIN NewExamples(r) = 1..Cardinality(DOMAIN saw[r])
           /\ DOMAIN saw[r] # {} => Cardinality(DOMAIN saw[r]) \in Nat \ {0}
           /\ Cardinality(DOMAIN saw[r]) \in Nat
<1> DEFINE D == DOMAIN saw[r]
<1>1. D \subseteq Items
  BY DEF ReviewInv, RequestInv
<1>2. IsFiniteSet(D)
  BY <1>1, FS_Subset, ReviewQueueAssumption
<1>3. /\ Cardinality(D) \in Nat
      /\ \A n \in 1..Cardinality(D) : SetToSeq(D)[n] \in D
      /\ \A m, n \in 1..Cardinality(D) : SetToSeq(D)[m] = SetToSeq(D)[n] => m = n
  BY <1>2, ListFacts
<1>4. D # {} => Cardinality(D) # 0
  BY <1>2, FS_EmptySet
<1>5. /\ DOMAIN NewExamples(r) = 1..Cardinality(D)
      /\ \A n \in 1..Cardinality(D) : NewExamples(r)[n].item = SetToSeq(D)[n]
  BY DEF NewExamples, FromItem
<1> QED
  BY <1>3, <1>4, <1>5

\* What a promotion appends: what it carries forward, and the examples of the
\* items it holds, each once.
LEMMA JoinedOnce ==
    ASSUME ReviewInv, OnceInv, NEW r \in Promoters, pc[r] = "carrying",
           NEW u, NEW C, contested \subseteq C,
           \A i \in Items \ C : u[i].promoted = 0 => item[i].promoted = 0 /\ i \notin DOMAIN saw[r]
    PROVE  Once(base[r] \o NewExamples(r), u, C)
<1> DEFINE D == DOMAIN saw[r]
           v == base[r] \o NewExamples(r)
<1>1. r \in Requests /\ Promoting(r)
  BY DEF Requests, Promoting
<1>2. base[r] \in Seq(Example) /\ NewExamples(r) \in Seq(Example)
  BY <1>1, NewExamplesFacts DEF ReviewInv, LocalsOK
<1>3. /\ \A n \in DOMAIN NewExamples(r) : NewExamples(r)[n].item \in D
      /\ \A m, n \in DOMAIN NewExamples(r) :
            NewExamples(r)[m].item = NewExamples(r)[n].item => m = n
  BY <1>1, NewExamplesOnce
<1>4. /\ Once(base[r], item, contested)
      /\ \A i \in D \ contested : item[i].promoted = 0
  BY <1>1 DEF OnceInv, HoldInv
<1>5. /\ \A n \in DOMAIN v : \/ n \in DOMAIN base[r] /\ v[n] = base[r][n]
                             \/ /\ n - Len(base[r]) \in DOMAIN NewExamples(r)
                                /\ v[n] = NewExamples(r)[n - Len(base[r])]
      /\ \A n \in DOMAIN v : n \in Nat
      /\ Len(base[r]) \in Nat
  BY <1>2
<1> HIDE DEF v, D
<1>6. ASSUME NEW i \in Items \ C, NEW m \in DOMAIN v, NEW n \in DOMAIN v, v[m].item = i, v[n].item = i
      PROVE  m = n
  <2>1. CASE i \in D
    <3>1. \A k \in DOMAIN base[r] : base[r][k].item # i
      BY <1>4, <1>6, <2>1 DEF Once
    <3>2. /\ m - Len(base[r]) \in DOMAIN NewExamples(r) /\ v[m] = NewExamples(r)[m - Len(base[r])]
          /\ n - Len(base[r]) \in DOMAIN NewExamples(r) /\ v[n] = NewExamples(r)[n - Len(base[r])]
      BY <1>5, <1>6, <3>1
    <3>3. m - Len(base[r]) = n - Len(base[r])
      BY <1>3, <1>6, <3>2
    <3> QED
      BY <1>5, <1>6, <3>3
  <2>2. CASE i \notin D
    <3>1. m \in DOMAIN base[r] /\ n \in DOMAIN base[r] /\ base[r][m].item = i /\ base[r][n].item = i
      BY <1>3, <1>5, <1>6, <2>2
    <3> QED
      BY <1>4, <1>6, <3>1 DEF Once
  <2> QED
    BY <2>1, <2>2
<1>7. ASSUME NEW i \in Items \ C, u[i].promoted = 0, NEW n \in DOMAIN v PROVE v[n].item # i
  <2>1. item[i].promoted = 0 /\ i \notin D
    BY <1>7 DEF D
  <2> QED
    BY <1>3, <1>4, <1>5, <1>7, <2>1 DEF Once
<1>8. Once(v, u, C)
  BY <1>6, <1>7 DEF Once
<1> QED
  BY <1>8 DEF v

LEMMA AppendKeepsOnce ==
    ASSUME ReviewInv, OnceInv, NEW r \in Promoters, AppendPromoted(r) PROVE OnceInv'
<1> DEFINE D == DOMAIN saw[r]
           v == base[r] \o NewExamples(r)
<1>1. r \in Requests /\ \A q \in Promoters : q \in Requests
  BY DEF Requests
<1>2. pc[r] = "carrying" /\ pc'[r] = "done" /\ \A q \in Requests \ {r} : pc'[q] = pc[q]
  BY <1>1, GotoFacts DEF ReviewInv, AppendPromoted
<1>3. /\ UNCHANGED <<saw, base, contested>>
      /\ versions' = Append(versions, v)
      /\ Len(base[r]) + Cardinality(D) <= MaxExamples
  BY DEF AppendPromoted, locals
<1>4. Promoting(r) /\ D # {}
  BY <1>2 DEF OnceInv, HoldInv, Promoting
<1>5. v \in Seq(Example) /\ Len(v) \in 1..MaxExamples
  <2>1. base[r] \in Seq(Example) /\ NewExamples(r) \in Seq(Example)
    BY <1>1, NewExamplesFacts DEF ReviewInv, LocalsOK
  <2>2. DOMAIN NewExamples(r) = 1..Cardinality(D) /\ Cardinality(D) \in Nat \ {0}
    BY <1>1, <1>4, NewExamplesOnce
  <2>3. Len(NewExamples(r)) = Cardinality(D)
    BY <2>1, <2>2
  <2>4. v \in Seq(Example) /\ Len(v) = Len(base[r]) + Cardinality(D) /\ Len(base[r]) \in Nat
    BY <2>1, <2>3
  <2> QED
    BY <1>3, <2>2, <2>4, ReviewQueueAssumption
<1>6. /\ \A i \in Items : item'[i].promoted = 0 => item[i].promoted = 0 /\ i \notin D
      /\ \A i \in Items \ D : item'[i] = item[i]
  <2>1. Len(versions') # 0
    BY <1>3, <1>5, AddedVersion DEF ReviewInv, TablesOK
  <2>2. \A i \in Items : item[i] \in ItemRow
    BY DEF ReviewInv, TablesOK
  <2>3. ASSUME NEW i \in Items, NEW n PROVE [item[i] EXCEPT !.promoted = n].promoted = n
    BY <2>2 DEF ItemRow
  <2>4. /\ \A i \in D : i \in Items => item'[i] = [item[i] EXCEPT !.promoted = Len(versions')]
        /\ \A i \in Items \ D : item'[i] = item[i]
    BY DEF AppendPromoted
  <2>5. ASSUME NEW i \in D, i \in Items PROVE item'[i].promoted = Len(versions')
    <3>1. item'[i] = [item[i] EXCEPT !.promoted = Len(versions')]
      BY <2>4, <2>5
    <3>2. \A n : [item[i] EXCEPT !.promoted = n].promoted = n
      BY <2>3, <2>5
    <3> QED
      BY <3>1, <3>2, Zenon
  <2> QED
    BY <2>1, <2>4, <2>5
<1>7. Once(v, item', contested')
  BY <1>2, <1>3, <1>6, JoinedOnce
<1> HIDE DEF v
<1>8. \A w : Once(w, item, contested) => Once(w, item', contested')
  BY <1>3, <1>6, OnceLasts, Zenon
<1>9. \A n \in DOMAIN versions' : versions'[n] = v \/ (n \in DOMAIN versions /\ versions'[n] = versions[n])
  BY <1>3, <1>5 DEF ReviewInv, TablesOK
<1>10. \A n \in DOMAIN versions' :
          Len(versions'[n]) \in 1..MaxExamples /\ Once(versions'[n], item', contested')
  BY <1>5, <1>7, <1>8, <1>9 DEF OnceInv
<1>11. ASSUME NEW q \in Promoters, Promoting(q)' PROVE HoldInv(q)'
  <2>1. q # r /\ Promoting(q) /\ pc'[q] = pc[q]
    BY <1>1, <1>2, <1>11 DEF Promoting
  <2>2. HoldInv(q) /\ DOMAIN saw[q] \subseteq Items
    BY <1>1 DEF OnceInv, ReviewInv, RequestInv
  <2>3. \A i \in DOMAIN saw[q] \ contested : i \notin D
    BY <1>4, <2>1, <2>2 DEF HoldInv
  <2>4. \A i \in DOMAIN saw[q] \ contested : item'[i].promoted = 0
    BY <1>6, <2>1, <2>2, <2>3 DEF HoldInv
  <2>5. \A p \in Promoters : Promoting(p)' => Promoting(p)
    BY <1>1, <1>2 DEF Promoting
  <2>6. pc'[q] = "carrying" => Once(base'[q], item', contested')
    BY <1>3, <1>8, <2>1, <2>2 DEF HoldInv
  <2> QED
    BY <1>3, <2>1, <2>2, <2>4, <2>5, <2>6 DEF HoldInv
<1>12. \A q \in Promoters : HoldInv(q)'
  BY <1>11 DEF HoldInv
<1> QED
  BY <1>10, <1>12 DEF OnceInv

LEMMA OnceStep == ReviewInv /\ OnceInv /\ [Next]_vars => OnceInv'
<1> SUFFICES ASSUME ReviewInv, OnceInv, [Next]_vars PROVE OnceInv'
  OBVIOUS
<1>1. ASSUME NEW r \in Promoters, Promote(r) PROVE OnceInv'
  BY <1>1, SelectKeepsOnce, CarryKeepsOnce, AppendKeepsOnce DEF Promote
<1>2. ASSUME NEW r \in Requests, Refuse(r) PROVE OnceInv'
  <2>1. UNCHANGED <<item, versions, saw, base, contested>>
    BY <1>2 DEF Refuse, dataset, locals
  <2>2. pc'[r] = "refused" /\ \A q \in Requests \ {r} : pc'[q] = pc[q]
    BY <1>2 DEF Refuse, ReviewInv, LocalsOK
  <2>3. \A q \in Promoters : q \in Requests
    BY DEF Requests
  <2> QED
    BY <2>1, <2>2, <2>3, HoldLasts DEF OnceInv
<1>3. CASE PinVersion \/ DeleteDataset
  <2>1. UNCHANGED <<item, pc, saw, base, contested>> /\ (versions' = versions \/ versions' = <<>>)
    BY <1>3 DEF PinVersion, DeleteDataset, locals
  <2>2. \A n \in DOMAIN versions' : n \in DOMAIN versions /\ versions'[n] = versions[n]
    BY <2>1
  <2> QED
    BY <2>1, <2>2, HoldLasts DEF OnceInv
<1>4. CASE UNCHANGED vars
  <2>1. UNCHANGED <<item, versions, pc, saw, base, contested>>
    BY <1>4 DEF vars
  <2> QED
    BY <2>1, HoldLasts DEF OnceInv
<1> QED
  BY <1>1, <1>2, <1>3, <1>4, ReviewKeepsOnce, UploadKeepsOnce DEF Next

LEMMA OnceStart == Init => OnceInv
BY DEF Init, OnceInv, HoldInv, Promoting, Requests

-----------------------------------------------------------------------------
(* The theorems.                                                           *)

LEMMA ReviewStart == Init => ReviewInv
<1> SUFFICES ASSUME Init PROVE ReviewInv
  OBVIOUS
<1>1. TablesOK /\ \A i \in Items : Labelled(item[i])
  BY DEF Init, TablesOK, ItemRow, Labels, Verdicts, Unlabeled, Labelled
<1>2. LocalsOK
  BY DEF Init, LocalsOK, Labels, Unlabeled
<1>3. \A r \in Requests : RequestInv(r)
  BY DEF Init, RequestInv, NoSnapshot
<1>4. PromotionResolves
  BY DEF Init, PromotionResolves
<1> QED
  BY <1>1, <1>2, <1>3, <1>4 DEF ReviewInv

\* Only an item that was never promoted allows the dataset to go.
LEMMA DatasetKeeps == ASSUME ReviewInv, PinVersion \/ DeleteDataset PROVE ReviewInv'
<1>1. UNCHANGED <<item, pc, saw, want, base>>
  BY DEF PinVersion, DeleteDataset, locals
<1>2. versions' \in Seq(Seq(Example))
  <2>1. versions' = versions \/ versions' = <<>>
    BY DEF PinVersion, DeleteDataset
  <2>2. <<>> \in Seq(Seq(Example)) /\ versions \in Seq(Seq(Example))
    BY DEF ReviewInv, TablesOK
  <2> QED
    BY <2>1, <2>2
<1>3. PromotionResolves'
  BY <1>1 DEF ReviewInv, PromotionResolves, PinVersion, DeleteDataset
<1>4. TablesOK' /\ LocalsOK' /\ \A i \in Items : Labelled(item'[i])
  BY <1>1, <1>2 DEF ReviewInv, TablesOK, LocalsOK
<1>5. \A r \in Requests : RequestInv(r)'
  BY <1>1 DEF ReviewInv, RequestInv
<1> QED
  BY <1>3, <1>4, <1>5 DEF ReviewInv

LEMMA ReviewStep == ReviewInv /\ [Next]_vars => ReviewInv'
<1> SUFFICES ASSUME ReviewInv, [Next]_vars PROVE ReviewInv'
  OBVIOUS
<1>1. ASSUME NEW r \in Reviewers, Review(r) PROVE ReviewInv'
  <2>1. ASSUME NEW i \in Items, LabelRefused(r, i) PROVE ReviewInv'
    <3>1. r \in Requests /\ "refused" \in Ended
      BY DEF Requests, Ended
    <3>2. pc' = [pc EXCEPT ![r] = "refused"] /\ UNCHANGED <<item, versions, saw, want, base>>
      BY <2>1 DEF LabelRefused, Goto, dataset, locals
    <3>3. versions' \in Seq(Seq(Example)) /\ PromotionResolves'
      BY <3>2 DEF ReviewInv, TablesOK, PromotionResolves
    <3> QED
      BY <3>1, <3>2, <3>3, EndKeeps
  <2> QED
    BY <1>1, <2>1, ReadToLabelKeeps, ReadToSkipKeeps, WriteLabelKeeps, WriteSkipKeeps DEF Review
<1>2. ASSUME NEW r \in Promoters, Promote(r) PROVE ReviewInv'
  BY <1>2, SelectItemsKeeps, CarryForwardKeeps, AppendPromotedKeeps DEF Promote
<1>3. ASSUME NEW r \in Requests, Refuse(r) PROVE ReviewInv'
  <2>1. "refused" \in Ended /\ pc' = [pc EXCEPT ![r] = "refused"]
        /\ UNCHANGED <<item, versions, saw, want, base>>
    BY <1>3 DEF Refuse, dataset, locals, Ended
  <2>2. versions' \in Seq(Seq(Example)) /\ PromotionResolves'
    BY <2>1 DEF ReviewInv, TablesOK, PromotionResolves
  <2> QED
    BY <2>1, <2>2, EndKeeps
<1>4. CASE UNCHANGED vars
  BY <1>4 DEF vars, ReviewInv, TablesOK, LocalsOK, RequestInv, PromotionResolves
<1> QED
  BY <1>1, <1>2, <1>3, <1>4, UploadKeeps, DatasetKeeps DEF Next

\* The types, what each request has read, and what promoted items refer to, hold
\* in every reachable state, for any number of items and requests.
THEOREM ReviewInvHolds == Spec => []ReviewInv
BY ReviewStart, ReviewStep, PTL DEF Spec

\* Whatever reviewers, promotions, uploads and removals of the dataset do to each
\* other, a promoted item refers to a version that holds its example, with a
\* label and an answer.
THEOREM PromotedItemsResolve == Spec => []PromotionResolves
<1>1. ReviewInv => PromotionResolves
  BY DEF ReviewInv
<1> QED
  BY <1>1, ReviewInvHolds, PTL

\* Of an item that no two promotions have held at once, no version has two
\* examples, whatever labels, skips, uploads, promotions and removals do to each
\* other; and no version is empty or too large to be run.
THEOREM ItemsArePromotedOnce == Spec => []ExampleOnce
<1>1. ReviewInv /\ OnceInv => ExampleOnce
  <2> SUFFICES ASSUME ReviewInv, OnceInv, NEW n \in DOMAIN versions, NEW i \in Items \ contested
               PROVE  Occurrences(versions[n], i) <= 1
    BY DEF OnceInv, ExampleOnce
  <2> DEFINE at == {m \in DOMAIN versions[n] : versions[n][m].item = i}
  <2>1. \A k, m \in at : k = m
    BY DEF OnceInv, Once
  <2>2. at = {} \/ \E m : at = {m}
    BY <2>1
  <2>3. Cardinality(at) \in {0, 1}
    BY <2>2, FS_EmptySet, FS_Singleton
  <2> QED
    BY <2>3 DEF Occurrences
<1> QED
  BY <1>1, ReviewInvHolds, OnceStart, OnceStep, PTL DEF Spec

\* The label of a promoted item is written by nobody but a request that had read
\* the item before.
LEMMA LabelIsFrozen ==
    ASSUME ReviewInv, Next, NEW i \in Items, item[i].promoted # 0,
           item'[i].verdict # item[i].verdict
    PROVE  \E r \in Reviewers : /\ pc[r] = "labeling" /\ pc'[r] = "done"
                                /\ i \in DOMAIN saw[r] /\ saw[r][i].promoted = 0
<1>1. item[i] \in ItemRow /\ item = [j \in Items |-> item[j]]
  BY DEF ReviewInv, TablesOK
<1>2. ASSUME NEW r \in Reviewers, WriteLabel(r)
      PROVE  /\ pc[r] = "labeling" /\ pc'[r] = "done"
             /\ i \in DOMAIN saw[r] /\ saw[r][i].promoted = 0
  <2>1. r \in Requests /\ RequestInv(r)
    BY DEF Requests, ReviewInv
  <2>2. pc[r] = "labeling" /\ pc'[r] = "done"
    BY <1>2, <2>1, GotoFacts DEF ReviewInv, WriteLabel
  <2>3. PICK j \in DOMAIN saw[r] :
          item' = [item EXCEPT
            ![j].status = Column(@, saw[r][j].status, "labeled"),
            ![j].verdict = Column(@, saw[r][j].verdict, want[r].verdict),
            ![j].corrected = Column(@, saw[r][j].corrected, want[r].corrected)]
    BY <1>2 DEF WriteLabel
  <2>4. i = j
    BY <1>1, <2>3
  <2> QED
    BY <2>1, <2>2, <2>3, <2>4 DEF RequestInv
<1>3. ASSUME NEW r \in Reviewers, WriteSkip(r) PROVE FALSE
  <2>1. PICK j \in DOMAIN saw[r] :
          item' = [item EXCEPT ![j].status = Column(@, saw[r][j].status, "skipped")]
    BY <1>3 DEF WriteSkip
  <2>2. item'[i].verdict = item[i].verdict
    BY <1>1, <2>1 DEF ItemRow
  <2> QED
    BY <2>2
<1>4. ASSUME NEW r \in Promoters, AppendPromoted(r) PROVE FALSE
  <2>1. item'[i] = item[i] \/ item'[i] = [item[i] EXCEPT !.promoted = Len(versions')]
    BY <1>4 DEF AppendPromoted
  <2>2. item'[i].verdict = item[i].verdict
    BY <1>1, <2>1 DEF ItemRow
  <2> QED
    BY <2>2
<1>5. item' # item
  OBVIOUS
<1> QED
  BY <1>2, <1>3, <1>4, <1>5 DEF Next, Review, Promote, ReadToLabel, LabelRefused, ReadToSkip,
     SelectItems, CarryForward, UploadVersion, Refuse, PinVersion, DeleteDataset

\* No step takes the stamp of a promotion back.
LEMMA PromotedStays ==
    ASSUME ReviewInv, Next, NEW i \in Items, item[i].promoted # 0
    PROVE  item'[i].promoted # 0
<1>1. item[i] \in ItemRow /\ item = [j \in Items |-> item[j]]
  BY DEF ReviewInv, TablesOK
<1>2. ASSUME NEW r \in Reviewers, WriteLabel(r) PROVE item'[i].promoted = item[i].promoted
  <2>1. PICK j \in DOMAIN saw[r] :
          item' = [item EXCEPT
            ![j].status = Column(@, saw[r][j].status, "labeled"),
            ![j].verdict = Column(@, saw[r][j].verdict, want[r].verdict),
            ![j].corrected = Column(@, saw[r][j].corrected, want[r].corrected)]
    BY <1>2 DEF WriteLabel
  <2> QED
    BY <1>1, <2>1 DEF ItemRow
<1>3. ASSUME NEW r \in Reviewers, WriteSkip(r) PROVE item'[i].promoted = item[i].promoted
  <2>1. PICK j \in DOMAIN saw[r] :
          item' = [item EXCEPT ![j].status = Column(@, saw[r][j].status, "skipped")]
    BY <1>3 DEF WriteSkip
  <2> QED
    BY <1>1, <2>1 DEF ItemRow
<1>4. ASSUME NEW r \in Promoters, AppendPromoted(r) PROVE item'[i].promoted # 0
  <2>1. item'[i] = item[i] \/ item'[i] = [item[i] EXCEPT !.promoted = Len(versions')]
    BY <1>4 DEF AppendPromoted
  <2>2. Len(versions') # 0
    BY <1>4 DEF AppendPromoted, ReviewInv, TablesOK
  <2>3. [item[i] EXCEPT !.promoted = Len(versions')].promoted = Len(versions')
    BY <1>1 DEF ItemRow
  <2> QED
    BY <2>1, <2>2, <2>3
<1> QED
  BY <1>2, <1>3, <1>4 DEF Next, Review, Promote, ReadToLabel, LabelRefused, ReadToSkip,
     SelectItems, CarryForward, UploadVersion, Refuse, PinVersion, DeleteDataset

\* If more control items are missed than reviewed, one was labelled and skipped.
LEMMA MissesAreReviewed ==
    ASSUME ReviewInv, queue_stats.control_missed > queue_stats.control_reviewed
    PROVE  \E i \in Controls : item[i].verdict = "bad" /\ item[i].status = "skipped"
<1> DEFINE Missed == Controls \cap {i \in Items : item[i].verdict = "bad"}
           Reviewed == Controls \cap {i \in Items : item[i].status = "labeled"}
<1>1. queue_stats.control_missed = Cardinality(Missed)
      /\ queue_stats.control_reviewed = Cardinality(Reviewed)
  BY DEF queue_stats
<1>2. IsFiniteSet(Reviewed)
  BY FS_Subset, ReviewQueueAssumption
<1>3. ASSUME Missed \subseteq Reviewed PROVE FALSE
  <2>1. Cardinality(Missed) <= Cardinality(Reviewed)
    BY <1>2, <1>3, FS_Subset
  <2>2. Cardinality(Missed) \in Nat /\ Cardinality(Reviewed) \in Nat
    BY <1>2, <1>3, FS_Subset, FS_CardinalityType
  <2> QED
    BY <1>1, <2>1, <2>2
<1>4. PICK i \in Missed : i \notin Reviewed
  BY <1>3
<1>5. i \in Controls /\ i \in Items /\ item[i].verdict = "bad" /\ item[i].status # "labeled"
  BY <1>4
<1>6. item[i].status \in {"pending", "labeled", "skipped"} /\ Labelled(item[i])
  BY <1>5 DEF ReviewInv, TablesOK, ItemRow
<1> QED
  BY <1>5, <1>6 DEF Labelled, Verdicts

\* What has been judged stays judged: labels of promoted items are frozen but for
\* requests that overlap the promotion, promotions are not taken back, and misses
\* exceed reviews only by what was labelled and then skipped (review.py:305, :358).
THEOREM JudgementsAreKept == Spec => JudgementsStand
<1> DEFINE Promoted == {i \in Items : item[i].promoted # 0}
           Judged ==
      /\ \A i \in Items : item[i].promoted # 0 /\ item'[i].verdict # item[i].verdict =>
            \E r \in Reviewers : /\ pc[r] = "labeling" /\ pc'[r] = "done"
                                 /\ i \in DOMAIN saw[r] /\ saw[r][i].promoted = 0
      /\ queue_stats'.promoted >= queue_stats.promoted
      /\ queue_stats.control_missed > queue_stats.control_reviewed =>
            \E i \in Controls : item[i].verdict = "bad" /\ item[i].status = "skipped"
<1>1. ReviewInv /\ [Next]_vars => [Judged]_vars
  <2> SUFFICES ASSUME ReviewInv, Next PROVE Judged
    OBVIOUS
  <2>1. \A i \in Items : item[i].promoted # 0 /\ item'[i].verdict # item[i].verdict =>
          \E r \in Reviewers : /\ pc[r] = "labeling" /\ pc'[r] = "done"
                               /\ i \in DOMAIN saw[r] /\ saw[r][i].promoted = 0
    BY LabelIsFrozen
  <2>2. queue_stats'.promoted >= queue_stats.promoted
    <3>1. Promoted \subseteq Promoted'
      BY PromotedStays
    <3>2. IsFiniteSet(Promoted) /\ IsFiniteSet(Promoted')
      BY FS_Subset, ReviewQueueAssumption
    <3>3. Cardinality(Promoted) <= Cardinality(Promoted')
      BY <3>1, <3>2, FS_Subset
    <3>4. Cardinality(Promoted) \in Nat /\ Cardinality(Promoted') \in Nat
      BY <3>2, FS_CardinalityType
    <3>5. /\ Items \ {i \in Items : item[i]["promoted"] = 0} = Promoted
          /\ Items \ {i \in Items : item'[i]["promoted"] = 0} = Promoted'
      OBVIOUS
    <3>6. /\ queue_stats.promoted = Cardinality(Promoted)
          /\ queue_stats'.promoted = Cardinality(Promoted')
      BY <3>5 DEF queue_stats
    <3> QED
      BY <3>3, <3>4, <3>6
  <2> QED
    BY <2>1, <2>2, MissesAreReviewed
<1> QED
  BY <1>1, ReviewInvHolds, PTL DEF Spec, JudgementsStand

-----------------------------------------------------------------------------
(* The guardrail sampler.                                                  *)

Watermarks == [Projects -> Int \cup {Never}]
Stages == {"idle", "scan", "examine", "commit"}

SamplerTypeOK ==
    /\ clock \in Nat /\ arrived \subseteq Traces
    /\ watermark \in Watermarks
    /\ stage \in [Passes -> Stages]
    /\ read \in [Passes -> Watermarks] /\ marks \in [Passes -> Watermarks]
    /\ list \in [Passes -> Seq(Traces)] /\ upto \in [Passes -> Nat]
    /\ todo = [p \in Passes |-> todo[p]] /\ covered = [p \in Passes |-> covered[p]]

\* The traces of project q that a watermark at time m leaves behind.
Behind(q, m) == {t \in Traces : ProjectOf[t] = q /\ StartOf[t] <= m}

Tied(p, t) == t \in arrived /\ list[p] # <<>> /\ StartOf[t] = StartOf[Last(list[p])]

\* What pass p has read was accounted for when it was read; what its own marks
\* leave behind it has covered, or others had; and when it has scanned a project,
\* what the mark would leave behind is that, or on its list, or tied with the last
\* of it.
PassInv(p) ==
    /\ \A q \in Projects : read[p][q] # Never => Behind(q, read[p][q]) \subseteq accounted
    /\ \A q \in Projects : marks[p][q] # Never =>
          Behind(q, marks[p][q]) \subseteq covered[p] \cup accounted
    /\ stage[p] = "examine" =>
          \A t \in Behind(Head(todo[p]), Mark(p)) :
             t \in covered[p] \cup accounted \cup Elements(list[p]) \/ Tied(p, t)

SamplerInv ==
    /\ SamplerTypeOK
    /\ \A p \in Passes : PassInv(p)
    /\ NothingLeftBehind

-----------------------------------------------------------------------------
(* Steps of others.                                                        *)

\* The work of a pass, and what it stands on, which only grows.
LEMMA OtherKeeps ==
    ASSUME NEW p, PassInv(p), stage'[p] = stage[p], read'[p] = read[p], marks'[p] = marks[p],
           list'[p] = list[p], upto'[p] = upto[p], todo'[p] = todo[p],
           covered'[p] = covered[p], accounted \subseteq accounted', arrived \subseteq arrived'
    PROVE  PassInv(p)'
<1>1. Mark(p)' = Mark(p)
  BY DEF Mark
<1>2. \A t : Tied(p, t) => Tied(p, t)'
  BY DEF Tied
<1>3. \A q \in Projects : read'[p][q] # Never => Behind(q, read'[p][q]) \subseteq accounted'
  BY DEF PassInv
<1>4. \A q \in Projects : marks'[p][q] # Never =>
          Behind(q, marks'[p][q]) \subseteq covered'[p] \cup accounted'
  BY DEF PassInv
<1>5. ASSUME stage'[p] = "examine"
      PROVE  \A t \in Behind(Head(todo'[p]), Mark(p)') :
                t \in covered'[p] \cup accounted' \cup Elements(list'[p]) \/ Tied(p, t)'
  BY <1>1, <1>2, <1>5 DEF PassInv
<1> QED
  BY <1>3, <1>4, <1>5 DEF PassInv

LEMMA PassStep ==
    ASSUME SamplerInv, NEW p \in Passes, SamplerTypeOK', PassInv(p)',
           \A o \in Passes \ {p} :
              /\ stage'[o] = stage[o] /\ read'[o] = read[o] /\ marks'[o] = marks[o]
              /\ list'[o] = list[o] /\ upto'[o] = upto[o] /\ todo'[o] = todo[o]
              /\ covered'[o] = covered[o],
           accounted \subseteq accounted', arrived \subseteq arrived', NothingLeftBehind'
    PROVE  SamplerInv'
<1>1. ASSUME NEW o \in Passes PROVE PassInv(o)'
  <2>1. CASE o # p
    BY <2>1, OtherKeeps DEF SamplerInv
  <2> QED
    BY <2>1
<1> QED
  BY <1>1 DEF SamplerInv

\* Tick, Arrive and TurnError.
LEMMA WorldKeeps ==
    ASSUME SamplerInv, UNCHANGED <<committed, stage, work>>, clock' \in Nat,
           arrived \subseteq arrived', arrived' \subseteq Traces
    PROVE  SamplerInv'
<1>1. SamplerTypeOK'
  BY DEF SamplerInv, SamplerTypeOK, committed, work, scan
<1>2. \A p \in Passes : PassInv(p)'
  BY OtherKeeps DEF SamplerInv, committed, work, scan
<1>3. NothingLeftBehind'
  BY DEF SamplerInv, NothingLeftBehind, committed
<1> QED
  BY <1>1, <1>2, <1>3 DEF SamplerInv

LEMMA NoMarksFacts == NoMarks \in Watermarks /\ \A q \in Projects : NoMarks[q] = Never
BY DEF NoMarks, Watermarks

\* A pass that ends, with what it has covered or without it.
LEMMA ForgetKeeps ==
    ASSUME SamplerInv, NEW p \in Passes, Forget(p), stage' = [stage EXCEPT ![p] = "idle"],
           UNCHANGED <<clock, arrived>>, watermark' \in Watermarks,
           accounted \subseteq accounted', NothingLeftBehind'
    PROVE  SamplerInv'
<1>1. /\ stage'[p] = "idle" /\ read'[p] = NoMarks /\ marks'[p] = NoMarks
      /\ \A o \in Passes \ {p} :
              /\ stage'[o] = stage[o] /\ read'[o] = read[o] /\ marks'[o] = marks[o]
              /\ list'[o] = list[o] /\ upto'[o] = upto[o] /\ todo'[o] = todo[o]
              /\ covered'[o] = covered[o]
  BY DEF Forget, SamplerInv, SamplerTypeOK
<1>2. SamplerTypeOK'
  <2>1. <<>> \in Seq(Traces) /\ "idle" \in Stages
    BY DEF Stages
  <2>2. list' \in [Passes -> Seq(Traces)]
    BY <2>1 DEF Forget, SamplerInv, SamplerTypeOK
  <2>3. stage' \in [Passes -> Stages] /\ upto' \in [Passes -> Nat]
    BY <2>1 DEF Forget, SamplerInv, SamplerTypeOK
  <2>4. read' \in [Passes -> Watermarks] /\ marks' \in [Passes -> Watermarks]
    BY NoMarksFacts DEF Forget, SamplerInv, SamplerTypeOK
  <2>5. todo' = [o \in Passes |-> todo'[o]] /\ covered' = [o \in Passes |-> covered'[o]]
    BY DEF Forget, SamplerInv, SamplerTypeOK
  <2> QED
    BY <2>2, <2>3, <2>4, <2>5 DEF SamplerInv, SamplerTypeOK
<1>3. PassInv(p)'
  BY <1>1, NoMarksFacts DEF PassInv
<1> QED
  BY <1>1, <1>2, <1>3, PassStep

-----------------------------------------------------------------------------
(* Steps of a pass.                                                        *)

LEMMA BeginPassKeeps == ASSUME SamplerInv, NEW p \in Passes, BeginPass(p) PROVE SamplerInv'
<1>1. PICK order : todo' = [todo EXCEPT ![p] = order]
  BY DEF BeginPass
<1>2. /\ stage' = [stage EXCEPT ![p] = "scan"] /\ read' = [read EXCEPT ![p] = watermark]
      /\ UNCHANGED <<clock, arrived, watermark, accounted, list, upto, marks, covered>>
  BY DEF BeginPass, MoveOn, traces, committed, scan
<1>3. SamplerTypeOK'
  BY <1>1, <1>2 DEF SamplerInv, SamplerTypeOK, Stages
<1>4. /\ stage'[p] = "scan" /\ read'[p] = watermark
      /\ \A o \in Passes \ {p} : stage'[o] = stage[o] /\ read'[o] = read[o] /\ todo'[o] = todo[o]
  BY <1>1, <1>2 DEF SamplerInv, SamplerTypeOK
<1>5. \A q \in Projects : watermark[q] # Never => Behind(q, watermark[q]) \subseteq accounted
  BY DEF SamplerInv, NothingLeftBehind, Behind
<1>6. PassInv(p)'
  BY <1>2, <1>4, <1>5 DEF SamplerInv, PassInv
<1>7. NothingLeftBehind'
  BY <1>2 DEF SamplerInv, NothingLeftBehind
<1> QED
  BY <1>2, <1>3, <1>4, <1>6, <1>7, PassStep

\* A list holds what it is made of, and is empty only if there is nothing.
LEMMA ScanFacts ==
    ASSUME NEW S \in SUBSET Traces, NEW s \in SetToSeqs(S)
    PROVE  /\ s \in Seq(Traces) /\ Elements(s) \subseteq S
           /\ s # <<>> => Len(s) \in DOMAIN s /\ Last(s) \in Elements(s)
<1>1. Cardinality(S) \in Nat
  BY GuardrailSamplerAssumption, FS_Subset, FS_CardinalityType
<1>2. s \in [1..Cardinality(S) -> S]
  BY DEF SetToSeqs
<1>3. s \in Seq(Traces) /\ Elements(s) \subseteq S
  BY <1>1, <1>2 DEF Elements
<1>4. s # <<>> => Len(s) \in DOMAIN s /\ Last(s) \in Elements(s)
  BY <1>3 DEF Last, Elements
<1> QED
  BY <1>3, <1>4

LEMMA ScanProjectKeeps == ASSUME SamplerInv, NEW p \in Passes, ScanProject(p) PROVE SamplerInv'
<1> DEFINE q == Head(todo[p])
           window == Window(p, q)
           before == {t \in Traces : ProjectOf[t] = q /\ StartOf[t] <= Since(p, q)}
           seen == window \cap arrived
<1>1. PICK S \in SUBSET seen : \E s \in SetToSeqs(S) :
          OldestFirst(seen, s) /\ list' = [list EXCEPT ![p] = s]
  BY DEF ScanProject
<1>2. PICK s \in SetToSeqs(S) : OldestFirst(seen, s) /\ list' = [list EXCEPT ![p] = s]
  BY <1>1
<1>3. /\ stage' = [stage EXCEPT ![p] = "examine"]
      /\ upto' = [upto EXCEPT ![p] = clock]
      /\ covered' = [covered EXCEPT ![p] = @ \cup (window \ arrived)
                         \cup (IF read[p][q] = Never THEN before ELSE {})]
      /\ UNCHANGED <<clock, arrived, watermark, accounted, todo, read, marks>>
  BY DEF ScanProject, MoveOn, traces, committed
<1>4. /\ seen \subseteq Traces
      /\ \A t \in Traces : /\ t \in window <=> ProjectOf[t] = q /\ StartOf[t] > Since(p, q) /\ StartOf[t] <= clock
                           /\ t \in before <=> ProjectOf[t] = q /\ StartOf[t] <= Since(p, q)
                           /\ t \in seen <=> t \in window /\ t \in arrived
  BY DEF Window
<1>5. /\ s \in Seq(Traces) /\ Elements(s) \subseteq seen
      /\ s # <<>> => Len(s) \in DOMAIN s /\ Last(s) \in Elements(s)
  BY <1>1, <1>2, <1>4, ScanFacts
<1>6. SamplerTypeOK'
  BY <1>2, <1>3, <1>5 DEF SamplerInv, SamplerTypeOK, Stages
<1> HIDE DEF window, before, seen
<1>7. /\ stage'[p] = "examine" /\ list'[p] = s /\ upto'[p] = clock
      /\ covered'[p] = covered[p] \cup (window \ arrived)
                         \cup (IF read[p][q] = Never THEN before ELSE {})
      /\ \A o \in Passes \ {p} : /\ stage'[o] = stage[o] /\ list'[o] = list[o] /\ upto'[o] = upto[o]
                                 /\ covered'[o] = covered[o]
  BY <1>2, <1>3 DEF SamplerInv, SamplerTypeOK
<1>8. s = <<>> => seen = {}
  <2>1. Cardinality(seen) \in Nat /\ IsFiniteSet(seen)
    BY <1>4, GuardrailSamplerAssumption, FS_Subset, FS_CardinalityType
  <2>2. s = <<>> => Cardinality(seen) = 0
    BY <1>2, <2>1, GuardrailSamplerAssumption DEF OldestFirst
  <2> QED
    BY <2>1, <2>2, FS_EmptySet
<1>9. ASSUME NEW t \in Behind(q, Mark(p)')
      PROVE  t \in covered'[p] \cup accounted \cup Elements(s)
             \/ (t \in arrived /\ s # <<>> /\ StartOf[t] = StartOf[Last(s)])
  <2>1. t \in Traces /\ ProjectOf[t] = q /\ q \in Projects /\ StartOf[t] \in Nat
        /\ StartOf[t] <= Mark(p)'
    BY <1>9, GuardrailSamplerAssumption DEF Behind
  <2>2. Mark(p)' = IF s = <<>> THEN clock ELSE StartOf[Last(s)]
    BY <1>7 DEF Mark
  <2>3. clock \in Nat /\ read[p][q] \in Int \cup {Never} /\ Since(p, q) \in Int
    BY <2>1, GuardrailSamplerAssumption DEF SamplerInv, SamplerTypeOK, Watermarks, Since
  <2>4. s # <<>> => Last(s) \in Traces /\ StartOf[Last(s)] \in Nat /\ StartOf[Last(s)] <= clock
    BY <1>4, <1>5, GuardrailSamplerAssumption
  <2>5. StartOf[t] <= clock
    BY <2>1, <2>2, <2>3, <2>4
  <2>6. CASE StartOf[t] <= Since(p, q)
    <3>1. CASE read[p][q] = Never
      BY <1>4, <1>7, <2>1, <2>6, <3>1
    <3>2. CASE read[p][q] # Never
      <4>1. t \in Behind(q, read[p][q])
        BY <2>1, <2>6, <3>2 DEF Behind, Since
      <4> QED
        BY <2>1, <3>2, <4>1 DEF SamplerInv, PassInv
    <3> QED
      BY <3>1, <3>2
  <2>7. CASE StartOf[t] > Since(p, q)
    <3>1. t \in window
      BY <1>4, <2>1, <2>5, <2>7
    <3>2. CASE t \in seen \ Elements(s)
      <4>1. s # <<>> /\ t \in arrived
        BY <1>4, <1>8, <2>1, <3>2
      <4>2. StartOf[Last(s)] <= StartOf[t]
        BY <1>2, <1>5, <3>2, <4>1 DEF OldestFirst, Last
      <4> QED
        BY <2>1, <2>2, <2>4, <4>1, <4>2
    <3> QED
      BY <1>4, <1>7, <2>1, <3>1, <3>2
  <2> QED
    BY <2>1, <2>3, <2>6, <2>7
<1>10. covered[p] \subseteq covered'[p]
  BY <1>7
<1>11. PassInv(p)'
  <2>1. \A t \in Behind(Head(todo'[p]), Mark(p)') :
           t \in covered'[p] \cup accounted' \cup Elements(list'[p]) \/ Tied(p, t)'
    BY <1>3, <1>7, <1>9 DEF Tied
  <2>2. /\ \A k \in Projects : read'[p][k] # Never => Behind(k, read'[p][k]) \subseteq accounted'
        /\ \A k \in Projects : marks'[p][k] # Never =>
              Behind(k, marks'[p][k]) \subseteq covered'[p] \cup accounted'
    BY <1>3, <1>10 DEF SamplerInv, PassInv
  <2> QED
    BY <2>1, <2>2 DEF PassInv
<1>12. NothingLeftBehind'
  BY <1>3 DEF SamplerInv, NothingLeftBehind
<1> QED
  BY <1>3, <1>6, <1>7, <1>11, <1>12, PassStep

LEMMA NextProjectFacts ==
    ASSUME SamplerTypeOK, NEW p \in Passes, NextProject(p)
    PROVE  /\ stage' \in [Passes -> Stages] /\ stage'[p] # "examine"
           /\ list' \in [Passes -> Seq(Traces)] /\ upto' \in [Passes -> Nat]
           /\ todo' = [o \in Passes |-> todo'[o]]
           /\ \A o \in Passes \ {p} : /\ stage'[o] = stage[o] /\ list'[o] = list[o]
                                      /\ upto'[o] = upto[o] /\ todo'[o] = todo[o]
<1>1. <<>> \in Seq(Traces)
  OBVIOUS
<1>2. list' \in [Passes -> Seq(Traces)]
  BY <1>1 DEF SamplerTypeOK, NextProject
<1>3. stage' \in [Passes -> Stages] /\ stage'[p] # "examine"
  BY DEF SamplerTypeOK, NextProject, Stages
<1>4. upto' \in [Passes -> Nat] /\ todo' = [o \in Passes |-> todo'[o]]
  BY DEF SamplerTypeOK, NextProject
<1>5. \A o \in Passes \ {p} : /\ stage'[o] = stage[o] /\ list'[o] = list[o]
                             /\ upto'[o] = upto[o] /\ todo'[o] = todo[o]
  BY DEF SamplerTypeOK, NextProject
<1> QED
  BY <1>2, <1>3, <1>4, <1>5

LEMMA ExamineProjectKeeps == ASSUME SamplerInv, NEW p \in Passes, ExamineProject(p) PROVE SamplerInv'
<1> DEFINE q == Head(todo[p])
           s == list[p]
           tied == {t \in arrived : ProjectOf[t] = q /\ s # <<>> /\ StartOf[t] = StartOf[Last(s)]}
<1>1. /\ stage[p] = "examine" /\ NextProject(p)
      /\ marks' = [marks EXCEPT ![p][q] = Mark(p)]
      /\ covered' = [covered EXCEPT ![p] = @ \cup Elements(s) \cup tied]
      /\ UNCHANGED <<clock, arrived, watermark, accounted, read>>
  BY DEF ExamineProject, traces, committed
<1>2. SamplerTypeOK /\ PassInv(p)
  BY DEF SamplerInv
<1>3. /\ stage'[p] # "examine"
      /\ \A o \in Passes \ {p} : /\ stage'[o] = stage[o] /\ list'[o] = list[o]
                                 /\ upto'[o] = upto[o] /\ todo'[o] = todo[o]
  BY <1>1, <1>2, NextProjectFacts
<1>4. Mark(p) \in Int
  <2>1. s # <<>> => Last(s) \in Traces
    BY <1>2 DEF SamplerTypeOK, Last
  <2> QED
    BY <1>2, <2>1, GuardrailSamplerAssumption DEF SamplerTypeOK, Mark
<1>5. /\ marks' \in [Passes -> Watermarks]
      /\ \A k \in Projects : marks'[p][k] = IF k = q THEN Mark(p) ELSE marks[p][k]
      /\ \A o \in Passes \ {p} : marks'[o] = marks[o]
  BY <1>1, <1>2, <1>4 DEF SamplerTypeOK, Watermarks
<1>6. /\ covered'[p] = covered[p] \cup Elements(s) \cup tied
      /\ covered' = [o \in Passes |-> covered'[o]]
      /\ \A o \in Passes \ {p} : covered'[o] = covered[o]
  BY <1>1, <1>2 DEF SamplerTypeOK
<1>7. SamplerTypeOK'
  BY <1>1, <1>2, <1>5, <1>6, NextProjectFacts DEF SamplerTypeOK
<1>8. \A t \in Behind(q, Mark(p)) : t \in covered'[p] \cup accounted
  <2> SUFFICES ASSUME NEW t \in Behind(q, Mark(p)) PROVE t \in covered'[p] \cup accounted
    OBVIOUS
  <2>1. t \in covered[p] \cup accounted \cup Elements(s) \/ Tied(p, t)
    BY <1>1, <1>2 DEF PassInv
  <2>2. Tied(p, t) => t \in tied
    BY DEF Tied, Behind
  <2> QED
    BY <1>6, <2>1, <2>2
<1>9. \A k \in Projects : marks'[p][k] # Never =>
          Behind(k, marks'[p][k]) \subseteq covered'[p] \cup accounted
  <2> SUFFICES ASSUME NEW k \in Projects, marks'[p][k] # Never
               PROVE  Behind(k, marks'[p][k]) \subseteq covered'[p] \cup accounted
    OBVIOUS
  <2>1. CASE k = q
    BY <1>5, <1>8, <2>1
  <2>2. CASE k # q
    BY <1>2, <1>5, <1>6, <2>2 DEF PassInv
  <2> QED
    BY <2>1, <2>2
<1>10. PassInv(p)'
  BY <1>1, <1>2, <1>3, <1>9 DEF PassInv
<1>11. NothingLeftBehind'
  BY <1>1 DEF SamplerInv, NothingLeftBehind
<1> QED
  BY <1>1, <1>3, <1>5, <1>6, <1>7, <1>10, <1>11, PassStep

LEMMA ExamineRaisesKeeps == ASSUME SamplerInv, NEW p \in Passes, ExamineRaises(p) PROVE SamplerInv'
<1>1. /\ NextProject(p)
      /\ UNCHANGED <<clock, arrived, watermark, accounted, read, marks, covered>>
  BY DEF ExamineRaises, traces, committed
<1>2. SamplerTypeOK /\ PassInv(p)
  BY DEF SamplerInv
<1>3. /\ stage'[p] # "examine"
      /\ \A o \in Passes \ {p} : /\ stage'[o] = stage[o] /\ list'[o] = list[o]
                                 /\ upto'[o] = upto[o] /\ todo'[o] = todo[o]
  BY <1>1, <1>2, NextProjectFacts
<1>4. SamplerTypeOK'
  BY <1>1, <1>2, NextProjectFacts DEF SamplerTypeOK
<1>5. PassInv(p)'
  BY <1>1, <1>2, <1>3 DEF PassInv
<1>6. NothingLeftBehind'
  BY <1>1 DEF SamplerInv, NothingLeftBehind
<1> QED
  BY <1>1, <1>3, <1>4, <1>5, <1>6, PassStep

\* A watermark that moves, moves with what its pass has covered.
LEMMA CommitPassKeeps == ASSUME SamplerInv, NEW p \in Passes, CommitPass(p) PROVE SamplerInv'
<1>1. /\ stage' = [stage EXCEPT ![p] = "idle"] /\ Forget(p)
      /\ watermark' = [q \in Projects |->
            IF marks[p][q] \in {Never, read[p][q]} THEN watermark[q] ELSE marks[p][q]]
      /\ accounted' = accounted \cup covered[p]
      /\ UNCHANGED <<clock, arrived>>
  BY DEF CommitPass, MoveOn, traces
<1>2. SamplerTypeOK /\ PassInv(p) /\ NothingLeftBehind
  BY DEF SamplerInv
<1>3. watermark' \in Watermarks
  BY <1>1, <1>2 DEF SamplerTypeOK, Watermarks
<1>4. NothingLeftBehind'
  <2> SUFFICES ASSUME NEW t \in Traces, watermark'[ProjectOf[t]] # Never,
                      StartOf[t] <= watermark'[ProjectOf[t]]
               PROVE  t \in accounted'
    BY DEF NothingLeftBehind
  <2>1. ProjectOf[t] \in Projects
    BY GuardrailSamplerAssumption
  <2>2. CASE watermark'[ProjectOf[t]] = watermark[ProjectOf[t]]
    BY <1>1, <1>2, <2>2 DEF NothingLeftBehind
  <2>3. CASE watermark'[ProjectOf[t]] = marks[p][ProjectOf[t]]
    <3>1. t \in Behind(ProjectOf[t], marks[p][ProjectOf[t]])
      BY <2>3 DEF Behind
    <3> QED
      BY <1>1, <1>2, <2>1, <2>3, <3>1 DEF PassInv
  <2> QED
    BY <1>1, <2>1, <2>2, <2>3
<1> QED
  BY <1>1, <1>3, <1>4, ForgetKeeps

LEMMA LostPassKeeps ==
    ASSUME SamplerInv, NEW p \in Passes, Crash(p) \/ BreakDeadlock(p) PROVE SamplerInv'
<1>1. /\ stage' = [stage EXCEPT ![p] = "idle"] /\ Forget(p)
      /\ UNCHANGED <<clock, arrived, watermark, accounted>>
  BY DEF Crash, BreakDeadlock, traces, committed
<1>2. watermark' \in Watermarks /\ NothingLeftBehind'
  BY <1>1 DEF SamplerInv, SamplerTypeOK, NothingLeftBehind
<1> QED
  BY <1>1, <1>2, ForgetKeeps

-----------------------------------------------------------------------------
(* The theorems.                                                           *)

LEMMA SamplerStart == SamplerInit => SamplerInv
<1> SUFFICES ASSUME SamplerInit PROVE SamplerInv
  OBVIOUS
<1>1. SamplerTypeOK
  BY NoMarksFacts DEF SamplerInit, SamplerTypeOK, Stages
<1>2. \A p \in Passes : PassInv(p)
  BY NoMarksFacts DEF SamplerInit, PassInv
<1>3. NothingLeftBehind
  BY NoMarksFacts, GuardrailSamplerAssumption DEF SamplerInit, NothingLeftBehind
<1> QED
  BY <1>1, <1>2, <1>3 DEF SamplerInv

LEMMA SamplerStep == SamplerInv /\ [SamplerNext]_samplerVars => SamplerInv'
<1> SUFFICES ASSUME SamplerInv, [SamplerNext]_samplerVars PROVE SamplerInv'
  OBVIOUS
<1>1. clock \in Nat /\ arrived \subseteq Traces
  BY DEF SamplerInv, SamplerTypeOK
<1>2. CASE Tick \/ UNCHANGED samplerVars
  <2>1. UNCHANGED <<committed, stage, work, arrived>> /\ clock' \in Nat
    BY <1>1, <1>2 DEF Tick, samplerVars, traces
  <2> QED
    BY <1>1, <2>1, WorldKeeps
<1>3. ASSUME NEW t \in Traces, Arrive(t) \/ TurnError(t) PROVE SamplerInv'
  <2>1. /\ UNCHANGED <<committed, stage, work, clock>>
        /\ arrived \subseteq arrived' /\ arrived' \subseteq Traces
    BY <1>1, <1>3 DEF Arrive, TurnError
  <2> QED
    BY <1>1, <2>1, WorldKeeps
<1>4. ASSUME NEW p \in Passes, Pass(p) \/ Crash(p) PROVE SamplerInv'
  BY <1>4, BeginPassKeeps, ScanProjectKeeps, ExamineProjectKeeps, ExamineRaisesKeeps,
     CommitPassKeeps, LostPassKeeps DEF Pass
<1> QED
  BY <1>2, <1>3, <1>4 DEF SamplerNext

\* What each pass has read, scanned and marked, and what the watermarks leave
\* behind, hold in every reachable state, for any projects, traces and passes.
THEOREM SamplerInvHolds == SamplerSpec => []SamplerInv
BY SamplerStart, SamplerStep, PTL DEF SamplerSpec

\* However passes overlap, wait for each other, raise or die, and whenever rollups
\* arrive, a trace behind the watermark was examined by a pass that committed, or
\* that pass could not see it.
THEOREM WatermarksAreHonest == SamplerSpec => []NothingLeftBehind
<1>1. SamplerInv => NothingLeftBehind
  BY DEF SamplerInv
<1> QED
  BY <1>1, SamplerInvHolds, PTL
=============================================================================
