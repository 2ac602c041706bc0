------------------------------ MODULE PromptDiff ------------------------------
(***************************************************************************)
(* What has changed between two versions of a prompt: its messages by      *)
(* their place, its parameters by their name. A prompt is its versions, by *)
(* number, and the numbers that its labels point at; a version is called   *)
(* by either. A parameter has a value and a type, and Python compares the  *)
(* values: True, 1 and 1.0 are equal.                                      *)
(***************************************************************************)
EXTENDS Naturals, Sequences, Functions

CONSTANTS
    Numeral,   \* the references made of digits, and their numbers
    Absent     \* no message, or no parameter

ASSUME PromptDiffAssumption == Range(Numeral) \subseteq Nat

IsFunction(f) == f = [k \in DOMAIN f |-> f[k]]

IsPrompt(prompt) ==
    /\ \A n \in DOMAIN prompt.versions : /\ IsFunction(prompt.versions[n].messages)
                                         /\ IsFunction(prompt.versions[n].parameters)
    /\ Range(prompt.labels) \subseteq DOMAIN prompt.versions

\* resolve_version: digits are a number, whatever label they may be as well.
Resolvable(prompt, ref) ==
    IF ref \in DOMAIN Numeral THEN Numeral[ref] \in DOMAIN prompt.versions
                              ELSE ref \in DOMAIN prompt.labels
resolve_version(prompt, ref) ==
    IF ref \in DOMAIN Numeral THEN Numeral[ref] ELSE prompt.labels[ref]

-----------------------------------------------------------------------------
(* diff_versions.                                                          *)

ChangeKind(inBefore, inAfter, same) ==
    CASE inBefore /\ ~inAfter -> "removed"
      [] ~inBefore /\ inAfter -> "added"
      [] OTHER -> IF same THEN "unchanged" ELSE "modified"

Same(old, new) == old.value = new.value

Side(f, k) == IF k \in DOMAIN f THEN f[k] ELSE Absent

\* diff_messages, and diff_parameters: what either side has, on both sides.
diff_messages(before, after) ==
    [n \in DOMAIN before \cup DOMAIN after |->
        [change |-> ChangeKind(n \in DOMAIN before, n \in DOMAIN after, before[n] = after[n]),
         from   |-> Side(before, n),
         to     |-> Side(after, n)]]

\* Mutant: parameters that have not changed are left out.
diff_parameters_changed(before, after) ==
    [k \in {j \in DOMAIN before \cup DOMAIN after :
                j \in DOMAIN before \cap DOMAIN after => ~Same(before[j], after[j])} |->
        [change |-> ChangeKind(k \in DOMAIN before, k \in DOMAIN after, FALSE),
         from   |-> Side(before, k),
         to     |-> Side(after, k)]]

diff_parameters(before, after) ==
    [k \in DOMAIN before \cup DOMAIN after |->
        [change |-> ChangeKind(k \in DOMAIN before, k \in DOMAIN after, Same(before[k], after[k])),
         from   |-> Side(before, k),
         to     |-> Side(after, k)]]

AllUnchanged(diffs) == \A k \in DOMAIN diffs : diffs[k].change = "unchanged"

diff_versions(before, after) ==
    LET messages   == diff_messages(before.messages, after.messages)
        parameters == diff_parameters(before.parameters, after.parameters)
    IN  [identical  |-> AllUnchanged(messages) /\ AllUnchanged(parameters),
         messages   |-> messages,
         parameters |-> parameters]

\* A digest of the messages and the parameters, types included, that nothing else has.
content_hash(version) == <<version.messages, version.parameters>>

-----------------------------------------------------------------------------
(* What a diff has to be.                                                  *)

\* The side of a diff that had all but what was added, or has all but what was removed.
Old(diffs) ==
    [k \in {j \in DOMAIN diffs : diffs[j].change # "added"} |-> diffs[k].from]
New(diffs) ==
    [k \in {j \in DOMAIN diffs : diffs[j].change # "removed"} |-> diffs[k].to]

Undoing(change) == CASE change = "added" -> "removed" [] change = "removed" -> "added"
                     [] OTHER -> change
Backwards(diffs) ==
    [k \in DOMAIN diffs |->
        [change |-> Undoing(diffs[k].change), from |-> diffs[k].to, to |-> diffs[k].from]]
=============================================================================
