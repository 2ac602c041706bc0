--------------------------- MODULE PromptRegistry ---------------------------
(***************************************************************************)
(* Concurrent requests on one prompt: create_version, assign_label,        *)
(* remove_label, delete_prompt, and the eval runs that pin a version. Each *)
(* request is one READ COMMITTED transaction; an action is one statement   *)
(* whose effect or whose lock another transaction can notice. Requests on  *)
(* different prompts share no row.                                         *)
(***************************************************************************)
EXTENDS Naturals, FiniteSets

CONSTANTS Creators,  \* create_version requests, each with content of its own
          Movers,    \* assign_label and remove_label requests
          Pinners,   \* create_run requests, which pin a version
          Labels,
          NoOne      \* none of the above

ASSUME RegistryAssumption ==
    /\ IsFiniteSet(Creators)
    /\ NoOne \notin Creators \cup Movers
    /\ Creators \cap (Movers \cup Pinners) = {} /\ Movers \cap Pinners = {}

VARIABLES
    exists,    \* whether the prompts row is there
    versions,  \* committed prompt_versions rows, [n |-> version, by |-> content]
    labels,    \* prompt_labels rows, by label: the version, and the row's identity
    pinned,    \* versions that a committed eval_runs row references
    lock,      \* who holds the prompts row FOR UPDATE
    pc,        \* where each request stands
    number,    \* next_version of each create_version request
    target     \* what each other request has read: a label and a version, or a row

registryVars == <<exists, versions, labels, pinned, lock, pc, number, target>>
prompt == <<exists, versions, labels, pinned>>

Requests == Creators \cup Movers \cup Pinners
Ended == {"committed", "conflict", "failed"}

Numbers == {v.n : v \in versions}
NoLabel == [version |-> 0, row |-> NoOne]
NoTarget == [label |-> NoOne, version |-> 0, row |-> NoOne]

\* func.max over the committed rows, 0 when there is none.
current_max == IF versions = {} THEN 0
               ELSE CHOOSE n \in Numbers : \A m \in Numbers : m <= n

-----------------------------------------------------------------------------

RegistryInit ==
    /\ exists = TRUE
    /\ versions = {}
    /\ labels = [l \in Labels |-> NoLabel]
    /\ pinned = {}
    /\ lock = NoOne
    /\ pc = [r \in Requests |-> "start"]
    /\ number = [c \in Creators |-> 0]
    /\ target = [r \in Movers \cup Pinners |-> NoTarget]

Goto(r, from, to) ==
    /\ pc[r] = from
    /\ pc' = [pc EXCEPT ![r] = to]

-----------------------------------------------------------------------------
(* create_version: SELECT ... FOR UPDATE, SELECT max, INSERT, COMMIT.      *)

\* Mutant: no FOR UPDATE, max + 1 is read without the lock.
LockPrompt_unlocked(c) ==
    /\ exists
    /\ Goto(c, "start", "locked")
    /\ UNCHANGED <<prompt, lock, number, target>>

LockPrompt(c) ==
    /\ lock = NoOne
    /\ exists
    /\ Goto(c, "start", "locked")
    /\ lock' = c
    /\ UNCHANGED <<prompt, number, target>>

\* The prompt was deleted after the request had read it: the lock finds no
\* row, and the insert fails on the foreign key.
LockMissing(c) ==
    /\ lock = NoOne
    /\ ~exists
    /\ Goto(c, "start", "conflict")
    /\ UNCHANGED <<prompt, lock, number, target>>

ReadMax(c) ==
    /\ Goto(c, "locked", "numbered")
    /\ number' = [number EXCEPT ![c] = current_max + 1]
    /\ UNCHANGED <<prompt, lock, target>>

Unlock(c) == lock' = IF lock = c THEN NoOne ELSE lock

\* The unique index: an insert waits while another transaction holds the same
\* number uncommitted; a committed one is a conflict, which ends the request.
InsertVersion(c) ==
    LET taken == number[c] \in Numbers IN
    /\ \A d \in Creators \ {c} : pc[d] = "inserted" => number[d] # number[c]
    /\ Goto(c, "numbered", IF taken THEN "conflict" ELSE "inserted")
    /\ lock' = IF taken /\ lock = c THEN NoOne ELSE lock
    /\ UNCHANGED <<prompt, number, target>>

\* Mutant: a new version replaces an old one with the same author's content.
CommitVersion_in_place(c) ==
    /\ Goto(c, "inserted", "committed")
    /\ versions' = {[n |-> number[c], by |-> c]}
    /\ Unlock(c)
    /\ UNCHANGED <<exists, labels, pinned, number, target>>
CommitVersion_keeps_lock(c) ==
    /\ Goto(c, "inserted", "committed")
    /\ versions' = versions \cup {[n |-> number[c], by |-> c]}
    /\ UNCHANGED <<exists, labels, pinned, lock, number, target>>

CommitVersion(c) ==
    /\ Goto(c, "inserted", "committed")
    /\ versions' = versions \cup {[n |-> number[c], by |-> c]}
    /\ Unlock(c)
    /\ UNCHANGED <<exists, labels, pinned, number, target>>

\* The request fails or its process dies: the transaction rolls back.
AbortVersion(c) ==
    /\ pc[c] \in {"start", "locked", "numbered", "inserted"}
    /\ pc' = [pc EXCEPT ![c] = "failed"]
    /\ Unlock(c)
    /\ UNCHANGED <<prompt, number, target>>

-----------------------------------------------------------------------------
(* assign_label: get_version, then one upsert on (prompt_id, label).       *)

AssignRead(m, l) ==
    /\ exists
    /\ \E n \in Numbers :
        target' = [target EXCEPT ![m] = [label |-> l, version |-> n, row |-> NoOne]]
    /\ Goto(m, "start", "assigning")
    /\ UNCHANGED <<prompt, lock, number>>

\* An inserted label row references the prompt, so it waits for the holder of
\* the prompt's row; an updated one does not, and keeps its identity. Either
\* references its version, which may have gone with the prompt.
\* Mutant: no foreign key from the label to its version.
AssignCommit_unchecked(m) ==
    LET l == target[m].label IN
    /\ Goto(m, "assigning", "committed")
    /\ labels' = [labels EXCEPT ![l] =
                    [version |-> target[m].version,
                     row     |-> IF @ = NoLabel THEN m ELSE @.row]]
    /\ UNCHANGED <<exists, versions, pinned, lock, number, target>>

AssignCommit(m) ==
    LET l == target[m].label IN
    /\ target[m].version \in Numbers
    /\ labels[l] = NoLabel => lock = NoOne
    /\ Goto(m, "assigning", "committed")
    /\ labels' = [labels EXCEPT ![l] =
                    [version |-> target[m].version,
                     row     |-> IF @ = NoLabel THEN m ELSE @.row]]
    /\ UNCHANGED <<exists, versions, pinned, lock, number, target>>

AssignFails(m) ==
    /\ target[m].version \notin Numbers
    /\ Goto(m, "assigning", "failed")
    /\ UNCHANGED <<prompt, lock, number, target>>

-----------------------------------------------------------------------------
(* remove_label: read the row, then delete it by its identity.             *)

RemoveRead(m, l) ==
    /\ labels[l] # NoLabel
    /\ target' = [target EXCEPT ![m] = [label |-> l, version |-> 0, row |-> labels[l].row]]
    /\ Goto(m, "start", "removing")
    /\ UNCHANGED <<prompt, lock, number>>

RemoveCommit(m) ==
    LET l == target[m].label IN
    /\ Goto(m, "removing", "committed")
    /\ labels' = IF labels[l].row = target[m].row
                 THEN [labels EXCEPT ![l] = NoLabel] ELSE labels
    /\ UNCHANGED <<exists, versions, pinned, lock, number, target>>

-----------------------------------------------------------------------------
(* create_run resolves a number or a label, then inserts the run.          *)

PinRead(p) ==
    /\ \E n \in Numbers : target' = [target EXCEPT ![p].version = n]
    /\ Goto(p, "start", "pinning")
    /\ UNCHANGED <<prompt, lock, number>>

PinCommit(p) ==
    /\ target[p].version \in Numbers
    /\ Goto(p, "pinning", "committed")
    /\ pinned' = pinned \cup {target[p].version}
    /\ UNCHANGED <<exists, versions, labels, lock, number, target>>

PinFails(p) ==
    /\ target[p].version \notin Numbers
    /\ Goto(p, "pinning", "failed")
    /\ UNCHANGED <<prompt, lock, number, target>>

-----------------------------------------------------------------------------
(* delete_prompt cascades to versions and labels; a pinned version forbids *)
(* it, and it waits for the holder of the prompt's row.                    *)

DeletePrompt ==
    /\ exists
    /\ lock = NoOne
    /\ pinned = {}
    /\ exists' = FALSE
    /\ versions' = {}
    /\ labels' = [l \in Labels |-> NoLabel]
    /\ UNCHANGED <<pinned, lock, pc, number, target>>

-----------------------------------------------------------------------------

Create(c) ==
    \/ LockPrompt(c) \/ LockMissing(c) \/ ReadMax(c)
    \/ InsertVersion(c) \/ CommitVersion(c)

Move(m) ==
    \/ \E l \in Labels : AssignRead(m, l) \/ RemoveRead(m, l)
    \/ AssignCommit(m) \/ AssignFails(m) \/ RemoveCommit(m)

Pin(p) == PinRead(p) \/ PinCommit(p) \/ PinFails(p)

RegistryNext ==
    \/ \E c \in Creators : Create(c) \/ AbortVersion(c)
    \/ \E m \in Movers : Move(m)
    \/ \E p \in Pinners : Pin(p)
    \/ DeletePrompt

RegistrySpec == RegistryInit /\ [][RegistryNext]_registryVars

\* The API's event loop and Postgres run every create request to its end.
FairRegistrySpec == RegistrySpec /\ \A c \in Creators : WF_registryVars(Create(c))
-----------------------------------------------------------------------------
(* Properties.                                                             *)

Target == [label : Labels \cup {NoOne}, version : Nat, row : Movers \cup {NoOne}]

\* Rows and requests have the shape of their tables and of their steps.
RegistryTypeOK ==
    /\ exists \in BOOLEAN
    /\ versions \in SUBSET [n : Nat \ {0}, by : Creators]
    /\ labels \in [Labels -> [version : Nat, row : Movers \cup {NoOne}]]
    /\ pinned \in SUBSET Nat
    /\ lock \in Creators \cup {NoOne}
    /\ pc \in [Requests -> {"start", "locked", "numbered", "inserted", "assigning",
                            "removing", "pinning"} \cup Ended]
    /\ number \in [Creators -> Nat]
    /\ target \in [Movers \cup Pinners -> Target]

\* The row lock is there so that no legitimate create_version request meets an
\* integrity error: only deleting the prompt under it can make it conflict.
NoSpuriousConflict == \A c \in Creators : pc[c] = "conflict" => ~exists

\* Whatever deletes and label moves interleave, a label names a version that
\* exists, and no version an eval run pinned is ever gone.
ReferencesResolve ==
    /\ \A l \in Labels : labels[l] # NoLabel => labels[l].version \in Numbers
    /\ pinned \subseteq Numbers

\* The registry implements the append-only log with atomic pointers: versions
\* come out densely numbered, in the order of their commits, and never change.
Log == INSTANCE VersionLog
         WITH alive <- exists, log <- versions,
              pointer <- [l \in Labels |-> labels[l].version]
ImplementsVersionLog == Log!LogSpec

\* No create_version request waits for the lock for ever.
CreatorsFinish == \A c \in Creators : <>(pc[c] \in Ended)
=============================================================================
