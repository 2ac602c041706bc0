----------------------------- MODULE VersionLog -----------------------------
(***************************************************************************)
(* What the prompt registry promises its readers: an append-only, densely  *)
(* numbered log of versions, labels that move from one version to another  *)
(* in one step, and references that always resolve while the log exists.   *)
(***************************************************************************)
EXTENDS Naturals, FiniteSets

CONSTANTS Creators,  \* requests that append a version, each with its content
          Labels     \* names of movable pointers

VARIABLES alive,     \* whether the prompt exists
          log,       \* the published versions, [n |-> number, by |-> content]
          pointer    \* by label, the number pointed at, 0 when unassigned

logVars == <<alive, log, pointer>>

Numbers == {v.n : v \in log}

LogInit ==
    /\ alive = TRUE
    /\ log = {}
    /\ pointer = [l \in Labels |-> 0]

\* A new version takes the number after the last one; nothing else changes.
Publish(c) ==
    /\ alive
    /\ log' = log \cup {[n |-> Cardinality(log) + 1, by |-> c]}
    /\ UNCHANGED <<alive, pointer>>

\* A label moves directly from the version it names to another existing one.
Point(l, n) ==
    /\ n \in Numbers
    /\ pointer' = [pointer EXCEPT ![l] = n]
    /\ UNCHANGED <<alive, log>>

Unpoint(l) ==
    /\ pointer[l] # 0
    /\ pointer' = [pointer EXCEPT ![l] = 0]
    /\ UNCHANGED <<alive, log>>

\* The prompt goes with everything it owns.
Retire ==
    /\ alive
    /\ alive' = FALSE
    /\ log' = {}
    /\ pointer' = [l \in Labels |-> 0]

LogNext ==
    \/ \E c \in Creators : Publish(c)
    \/ \E l \in Labels : Unpoint(l) \/ \E n \in Numbers : Point(l, n)
    \/ Retire

LogSpec == LogInit /\ [][LogNext]_logVars
=============================================================================
