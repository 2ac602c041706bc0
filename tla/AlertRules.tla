----------------------------- MODULE AlertRules ------------------------------
(***************************************************************************)
(* Alert rules: every minute a pass evaluates the enabled rules of all     *)
(* projects, posts a notification for each one that is breached and out of *)
(* its cooldown, and stamps the rule, all in one transaction. Webhooks are *)
(* slow or dead, a pass may overlap the next one, its worker may die, and  *)
(* rules are created and deleted through the API while it runs.            *)
(* Time is relative: a timestamp is its age, which ends to matter when it  *)
(* has reached the cooldown.                                               *)
(***************************************************************************)
EXTENDS Integers, Sequences, FiniteSets, SequencesExt

CONSTANTS
    Rules,
    Steady,      \* the rules that are breached all the time, not now and then
    Dead,        \* those whose endpoint never accepts a notification
    Removable,   \* bound: the rules that users delete
    Passes,      \* passes that may run at the same time
    Cooldown,    \* cooldown_seconds, in ticks
    MaxFailures, \* MAX_CONSECUTIVE_FAILURES
    CrashLimit   \* bound of the number of passes that die

ASSUME AlertRulesAssumption ==
    /\ IsFiniteSet(Rules) /\ Steady \cup Dead \cup Removable \subseteq Rules
    /\ Cooldown \in Nat /\ MaxFailures \in Nat \ {0} /\ CrashLimit \in Nat

VARIABLES
    rule,       \* the rows: status, age of last_fired_at, consecutive_failures
    pc, todo,   \* where a pass stands; the rules it has to do
    loaded,     \* the rows as it has read them at its start
    stamp,      \* the age of the time it has taken for its present rule
    dirty,      \* the rows it has written and not committed
    since,      \* history: the age of each rule's last notification, forgotten
                \* when passes overlap and when one is lost
    crashes

own == <<todo, loaded, stamp, dirty>>
rulesVars == <<rule, pc, own, since, crashes>>

Clean == [status |-> "clean", age |-> Cooldown, failures |-> 0]
Forgotten == [r \in Rules |-> Cooldown]
NoRows == [r \in Rules |-> Clean]

\* A rule that has never fired has no cooldown to wait for.
RulesInit ==
    /\ rule = [r \in Rules |-> [Clean EXCEPT !.status = "new"]]
    /\ pc = [p \in Passes |-> "idle"]
    /\ todo = [p \in Passes |-> <<>>]
    /\ loaded = [p \in Passes |-> NoRows]
    /\ stamp = [p \in Passes |-> Cooldown]
    /\ dirty = [p \in Passes |-> NoRows]
    /\ since = Forgotten
    /\ crashes = 0

Older(age) == IF age < Cooldown THEN age + 1 ELSE Cooldown
OlderRows(rows) == [r \in Rules |-> [rows[r] EXCEPT !.age = Older(@)]]

Tick ==
    /\ rule' = OlderRows(rule)
    /\ loaded' = [p \in Passes |-> OlderRows(loaded[p])]
    /\ dirty' = [p \in Passes |-> OlderRows(dirty[p])]
    /\ stamp' = [p \in Passes |-> Older(stamp[p])]
    /\ since' = [r \in Rules |-> Older(since[r])]
    /\ UNCHANGED <<pc, todo, crashes>>

-----------------------------------------------------------------------------
(* The API.                                                                *)

\* A rule that is created disabled is never evaluated: it is left out.
Create(r) ==
    /\ rule[r].status = "new"
    /\ rule' = [rule EXCEPT ![r].status = "enabled"]
    /\ UNCHANGED <<pc, own, since, crashes>>

\* One of the passes S has written the row and has not ended.
Held(r, S) == \E o \in S : dirty[o][r].status # "clean"

\* The delete waits for the pass that has written the row.
Delete(r) ==
    /\ r \in Removable
    /\ rule[r].status \in {"enabled", "disabled"}
    /\ ~Held(r, Passes)
    /\ rule' = [rule EXCEPT ![r] = [Clean EXCEPT !.status = "deleted"]]
    /\ UNCHANGED <<pc, own, since, crashes>>

-----------------------------------------------------------------------------
(* evaluate_all and evaluate_rule.                                         *)

Enabled == {r \in Rules : rule[r].status = "enabled"}

Alone(p) == \A o \in Passes \ {p} : pc[o] = "idle"

\* The rules come in no fixed order.
BeginPass(p) ==
    /\ pc[p] = "idle"
    /\ Enabled # {}
    /\ pc' = [pc EXCEPT ![p] = "check"]
    /\ \E order \in SetToSeqs(Enabled) : todo' = [todo EXCEPT ![p] = order]
    /\ loaded' = [loaded EXCEPT ![p] = [r \in Rules |-> IF r \in Enabled THEN rule[r] ELSE Clean]]
    /\ since' = IF Alone(p) THEN since ELSE Forgotten
    /\ UNCHANGED <<rule, stamp, dirty, crashes>>

\* The present rule is done: on to the next, or to the end of the pass.
NextRule(p) ==
    /\ todo' = [todo EXCEPT ![p] = Tail(@)]
    /\ pc' = [pc EXCEPT ![p] = IF Tail(todo[p]) = <<>> THEN "commit" ELSE "check"]
    /\ loaded' = [loaded EXCEPT ![p][Head(todo[p])] = Clean]
    /\ stamp' = [stamp EXCEPT ![p] = Cooldown]

\* The cooldown counts from last_fired_at as the pass has read it at its start.
Cooling(p) == loaded[p][Head(todo[p])].age < Cooldown

\* In its cooldown, too few samples, or not breached.
Quiet(p) ==
    /\ pc[p] = "check"
    /\ Cooling(p) \/ Head(todo[p]) \notin Steady
    /\ NextRule(p)
    /\ UNCHANGED <<rule, dirty, since, crashes>>

\* The notification leaves; its answer or timeout comes later.
Notify(p) ==
    LET r == Head(todo[p])
    IN  /\ pc[p] = "check"
        /\ ~Cooling(p)
        /\ pc' = [pc EXCEPT ![p] = "posting"]
        /\ stamp' = [stamp EXCEPT ![p] = 0]
        /\ since' = IF Alone(p) THEN [since EXCEPT ![r] = 0] ELSE since
        /\ UNCHANGED <<rule, todo, loaded, dirty, crashes>>

\* Mutants: only a delivered notification is stamped; failures are not counted.
Stamped_delivered(row, read, age, ok) ==
    [row EXCEPT !.age = IF ok THEN age ELSE @,
                !.failures = IF ok THEN 0 ELSE read.failures + 1,
                !.status = IF ~ok /\ read.failures + 1 >= MaxFailures THEN "disabled" ELSE @]
Stamped_uncounted(row, read, age, ok) == [row EXCEPT !.age = age, !.failures = 0]

\* The row after the update: only the columns that differ from what the pass has
\* read are written.
Stamped(row, read, age, ok) ==
    LET failures == IF ok THEN 0 ELSE read.failures + 1
    IN  [row EXCEPT !.age = age,
                    !.failures = IF failures = read.failures THEN @ ELSE failures,
                    !.status = IF failures >= MaxFailures THEN "disabled" ELSE @]

\* The flush waits for another pass that has written the row.
Wait(p) ==
    /\ pc[p] = "posting"
    /\ Held(Head(todo[p]), Passes \ {p})
    /\ pc' = [pc EXCEPT ![p] = "waiting"]
    /\ UNCHANGED <<rule, own, since, crashes>>

\* A row that is let go is given to a pass that waits for it.
Granted(p) ==
    /\ pc[p] \in {"posting", "waiting"}
    /\ ~Held(Head(todo[p]), Passes \ {p})
    /\ \A o \in Passes \ {p} :
          pc[p] = "posting" /\ pc[o] = "waiting" => Head(todo[o]) # Head(todo[p])

Stamp(p) ==
    LET r == Head(todo[p])
    IN  /\ Granted(p)
        /\ rule[r].status # "deleted"
        /\ \E delivered \in BOOLEAN :
              /\ r \in Dead => ~delivered
              /\ dirty' = [dirty EXCEPT ![p][r] =
                              Stamped(rule[r], loaded[p][r], stamp[p], delivered)]
        /\ NextRule(p)
        /\ UNCHANGED <<rule, since, crashes>>

\* Mutant: the session is not rolled back when a pass ends with an exception.
Forget_keeps_locks(p) ==
    /\ pc' = [pc EXCEPT ![p] = "idle"]
    /\ todo' = [todo EXCEPT ![p] = <<>>]
    /\ loaded' = [loaded EXCEPT ![p] = NoRows]
    /\ stamp' = [stamp EXCEPT ![p] = Cooldown]
    /\ UNCHANGED dirty

Forget(p) ==
    /\ pc' = [pc EXCEPT ![p] = "idle"]
    /\ todo' = [todo EXCEPT ![p] = <<>>]
    /\ loaded' = [loaded EXCEPT ![p] = NoRows]
    /\ stamp' = [stamp EXCEPT ![p] = Cooldown]
    /\ dirty' = [dirty EXCEPT ![p] = NoRows]

\* The rule was deleted meanwhile: the update matches no row and raises, the
\* session can do nothing more, and the whole pass is rolled back.
StampDeleted(p) ==
    /\ Granted(p)
    /\ rule[Head(todo[p])].status = "deleted"
    /\ Forget(p)
    /\ since' = Forgotten
    /\ UNCHANGED <<rule, crashes>>

CommitPass(p) ==
    /\ pc[p] = "commit"
    /\ rule' = [r \in Rules |-> IF Held(r, {p}) THEN dirty[p][r] ELSE rule[r]]
    /\ Forget(p)
    /\ UNCHANGED <<since, crashes>>

\* The worker dies, the job times out or a query fails: the transaction is lost.
Crash(p) ==
    /\ pc[p] # "idle"
    /\ crashes < CrashLimit
    /\ crashes' = crashes + 1
    /\ Forget(p)
    /\ since' = Forgotten
    /\ UNCHANGED rule

Waits(p) == pc[p] = "waiting" /\ Held(Head(todo[p]), Passes \ {p})

\* Two passes wait for each other's rows: the database aborts one of them.
BreakDeadlock(p) ==
    /\ Waits(p)
    /\ \E o \in Passes \ {p} : Waits(o)
    /\ Forget(p)
    /\ since' = Forgotten
    /\ UNCHANGED <<rule, crashes>>

Pass(p) ==
    \/ BeginPass(p) \/ Quiet(p) \/ Notify(p) \/ Wait(p) \/ Stamp(p) \/ StampDeleted(p)
    \/ CommitPass(p) \/ BreakDeadlock(p)

RulesNext ==
    \/ Tick
    \/ \E r \in Rules : Create(r) \/ Delete(r)
    \/ \E p \in Passes : Pass(p) \/ Crash(p)

RulesSpec == RulesInit /\ [][RulesNext]_rulesVars

\* Time passes, the cron starts pass after pass, and a pass that runs goes on.
FairRulesSpec == RulesSpec /\ WF_rulesVars(Tick) /\ \A p \in Passes : WF_rulesVars(Pass(p))
-----------------------------------------------------------------------------
(* Properties.                                                             *)

\* One notification per cooldown, delivered or not: a second one within the
\* cooldown needs passes that overlap, or a pass that was lost, in between.
CooldownHolds ==
    [][\A p \in Passes : Notify(p) => since[Head(todo[p])] = Cooldown]_rulesVars

\* A breach that lasts is notified again and again while its rule is enabled,
\* whatever the dead endpoints of other rules do and whichever rules are deleted.
BreachIsNotified ==
    \A r \in Steady \ Dead :
        []<>(\/ rule[r].status # "enabled"
             \/ \E p \in Passes : pc[p] = "posting" /\ Head(todo[p]) = r)

\* A rule whose endpoint is dead does not stay enabled, even if the passes that
\* count its failures overwrite each other's counts.
DeadEndpointDisabled ==
    \A r \in Steady \cap Dead :
        rule[r].status = "enabled" ~> rule[r].status # "enabled"
=============================================================================
