------------------------------- MODULE ApiKeys -------------------------------
(***************************************************************************)
(* A request with a project key, in one transaction: the key is read and   *)
(* verified, its use is recorded now and then, the route's scopes are      *)
(* checked, the handler runs, and everything is committed or rolled back.  *)
(* The platform's admin token is no row and has no project.                *)
(* An UPDATE locks the key's row until then, and whoever updates the row   *)
(* next waits; readers do not.                                             *)
(***************************************************************************)
EXTENDS ApiRequests

CONSTANTS
    Keys, Projects,
    Issued,    \* the keys that exist at the start
    Project,   \* the project of each key
    Scopes,    \* the scopes of each key
    Expires,   \* expires_at of each key
    Refresh,   \* LAST_USED_REFRESH
    MaxStay,   \* the longest time that a request is in flight
    Never,     \* no time
    Free       \* no request holds the lock

ASSUME ApiKeysAssumption ==
    /\ Issued \subseteq Keys /\ Project \in [Keys -> Projects]
    /\ Refresh \in Nat \ {0} /\ MaxStay \in Nat
    /\ Never \notin Nat \cup Keys /\ Free \notin Requests

VARIABLES
    keys,      \* the rows, as committed
    lock,      \* who holds the lock of a key's row
    at,        \* where each request stands
    call,      \* its key, its project, the key it is about, and what it is to do
    row,       \* the key's row as the request has read it
    writes,    \* what it has written and not committed
    served     \* history: the latest use of each key by a request that committed

session == <<keys, lock, at, call, row, writes, served>>

Routes == {"ingest", "read", "change", "revoke", "issue"}

\* What the dependencies of a route ask for: of key management both the scope
\* of the method and admin; ingestion names no project.
Required(route) ==
    CASE route = "ingest" -> {"ingest"}
      [] route = "read"   -> {"read"}
      [] route = "change" -> {"write"}
      [] OTHER            -> {"write", "admin"}

Implied(scope) == IF scope = "admin" THEN {"admin", "read", "write"} ELSE {scope}
Has(k, scope) == scope \in UNION {Implied(s) : s \in Scopes[k]}

NoCall == [key |-> Never, project |-> Never, target |-> Never, route |-> "none", now |-> 0]
NoRow == [issued |-> FALSE, last |-> Never, revoked |-> FALSE]
NoWrites == [used |-> {}, revoked |-> {}, issued |-> {}]

KeysInit ==
    /\ keys = [k \in Keys |-> [NoRow EXCEPT !.issued = (k \in Issued)]]
    /\ lock = [k \in Keys |-> Free]
    /\ at = [r \in Requests |-> "none"]
    /\ call = [r \in Requests |-> NoCall]
    /\ row = [r \in Requests |-> NoRow]
    /\ writes = [r \in Requests |-> NoWrites]
    /\ served = [k \in Keys |-> Never]

Step(r, from, to) == at[r] = from /\ at' = [at EXCEPT ![r] = to]

\* Mutant: the first use of a key is the only one that is recorded.
Due_once(last, now) == last = Never

\* touch_last_used writes when the time that is recorded is old.
Due(last, now) == last = Never \/ now - last >= Refresh

-----------------------------------------------------------------------------
(* current_principal, resolve_project, require_scope.                      *)

\* verify_api_key: unknown, revoked and expired keys are refused alike, before
\* anything is written.
Valid(k, now) ==
    /\ keys[k].issued /\ ~keys[k].revoked
    /\ Expires[k] # Never => Expires[k] > now

\* A project of another key is not found, a scope that is missing forbids.
Allowed(k, project, route) ==
    /\ route # "ingest" => project = Project[k]
    /\ \A scope \in Required(route) : Has(k, scope)

Verify(r, k, route, target) ==
    /\ at[r] = "none" /\ Valid(k, clock)
    /\ call' = [call EXCEPT ![r] = [key |-> k, project |-> Project[k], target |-> target,
                                    route |-> route, now |-> clock]]
    /\ row' = [row EXCEPT ![r] = keys[k]]
    /\ at' = [at EXCEPT ![r] = IF Due(keys[k].last, clock) THEN "touching" ELSE "touched"]
    /\ UNCHANGED <<keys, lock, writes, served>>

\* The operator manages the keys of any project; nothing is recorded of it.
VerifyOperator(r, project, route, target) ==
    /\ Step(r, "none", "handling")
    /\ call' = [call EXCEPT ![r] = [key |-> Never, project |-> project, target |-> target,
                                    route |-> route, now |-> clock]]
    /\ UNCHANGED <<keys, lock, row, writes, served>>

Take(r, k) ==
    /\ lock[k] \in {Free, r}
    /\ lock' = [lock EXCEPT ![k] = r]

\* touch_last_used; the checks of the route follow it, and their exceptions
\* undo it.
Touch(r) ==
    /\ Step(r, "touching", "touched")
    /\ Take(r, call[r].key)
    /\ writes' = [writes EXCEPT ![r].used = {call[r].key}]
    /\ UNCHANGED <<keys, call, row, served>>

Authorise(r, project) ==
    /\ Step(r, "touched", IF Allowed(call[r].key, project, call[r].route) THEN "handling"
                                                                        ELSE "failed")
    /\ UNCHANGED <<keys, lock, call, row, writes, served>>

-----------------------------------------------------------------------------
(* Handlers. Those of the routes that read or change something else are    *)
(* components of their own.                                                *)

\* create_api_key, with an id that is drawn.
Issue(r) ==
    /\ Step(r, "handling", "done") /\ call[r].route = "issue"
    /\ \E k \in Keys :
          /\ ~keys[k].issued /\ Project[k] = call[r].project
          /\ \A other \in Requests : k \notin writes[other].issued
          /\ writes' = [writes EXCEPT ![r].issued = {k}]
    /\ UNCHANGED <<keys, lock, call, row, served>>

\* revoke_api_key looks the key up in its project. The request's own key is in
\* its session already, as it was when it was verified.
Target(r) == IF call[r].target = call[r].key THEN row[r] ELSE keys[call[r].target]
Found(r) == Target(r).issued /\ Project[call[r].target] = call[r].project

ReadTarget(r) ==
    /\ call[r].route = "revoke"
    /\ Step(r, "handling", CASE ~Found(r) -> "failed"
                             [] Found(r) /\ ~Target(r).revoked -> "revoking"
                             [] OTHER -> "done")
    /\ UNCHANGED <<keys, lock, call, row, writes, served>>

Revoke(r) ==
    /\ Step(r, "revoking", "done")
    /\ Take(r, call[r].target)
    /\ writes' = [writes EXCEPT ![r].revoked = {call[r].target}]
    /\ UNCHANGED <<keys, call, row, served>>

Handle(r) ==
    /\ Step(r, "handling", "done") /\ call[r].route \in {"read", "change"}
    /\ UNCHANGED <<keys, lock, call, row, writes, served>>

-----------------------------------------------------------------------------
(* db_session.                                                             *)

EndSession(r) ==
    /\ at' = [at EXCEPT ![r] = "none"]
    /\ call' = [call EXCEPT ![r] = NoCall]
    /\ row' = [row EXCEPT ![r] = NoRow]
    /\ writes' = [writes EXCEPT ![r] = NoWrites]
    /\ lock' = [k \in Keys |-> IF lock[k] = r THEN Free ELSE lock[k]]

\* Mutant: the request's copy of its key is saved as a whole.
Written_whole_row(r, k) ==
    IF k \in writes[r].used THEN [row[r] EXCEPT !.last = call[r].now]
    ELSE [keys[k] EXCEPT !.issued = @ \/ k \in writes[r].issued,
                         !.revoked = @ \/ k \in writes[r].revoked]

\* Only the columns that a statement has set.
Written(r, k) ==
    [issued  |-> keys[k].issued \/ k \in writes[r].issued,
     last    |-> IF k \in writes[r].used THEN call[r].now ELSE keys[k].last,
     revoked |-> keys[k].revoked \/ k \in writes[r].revoked]

Commit(r) ==
    /\ at[r] = "done"
    /\ keys' = [k \in Keys |-> Written(r, k)]
    /\ served' = [k \in Keys |->
                    IF call[r].key = k /\ (served[k] = Never \/ served[k] < call[r].now)
                    THEN call[r].now ELSE served[k]]
    /\ EndSession(r)

\* A dependency or the handler has raised, or the commit fails.
Rollback(r) ==
    /\ at[r] \in {"failed", "done"}
    /\ EndSession(r)
    /\ UNCHANGED <<keys, served>>

Wants(r) == CASE at[r] = "touching" -> call[r].key
              [] at[r] = "revoking" -> call[r].target
              [] OTHER -> Never
WaitsFor(r, s) == r # s /\ Wants(r) # Never /\ lock[Wants(r)] = s

\* PostgreSQL ends one of two transactions that wait for each other: two
\* administrators that revoke each other's keys.
DeadlockDetected(r) ==
    /\ \E s \in Requests : WaitsFor(r, s) /\ WaitsFor(s, r)
    /\ EndSession(r)
    /\ UNCHANGED <<keys, served>>

KeyStep(r) ==
    \/ \E k, target \in Keys, route \in Routes :
          /\ route # "revoke" => target = k
          /\ Verify(r, k, route, target)
    \/ \E project \in Projects :
          \/ VerifyOperator(r, project, "issue", Never)
          \/ \E target \in Keys : VerifyOperator(r, project, "revoke", target)
    \/ Touch(r)
    \/ \E project \in Projects : Authorise(r, project)
    \/ Issue(r) \/ ReadTarget(r) \/ Revoke(r) \/ Handle(r)
    \/ Commit(r) \/ Rollback(r) \/ DeadlockDetected(r)
-----------------------------------------------------------------------------
(* Properties.                                                             *)

\* A revocation is for good: no commit takes it back, whatever row a request
\* had read before it.
RevokedStays ==
    [][\A k \in Keys : keys[k].revoked => keys'[k].revoked]_keys

\* last_used_at tells whether a key is in use: it is never further behind the
\* last request that committed than a minute and the time that requests take,
\* though requests that overlap may turn it back.
LastUseIsKnown ==
    \A k \in Keys : served[k] # Never =>
        keys[k].last # Never /\ served[k] - keys[k].last < Refresh + MaxStay
=============================================================================
