--------------------------- MODULE AdmissionProofs ---------------------------
(***************************************************************************)
(* Proofs about Admission: about its keys, for every number of requests    *)
(* and of keys and every interval of the updates of last_used_at, and      *)
(* about its rate limiter, for every limit, window, batch and delay.       *)
(***************************************************************************)
EXTENDS Admission, FoldFacts, TLAPS

KeyRow == [issued : BOOLEAN, last : Nat \cup {Never}, revoked : BOOLEAN]
Call == [key : Keys \cup {Never}, project : Projects \cup {Never},
         target : Keys \cup {Never}, route : Routes \cup {"none"}, now : Nat]
Uncommitted == [used : SUBSET Keys, revoked : SUBSET (Keys \cup {Never}), issued : SUBSET Keys]
Stages == {"none", "touching", "touched", "handling", "revoking", "charging", "done", "failed"}

SessionTypeOK ==
    /\ clock \in Nat
    /\ keys \in [Keys -> KeyRow]
    /\ served \in [Keys -> Nat \cup {Never}]
    /\ at \in [Requests -> Stages]
    /\ call \in [Requests -> Call]
    /\ writes \in [Requests -> Uncommitted]

\* The row of key k has not lost sight of a use at time n.
Recent(k, n) == keys[k].last # Never /\ n - keys[k].last < Refresh + MaxStay

\* A request is young, writes no other key's use than its own's, and leaves the
\* row as it is only because the use that the row tells of is recent.
SessionInv(r) ==
    /\ writes[r].used \subseteq {call[r].key}
    /\ at[r] \in {"none", "touching"} => writes[r].used = {}
    /\ at[r] = "touching" => call[r].key \in Keys
    /\ at[r] # "none" => call[r].now <= clock /\ clock - call[r].now <= MaxStay
    /\ /\ at[r] \notin {"none", "touching"} /\ call[r].key \in Keys
       /\ writes[r].used = {}
       => Recent(call[r].key, call[r].now)

ServedInv(k) == served[k] # Never => served[k] <= clock /\ Recent(k, served[k])

KeyInv ==
    /\ SessionTypeOK
    /\ \A r \in Requests : SessionInv(r)
    /\ \A k \in Keys : ServedInv(k)

-----------------------------------------------------------------------------
(* Steps that leave the rows alone.                                        *)

LEMMA NoCallFacts == NoCall \in Call /\ NoWrites \in Uncommitted /\ NoWrites.used = {}
BY DEF NoCall, Call, NoWrites, Uncommitted

\* A step of one request within its transaction: the time stays, and what the
\* step leaves behind satisfies the invariant of that request.
LEMMA OwnStep ==
    ASSUME KeyInv, NEW r \in Requests, SessionTypeOK', SessionInv(r)',
           clock' = clock, keys' = keys, served' = served,
           \A q \in Requests \ {r} : /\ at'[q] = at[q] /\ call'[q] = call[q]
                                     /\ writes'[q] = writes[q]
    PROVE  KeyInv'
<1>1. ASSUME NEW q \in Requests \ {r} PROVE SessionInv(q)'
  BY DEF KeyInv, SessionInv, Recent
<1>2. ASSUME NEW k \in Keys PROVE ServedInv(k)'
  BY DEF KeyInv, ServedInv, Recent
<1> QED
  BY <1>1, <1>2 DEF KeyInv

\* A step that moves a request on and writes nothing of a key's use.
LEMMA MoveKeeps ==
    ASSUME KeyInv, NEW r \in Requests, NEW to \in Stages,
           at[r] \notin {"none", "touching"}, to \notin {"none", "touching"},
           at' = [at EXCEPT ![r] = to],
           clock' = clock, keys' = keys, served' = served, call' = call,
           writes' \in [Requests -> Uncommitted],
           writes'[r].used = writes[r].used,
           \A q \in Requests \ {r} : writes'[q] = writes[q]
    PROVE  KeyInv'
<1>1. /\ at' \in [Requests -> Stages] /\ at'[r] = to
      /\ \A q \in Requests \ {r} : at'[q] = at[q]
  BY DEF KeyInv, SessionTypeOK
<1>2. SessionTypeOK'
  BY <1>1 DEF KeyInv, SessionTypeOK
<1>3. SessionInv(r)'
  BY <1>1 DEF KeyInv, SessionInv, Recent
<1> QED
  BY <1>1, <1>2, <1>3, OwnStep

LEMMA VerifyKeeps ==
    ASSUME KeyInv, NEW r \in Requests, NEW k \in Keys, NEW route \in Routes, NEW target \in Keys,
           Verify(r, k, route, target), clock' = clock
    PROVE  KeyInv'
<1> DEFINE new == [key |-> k, project |-> Project[k], target |-> target,
                   route |-> route, now |-> clock]
<1>1. new \in Call
  BY ApiKeysAssumption DEF KeyInv, SessionTypeOK, Call
<1>2. /\ call' = [call EXCEPT ![r] = new] /\ at[r] = "none"
      /\ at' = [at EXCEPT ![r] = IF Due(keys[k].last, clock) THEN "touching" ELSE "touched"]
      /\ keys' = keys /\ writes' = writes /\ served' = served
  BY DEF Verify
<1>3. new.key = k /\ new.now = clock
  OBVIOUS
<1> HIDE DEF new
<1>4. SessionTypeOK' /\ call'[r] = new
  <2>1. at' \in [Requests -> Stages]
    BY <1>2 DEF KeyInv, SessionTypeOK, Stages
  <2>2. call' \in [Requests -> Call] /\ call'[r] = new
    BY <1>1, <1>2 DEF KeyInv, SessionTypeOK
  <2> QED
    BY <1>2, <2>1, <2>2 DEF KeyInv, SessionTypeOK
<1>5. /\ at'[r] = IF Due(keys[k].last, clock) THEN "touching" ELSE "touched"
      /\ \A q \in Requests \ {r} : at'[q] = at[q] /\ call'[q] = call[q]
  BY <1>2 DEF KeyInv, SessionTypeOK
<1>6. clock \in Nat /\ keys[k].last \in Nat \cup {Never} /\ Refresh \in Nat \ {0} /\ MaxStay \in Nat
  BY ApiKeysAssumption DEF KeyInv, SessionTypeOK, KeyRow
<1>7. ~Due(keys[k].last, clock) => Recent(k, clock)
  BY <1>6 DEF Due, Recent
<1>8. writes'[r].used = {}
  BY <1>2 DEF KeyInv, SessionInv
<1>9. SessionInv(r)'
  <2>1. call'[r].now <= clock' /\ clock' - call'[r].now <= MaxStay
    BY <1>3, <1>4, <1>6
  <2>2. at'[r] # "touching" => Recent(k, clock)'
    BY <1>2, <1>5, <1>7 DEF Recent
  <2> QED
    BY <1>3, <1>4, <1>8, <2>1, <2>2 DEF SessionInv
<1> QED
  BY <1>2, <1>4, <1>5, <1>9, OwnStep

LEMMA VerifyOperatorKeeps ==
    ASSUME KeyInv, NEW r \in Requests, NEW project \in Projects, NEW route \in Routes,
           NEW target \in Keys \cup {Never},
           VerifyOperator(r, project, route, target), clock' = clock
    PROVE  KeyInv'
<1> DEFINE new == [key |-> Never, project |-> project, target |-> target,
                   route |-> route, now |-> clock]
<1>1. new \in Call
  BY DEF KeyInv, SessionTypeOK, Call
<1>2. /\ call' = [call EXCEPT ![r] = new] /\ at[r] = "none" /\ at' = [at EXCEPT ![r] = "handling"]
      /\ keys' = keys /\ writes' = writes /\ served' = served
  BY DEF VerifyOperator, Step
<1>3. new.key = Never /\ new.now = clock
  OBVIOUS
<1> HIDE DEF new
<1>4. /\ SessionTypeOK' /\ call'[r] = new /\ at'[r] = "handling"
      /\ \A q \in Requests \ {r} : at'[q] = at[q] /\ call'[q] = call[q]
  <2>1. at' \in [Requests -> Stages] /\ at'[r] = "handling" /\ \A q \in Requests \ {r} : at'[q] = at[q]
    BY <1>2 DEF KeyInv, SessionTypeOK, Stages
  <2>2. /\ call' \in [Requests -> Call] /\ call'[r] = new
        /\ \A q \in Requests \ {r} : call'[q] = call[q]
    BY <1>1, <1>2 DEF KeyInv, SessionTypeOK
  <2> QED
    BY <1>2, <2>1, <2>2 DEF KeyInv, SessionTypeOK
<1>5. writes'[r].used = {}
  BY <1>2 DEF KeyInv, SessionInv
<1>6. clock \in Nat /\ MaxStay \in Nat /\ Never \notin Keys
  BY ApiKeysAssumption DEF KeyInv, SessionTypeOK
<1>7. SessionInv(r)'
  BY <1>3, <1>4, <1>5, <1>6 DEF SessionInv
<1> QED
  BY <1>2, <1>4, <1>7, OwnStep

LEMMA TouchKeeps ==
    ASSUME KeyInv, NEW r \in Requests, Touch(r), clock' = clock
    PROVE  KeyInv'
<1>1. /\ at[r] = "touching" /\ at' = [at EXCEPT ![r] = "touched"]
      /\ writes' = [writes EXCEPT ![r].used = {call[r].key}]
      /\ keys' = keys /\ call' = call /\ served' = served
  BY DEF Touch, Step
<1>2. call[r].key \in Keys /\ writes[r] \in Uncommitted
  BY <1>1 DEF KeyInv, SessionInv, SessionTypeOK
<1>3. /\ writes' \in [Requests -> Uncommitted] /\ writes'[r].used = {call[r].key}
      /\ \A q \in Requests \ {r} : writes'[q] = writes[q]
  BY <1>1, <1>2 DEF KeyInv, SessionTypeOK, Uncommitted
<1>4. /\ at' \in [Requests -> Stages] /\ at'[r] = "touched"
      /\ \A q \in Requests \ {r} : at'[q] = at[q]
  BY <1>1 DEF KeyInv, SessionTypeOK, Stages
<1>5. SessionTypeOK'
  BY <1>1, <1>3, <1>4 DEF KeyInv, SessionTypeOK
<1>6. SessionInv(r)'
  BY <1>1, <1>3, <1>4 DEF KeyInv, SessionInv
<1> QED
  BY <1>1, <1>3, <1>4, <1>5, <1>6, OwnStep

LEMMA EndFacts ==
    ASSUME KeyInv, NEW r \in Requests, EndSession(r)
    PROVE  /\ at' \in [Requests -> Stages] /\ call' \in [Requests -> Call]
           /\ writes' \in [Requests -> Uncommitted]
           /\ at'[r] = "none" /\ writes'[r].used = {}
           /\ \A q \in Requests \ {r} : /\ at'[q] = at[q] /\ call'[q] = call[q]
                                        /\ writes'[q] = writes[q]
<1>1. /\ at' = [at EXCEPT ![r] = "none"] /\ call' = [call EXCEPT ![r] = NoCall]
      /\ writes' = [writes EXCEPT ![r] = NoWrites]
  BY DEF EndSession
<1>2. at' \in [Requests -> Stages] /\ at'[r] = "none" /\ \A q \in Requests \ {r} : at'[q] = at[q]
  BY <1>1 DEF KeyInv, SessionTypeOK, Stages
<1>3. call' \in [Requests -> Call] /\ \A q \in Requests \ {r} : call'[q] = call[q]
  BY <1>1, NoCallFacts DEF KeyInv, SessionTypeOK
<1>4. /\ writes' \in [Requests -> Uncommitted] /\ writes'[r].used = {}
      /\ \A q \in Requests \ {r} : writes'[q] = writes[q]
  BY <1>1, NoCallFacts DEF KeyInv, SessionTypeOK
<1> QED
  BY <1>2, <1>3, <1>4

LEMMA RollbackKeeps ==
    ASSUME KeyInv, NEW r \in Requests, EndSession(r), keys' = keys, served' = served, clock' = clock
    PROVE  KeyInv'
<1>1. SessionTypeOK'
  BY EndFacts DEF KeyInv, SessionTypeOK
<1>2. SessionInv(r)'
  BY EndFacts DEF SessionInv
<1> QED
  BY <1>1, <1>2, EndFacts, OwnStep

-----------------------------------------------------------------------------
(* Commits and the clock.                                                  *)

LEMMA WrittenFacts ==
    ASSUME KeyInv, NEW r \in Requests, NEW k \in Keys
    PROVE  /\ Written(r, k) \in KeyRow
           /\ Written(r, k).last = IF k \in writes[r].used THEN call[r].now ELSE keys[k].last
           /\ Written(r, k).revoked <=> keys[k].revoked \/ k \in writes[r].revoked
<1>1. keys[k] \in KeyRow /\ call[r].now \in Nat
  BY DEF KeyInv, SessionTypeOK, Call
<1> DEFINE issued == keys[k].issued \/ k \in writes[r].issued
           last == IF k \in writes[r].used THEN call[r].now ELSE keys[k].last
           revoked == keys[k].revoked \/ k \in writes[r].revoked
<1>2. Written(r, k) = [issued |-> issued, last |-> last, revoked |-> revoked]
  BY DEF Written
<1>3. issued \in BOOLEAN /\ revoked \in BOOLEAN
  OBVIOUS
<1>4. last \in Nat \cup {Never}
  BY <1>1 DEF KeyRow
<1> HIDE DEF issued, last, revoked
<1>5. /\ Written(r, k) \in KeyRow /\ Written(r, k).last = last
      /\ Written(r, k).revoked = revoked
  BY <1>2, <1>3, <1>4 DEF KeyRow
<1> QED
  BY <1>5 DEF last, revoked

\* A commit may turn last_used_at back, by no more than a request's stay: what
\* was recent at a time that has come is recent after it.
LEMMA CommitKeeps ==
    ASSUME KeyInv, NEW r \in Requests, Commit(r), clock' = clock
    PROVE  KeyInv'
<1>1. /\ at[r] = "done" /\ EndSession(r)
      /\ keys' = [k \in Keys |-> Written(r, k)]
      /\ served' = [k \in Keys |->
                      IF call[r].key = k /\ (served[k] = Never \/ served[k] < call[r].now)
                      THEN call[r].now ELSE served[k]]
  BY DEF Commit
<1>2. /\ clock \in Nat /\ MaxStay \in Nat /\ Refresh \in Nat \ {0} /\ Never \notin Nat
      /\ call[r].now \in Nat /\ call[r].now <= clock /\ clock - call[r].now <= MaxStay
      /\ writes[r].used \subseteq {call[r].key}
  BY <1>1, ApiKeysAssumption DEF KeyInv, SessionTypeOK, SessionInv, Call
<1>3. ASSUME NEW k \in Keys
      PROVE  /\ keys'[k].last = IF k \in writes[r].used THEN call[r].now ELSE keys[k].last
             /\ keys[k].last \in Nat \cup {Never} /\ served[k] \in Nat \cup {Never}
  BY <1>1, WrittenFacts DEF KeyInv, SessionTypeOK, KeyRow
<1>4. SessionTypeOK'
  <2>1. keys' \in [Keys -> KeyRow]
    BY <1>1, WrittenFacts
  <2>2. served' \in [Keys -> Nat \cup {Never}]
    BY <1>1, <1>2, <1>3
  <2> QED
    BY <1>1, <1>2, <2>1, <2>2, EndFacts DEF SessionTypeOK
<1> DEFINE RecentAfter(k, n) == keys'[k].last # Never /\ n - keys'[k].last < Refresh + MaxStay
<1>5. ASSUME NEW k \in Keys, NEW n \in Nat, n <= clock, Recent(k, n) PROVE RecentAfter(k, n)
  BY <1>2, <1>3, <1>5 DEF Recent
<1>6. ASSUME NEW q \in Requests PROVE SessionInv(q)'
  <2>1. CASE q = r
    BY <1>1, <2>1, EndFacts DEF SessionInv
  <2>2. CASE q # r
    <3>1. at'[q] = at[q] /\ call'[q] = call[q] /\ writes'[q] = writes[q]
      BY <1>1, <2>2, EndFacts
    <3>2. SessionInv(q) /\ call[q].now \in Nat
      BY DEF KeyInv, SessionTypeOK, Call
    <3>3. at[q] # "none" /\ call[q].key \in Keys /\ Recent(call[q].key, call[q].now)
             => RecentAfter(call[q].key, call[q].now)
      <4> HIDE DEF RecentAfter
      <4> QED
        BY <1>5, <3>2 DEF SessionInv
    <3> QED
      BY <1>1, <3>1, <3>2, <3>3 DEF SessionInv, Recent
  <2> QED
    BY <2>1, <2>2
<1>7. ASSUME NEW k \in Keys PROVE ServedInv(k)'
  <2>1. ServedInv(k)
    BY DEF KeyInv
  <2>2. CASE k \in writes[r].used
    <3>1. keys'[k].last = call[r].now
      BY <1>3, <2>2
    <3>2. served'[k] # Never => served'[k] \in Nat /\ served'[k] <= clock
      BY <1>1, <1>2, <1>3, <2>1 DEF ServedInv
    <3> QED
      BY <1>2, <3>1, <3>2 DEF ServedInv, Recent
  <2>3. CASE k \notin writes[r].used
    <3>1. keys'[k].last = keys[k].last
      BY <1>3, <2>3
    <3>2. call[r].key = k => Recent(k, call[r].now)
      BY <1>1, <1>2, <2>3 DEF KeyInv, SessionInv
    <3>3. served'[k] # Never => served'[k] <= clock /\ Recent(k, served'[k])
      BY <1>1, <1>2, <1>3, <2>1, <3>2 DEF ServedInv
    <3> QED
      BY <3>1, <3>3 DEF ServedInv, Recent
  <2> QED
    BY <2>2, <2>3
<1> QED
  BY <1>4, <1>6, <1>7 DEF KeyInv

LEMMA PassKeeps == ASSUME KeyInv, Pass PROVE KeyInv'
<1>1. /\ clock' = clock + 1
      /\ \A r \in Requests : at[r] # "none" => clock - call[r].now < MaxStay
      /\ keys' = keys /\ at' = at /\ call' = call /\ writes' = writes /\ served' = served
  BY DEF Pass, Tick, session
<1>2. clock \in Nat /\ MaxStay \in Nat
  BY ApiKeysAssumption DEF KeyInv, SessionTypeOK
<1>3. SessionTypeOK'
  BY <1>1 DEF KeyInv, SessionTypeOK
<1>4. ASSUME NEW r \in Requests PROVE SessionInv(r)'
  <2>1. SessionInv(r) /\ call[r].now \in Nat
    BY DEF KeyInv, SessionTypeOK, Call
  <2>2. at[r] # "none" => call[r].now <= clock + 1 /\ (clock + 1) - call[r].now <= MaxStay
    BY <1>1, <1>2, <2>1 DEF SessionInv
  <2> QED
    BY <1>1, <2>1, <2>2 DEF SessionInv, Recent
<1>5. ASSUME NEW k \in Keys PROVE ServedInv(k)'
  <2>1. ServedInv(k) /\ served[k] \in Nat \cup {Never}
    BY DEF KeyInv, SessionTypeOK
  <2> QED
    BY <1>1, <1>2, <2>1 DEF ServedInv, Recent
<1> QED
  BY <1>3, <1>4, <1>5 DEF KeyInv

-----------------------------------------------------------------------------
(* The theorems.                                                           *)

LEMMA KeyStart == AdmissionInit => KeyInv
<1> SUFFICES ASSUME AdmissionInit PROVE KeyInv
  OBVIOUS
<1>1. /\ clock = 0 /\ keys = [k \in Keys |-> [NoRow EXCEPT !.issued = (k \in Issued)]]
      /\ at = [r \in Requests |-> "none"] /\ call = [r \in Requests |-> NoCall]
      /\ writes = [r \in Requests |-> NoWrites] /\ served = [k \in Keys |-> Never]
  BY DEF AdmissionInit, KeysInit, Init
<1>2. ASSUME NEW k \in Keys PROVE keys[k] \in KeyRow
  <2> DEFINE issued == (k \in Issued)
  <2>1. keys[k] = [NoRow EXCEPT !.issued = issued] /\ issued \in BOOLEAN
    BY <1>1
  <2>2. NoRow \in KeyRow
    <3>1. FALSE \in BOOLEAN /\ Never \in Nat \cup {Never}
      OBVIOUS
    <3> QED
      BY <3>1 DEF NoRow, KeyRow
  <2> HIDE DEF issued
  <2> QED
    BY <2>1, <2>2 DEF KeyRow
<1>3. keys \in [Keys -> KeyRow]
  BY <1>1, <1>2
<1>4. SessionTypeOK
  BY <1>1, <1>3, NoCallFacts DEF SessionTypeOK, Stages
<1>5. \A r \in Requests : SessionInv(r)
  BY <1>1, NoCallFacts DEF SessionInv
<1>6. \A k \in Keys : ServedInv(k)
  BY <1>1 DEF ServedInv
<1> QED
  BY <1>4, <1>5, <1>6 DEF KeyInv

LEMMA KeyStepKeeps ==
    ASSUME KeyInv, NEW r \in Requests, KeyStep(r), clock' = clock
    PROVE  KeyInv'
<1>1. ASSUME NEW k \in Keys, NEW target \in Keys, NEW route \in Routes, Verify(r, k, route, target)
      PROVE  KeyInv'
  BY <1>1, VerifyKeeps
<1>2. ASSUME NEW project \in Projects, NEW target \in Keys \cup {Never}, NEW route \in Routes,
             VerifyOperator(r, project, route, target)
      PROVE  KeyInv'
  BY <1>2, VerifyOperatorKeeps
<1>3. CASE Touch(r)
  BY <1>3, TouchKeeps
<1>4. ASSUME NEW project \in Projects, Authorise(r, project) PROVE KeyInv'
  <2> DEFINE to == IF Allowed(call[r].key, project, call[r].route) THEN "handling" ELSE "failed"
  <2>1. /\ at[r] = "touched" /\ at' = [at EXCEPT ![r] = to]
        /\ keys' = keys /\ served' = served /\ call' = call /\ writes' = writes
    BY <1>4 DEF Authorise, Step
  <2>2. to \in {"handling", "failed"}
    OBVIOUS
  <2> HIDE DEF to
  <2>3. to \in Stages /\ to \notin {"none", "touching"} /\ at[r] \notin {"none", "touching"}
    BY <2>1, <2>2 DEF Stages
  <2>4. writes' \in [Requests -> Uncommitted]
    BY <2>1 DEF KeyInv, SessionTypeOK
  <2> QED
    BY <2>1, <2>3, <2>4, MoveKeeps
<1>5. CASE Issue(r)
  <2>1. /\ at[r] = "handling" /\ at' = [at EXCEPT ![r] = "done"]
        /\ keys' = keys /\ served' = served /\ call' = call
    BY <1>5 DEF Issue, Step
  <2>2. PICK k \in Keys : writes' = [writes EXCEPT ![r].issued = {k}]
    BY <1>5 DEF Issue
  <2>3. writes[r] \in Uncommitted
    BY DEF KeyInv, SessionTypeOK
  <2>4. /\ writes' \in [Requests -> Uncommitted] /\ writes'[r].used = writes[r].used
        /\ \A q \in Requests \ {r} : writes'[q] = writes[q]
    BY <2>2, <2>3 DEF KeyInv, SessionTypeOK, Uncommitted
  <2>5. "done" \in Stages
    BY DEF Stages
  <2> QED
    BY <2>1, <2>4, <2>5, MoveKeeps
<1>6. CASE ReadTarget(r)
  <2> DEFINE to == CASE ~Found(r) -> "failed"
                     [] Found(r) /\ ~Target(r).revoked -> "revoking"
                     [] OTHER -> "done"
  <2>1. /\ at[r] = "handling" /\ at' = [at EXCEPT ![r] = to]
        /\ keys' = keys /\ served' = served /\ call' = call /\ writes' = writes
    BY <1>6 DEF ReadTarget, Step
  <2>2. to \in {"failed", "revoking", "done"}
    OBVIOUS
  <2> HIDE DEF to
  <2>3. to \in Stages /\ to \notin {"none", "touching"} /\ at[r] \notin {"none", "touching"}
    BY <2>1, <2>2 DEF Stages
  <2>4. writes' \in [Requests -> Uncommitted]
    BY <2>1 DEF KeyInv, SessionTypeOK
  <2> QED
    BY <2>1, <2>3, <2>4, MoveKeeps
<1>7. CASE Revoke(r)
  <2>1. /\ at[r] = "revoking" /\ at' = [at EXCEPT ![r] = "done"]
        /\ keys' = keys /\ served' = served /\ call' = call
        /\ writes' = [writes EXCEPT ![r].revoked = {call[r].target}]
    BY <1>7 DEF Revoke, Step
  <2>2. writes[r] \in Uncommitted /\ call[r].target \in Keys \cup {Never}
    BY DEF KeyInv, SessionTypeOK, Call
  <2>3. /\ writes' \in [Requests -> Uncommitted] /\ writes'[r].used = writes[r].used
        /\ \A q \in Requests \ {r} : writes'[q] = writes[q]
    BY <2>1, <2>2 DEF KeyInv, SessionTypeOK, Uncommitted
  <2>4. "done" \in Stages
    BY DEF Stages
  <2> QED
    BY <2>1, <2>3, <2>4, MoveKeeps
<1>8. CASE Handle(r)
  <2>1. /\ at[r] = "handling" /\ at' = [at EXCEPT ![r] = "done"] /\ "done" \in Stages
        /\ keys' = keys /\ served' = served /\ call' = call /\ writes' = writes
    BY <1>8 DEF Handle, Step, Stages
  <2>2. writes' \in [Requests -> Uncommitted]
    BY <2>1 DEF KeyInv, SessionTypeOK
  <2> QED
    BY <2>1, <2>2, MoveKeeps
<1>9. CASE Commit(r)
  BY <1>9, CommitKeeps
<1>10. CASE Rollback(r) \/ DeadlockDetected(r)
  BY <1>10, RollbackKeeps DEF Rollback, DeadlockDetected
<1>11. "issue" \in Routes /\ "revoke" \in Routes
  BY DEF Routes
<1> QED
  BY <1>1, <1>2, <1>3, <1>4, <1>5, <1>6, <1>7, <1>8, <1>9, <1>10, <1>11 DEF KeyStep

\* Charge, TurnAway and LetIn: the limiter goes on, and the request with it.
LEMMA IngestKeeps ==
    ASSUME KeyInv, NEW r \in Requests, Charge(r) \/ TurnAway(r) \/ LetIn(r)
    PROVE  KeyInv' /\ keys' = keys
<1>1. PICK to \in {"charging", "failed", "done"} :
         at' = [at EXCEPT ![r] = to] /\ at[r] \in {"handling", "charging"}
  BY DEF Charge, TurnAway, LetIn, Step
<1>2. /\ clock' = clock /\ keys' = keys /\ served' = served /\ call' = call /\ writes' = writes
  BY DEF Charge, TurnAway, LetIn, Begin, Refuse, Admit, FailOpen
<1>3. to \in Stages /\ to \notin {"none", "touching"} /\ at[r] \notin {"none", "touching"}
  BY <1>1 DEF Stages
<1>4. writes' \in [Requests -> Uncommitted]
  BY <1>2 DEF KeyInv, SessionTypeOK
<1> QED
  BY <1>1, <1>2, <1>3, <1>4, MoveKeeps

LEMMA Unmoved ==
    ASSUME KeyInv, UNCHANGED <<clock, session>>
    PROVE  KeyInv'
BY DEF session, KeyInv, SessionTypeOK, SessionInv, ServedInv, Recent

LEMMA AdmissionStep == KeyInv /\ [AdmissionNext]_admission => KeyInv'
<1> SUFFICES ASSUME KeyInv, [AdmissionNext]_admission PROVE KeyInv'
  OBVIOUS
<1>1. CASE Pass
  BY <1>1, PassKeeps
<1>2. ASSUME NEW r \in Requests, Serve(r) PROVE KeyInv'
  BY <1>2, KeyStepKeeps DEF Serve, vars
<1>3. ASSUME NEW r \in Requests, Charge(r) \/ TurnAway(r) \/ LetIn(r) PROVE KeyInv'
  BY <1>3, IngestKeeps
<1>4. ASSUME NEW r \in Requests, Count(r) PROVE KeyInv'
  BY <1>4, Unmoved DEF Count, TrimAndCount
<1>5. CASE UNCHANGED admission
  BY <1>5, Unmoved DEF admission, vars
<1> QED
  BY <1>1, <1>2, <1>3, <1>4, <1>5 DEF AdmissionNext

\* What each request knows of its key's row, and what a row says of its last use, hold in
\* every reachable state, for any number of requests and keys.
THEOREM KeyInvHolds == AdmissionSpec => []KeyInv
<1> QED
  BY KeyStart, AdmissionStep, PTL DEF AdmissionSpec

\* However requests with one key overlap, are refused or rolled back, the time
\* of its last use is behind the latest one that succeeded by less than the
\* interval of the updates and the time that a request takes.
THEOREM LastUseStaysKnown == AdmissionSpec => []LastUseIsKnown
<1>1. KeyInv => LastUseIsKnown
  BY DEF KeyInv, ServedInv, Recent, LastUseIsKnown
<1> QED
  BY <1>1, KeyInvHolds, PTL

\* A revocation that is committed is for good: neither the use of a key that is
\* recorded at the same time nor a second revocation takes it back.
THEOREM RevocationsStay == AdmissionSpec => RevokedStays
<1>1. ASSUME KeyInv, [AdmissionNext]_admission
      PROVE  [\A k \in Keys : keys[k].revoked => keys'[k].revoked]_keys
  <2>1. ASSUME NEW r \in Requests, Commit(r) PROVE \A k \in Keys : keys[k].revoked => keys'[k].revoked
    BY <1>1, <2>1, WrittenFacts DEF Commit
  <2>2. ASSUME NEW r \in Requests, Serve(r), ~Commit(r) PROVE keys' = keys
    BY <2>2 DEF Serve, KeyStep, Verify, VerifyOperator, Touch, Authorise, Issue, ReadTarget, Revoke,
                Handle, Rollback, DeadlockDetected
  <2>3. ASSUME NEW r \in Requests, Charge(r) \/ TurnAway(r) \/ LetIn(r) PROVE keys' = keys
    BY <1>1, <2>3, IngestKeeps
  <2>4. ASSUME NEW r \in Requests, Pass \/ Count(r) \/ UNCHANGED admission PROVE keys' = keys
    BY <2>4 DEF Pass, Count, admission, session
  <2>5. Pass \/ UNCHANGED admission => keys' = keys
    BY DEF Pass, admission, session
  <2> QED
    BY <1>1, <2>1, <2>2, <2>3, <2>4, <2>5 DEF AdmissionNext
<1> QED
  BY <1>1, KeyInvHolds, PTL DEF AdmissionSpec, RevokedStays
-----------------------------------------------------------------------------
(* The rate limiter.                                                       *)

LimiterTypeOK ==
    /\ clock \in Times
    /\ members \in [Times -> Nat] /\ allowed \in [Times -> Nat]
    /\ pc \in [Requests -> {"new", "counting", "deciding"}]
    /\ now \in [Requests -> Times]
    /\ cost \in [Requests -> 0..MaxCost]
    /\ used \in [Requests -> Nat]

\* The time of request r is in the window that ends at t.
Covers(r, t) == t - (Window - MaxDelay) < now[r] /\ now[r] <= t

\* What the requests in flight may still add to that window.
Flight(t) == [r \in Requests |->
    IF pc[r] = "deciding" /\ ~Over(r) /\ Covers(r, t) THEN cost[r] ELSE 0]

Since(x) == {s \in Times : s > x}
Overshoot == Limit + (Cardinality(Requests) - 1) * MaxCost

\* A request is young until it has counted; its count is of spans let through.
\* The set has lost no span that a window of a request that counts now still
\* covers; and what a window has let through, with all that the requests in
\* flight may add to it, exceeds the limit by no more than the others' batches.
LimiterInv ==
    /\ LimiterTypeOK
    /\ \A r \in Requests :
          /\ pc[r] = "counting" => now[r] <= clock /\ clock - now[r] <= MaxDelay
          /\ pc[r] = "deciding" => used[r] <= Total(allowed, Since(now[r] - Window))
    /\ \A s \in Times :
          members[s] <= allowed[s] /\ (s > clock - Window => members[s] = allowed[s])
    /\ \A t \in Times :
          Through(t, Window - MaxDelay) + SumOver(Flight(t), Requests) <= Overshoot

\* The limiter's totals are the sums of FoldFacts.
LEMMA TotalIsSum == \A f, S : Total(f, S) = SumOver(f, S)
BY Zenon DEF Total, SumOver

\* The instants are finitely many, and the sizes are numbers.
LEMMA LimiterConstants ==
    /\ IsFiniteSet(Times) /\ IsFiniteSet(Requests) /\ \A S \in SUBSET Times : IsFiniteSet(S)
    /\ \A s \in Times : s \in Nat
    /\ Limit \in Nat /\ Window \in Nat /\ MaxCost \in Nat
    /\ MaxDelay \in Nat /\ MaxDelay <= Window
<1>1. MaxTime \in Nat
  BY ApiRequestsAssumption
<1>2. IsFiniteSet(Times)
  BY <1>1, FS_Interval DEF Times
<1>3. \A S \in SUBSET Times : IsFiniteSet(S)
  BY <1>2, FS_Subset
<1>4. /\ Limit \in Nat /\ Window \in Nat /\ MaxCost \in Nat
      /\ MaxDelay \in Nat /\ MaxDelay <= Window
  BY RateLimiterAssumption
<1>5. \A s \in Times : s \in Nat
  BY <1>1 DEF Times
<1> QED
  BY <1>2, <1>3, <1>4, <1>5, ApiRequestsAssumption

\* What the requests in flight may add is a number for each of them.
LEMMA FlightFacts ==
    ASSUME LimiterTypeOK, NEW t \in Times
    PROVE  /\ \A r \in Requests : Flight(t)[r] \in 0..MaxCost
           /\ SumOver(Flight(t), Requests) \in Nat
<1>1. \A r \in Requests : Flight(t)[r] \in 0..MaxCost
  BY LimiterConstants DEF LimiterTypeOK, Flight
<1>2. \A r \in Requests : Flight(t)[r] \in Nat
  BY <1>1, LimiterConstants
<1> QED
  BY <1>1, <1>2, SumType, LimiterConstants

\* All but one of the requests in flight bring one batch each.
LEMMA OthersAdd ==
    ASSUME LimiterTypeOK, NEW t \in Times, NEW r \in Requests
    PROVE  Limit + SumOver(Flight(t), Requests \ {r}) <= Overshoot
<1>1. IsFiniteSet(Requests \ {r}) /\ Cardinality(Requests \ {r}) = Cardinality(Requests) - 1
  BY LimiterConstants, FS_RemoveElement
<1>2. SumOver(Flight(t), Requests \ {r}) <= Cardinality(Requests \ {r}) * MaxCost
  <2>1. \A q \in Requests \ {r} : Flight(t)[q] \in 0..MaxCost
    BY FlightFacts
  <2> QED
    BY <1>1, <2>1, SumBound, LimiterConstants
<1>3. SumOver(Flight(t), Requests \ {r}) \in Nat
  <2>1. \A q \in Requests \ {r} : Flight(t)[q] \in Nat
    BY FlightFacts, LimiterConstants
  <2> QED
    BY <1>1, <2>1, SumType
<1>4. Cardinality(Requests) - 1 \in Nat
  BY <1>1, FS_CardinalityType
<1>5. \A n, m \in Nat : n * m \in Nat
  OBVIOUS
<1> QED
  BY <1>1, <1>2, <1>3, <1>4, <1>5, LimiterConstants DEF Overshoot

\* What is let through, or still in the set, in any part of time is a number.
LEMMA ThroughFacts ==
    ASSUME LimiterTypeOK, NEW t \in Times
    PROVE  /\ Through(t, Window - MaxDelay) \in Nat
           /\ \A S \in SUBSET Times : Total(allowed, S) \in Nat /\ Total(members, S) \in Nat
<1>1. \A S \in SUBSET Times : Total(allowed, S) \in Nat /\ Total(members, S) \in Nat
  BY SumType, LimiterConstants, TotalIsSum DEF LimiterTypeOK
<1> QED
  BY <1>1 DEF Through

\* A step of request r that adds nothing and after which r is not about to.
LEMMA NothingAdded ==
    ASSUME LimiterInv, LimiterTypeOK', NEW r \in Requests, allowed' = allowed,
           pc'[r] # "deciding",
           \A q \in Requests \ {r} : /\ pc'[q] = pc[q] /\ now'[q] = now[q]
                                     /\ cost'[q] = cost[q] /\ used'[q] = used[q]
    PROVE  \A t \in Times :
              Through(t, Window - MaxDelay)' + SumOver(Flight(t)', Requests) <= Overshoot
<1> SUFFICES ASSUME NEW t \in Times
             PROVE  Through(t, Window - MaxDelay)' + SumOver(Flight(t)', Requests) <= Overshoot
  OBVIOUS
<1>1. Through(t, Window - MaxDelay)' = Through(t, Window - MaxDelay)
  BY DEF Through
<1>2. \A q \in Requests : Flight(t)'[q] \in Nat /\ Flight(t)[q] \in Nat /\ Flight(t)'[q] <= Flight(t)[q]
  <2>1. \A q \in Requests : Flight(t)[q] \in Nat
    BY FlightFacts, LimiterConstants DEF LimiterInv
  <2>2. \A q \in Requests \ {r} : Flight(t)'[q] = Flight(t)[q]
    BY DEF Flight, Over, Covers
  <2>3. Flight(t)'[r] = 0
    BY DEF Flight
  <2> QED
    BY <2>1, <2>2, <2>3
<1>3. SumOver(Flight(t)', Requests) <= SumOver(Flight(t), Requests)
  BY <1>2, SumMonotone, LimiterConstants
<1>4. Through(t, Window - MaxDelay) \in Nat /\ SumOver(Flight(t), Requests) \in Nat
      /\ SumOver(Flight(t)', Requests) \in Nat
  BY <1>2, SumType, LimiterConstants, FlightFacts, ThroughFacts DEF LimiterInv
<1>5. Through(t, Window - MaxDelay) + SumOver(Flight(t), Requests) <= Overshoot
  BY DEF LimiterInv
<1>6. Overshoot \in Int
  BY LimiterConstants, FS_CardinalityType DEF Overshoot
<1> QED
  BY <1>1, <1>3, <1>4, <1>5, <1>6

\* Where the others stand when one request moves.
LEMMA OthersStand ==
    ASSUME LimiterTypeOK, NEW r \in Requests, End(r)
    PROVE  /\ pc'[r] = "new"
           /\ \A q \in Requests \ {r} : /\ pc'[q] = pc[q] /\ now'[q] = now[q]
                                         /\ cost'[q] = cost[q] /\ used'[q] = used[q]
           /\ pc' \in [Requests -> {"new", "counting", "deciding"}]
           /\ now' \in [Requests -> Times] /\ cost' \in [Requests -> 0..MaxCost]
           /\ used' \in [Requests -> Nat]
<1>1. 0 \in Times /\ 0 \in 0..MaxCost
  BY ApiRequestsAssumption, LimiterConstants DEF Times
<1> QED
  BY <1>1 DEF LimiterTypeOK, End

LEMMA BeginKeeps == ASSUME LimiterInv, NEW r \in Requests, Begin(r) PROVE LimiterInv'
<1>1. /\ pc[r] = "new" /\ pc' = [pc EXCEPT ![r] = "counting"]
      /\ now' = [now EXCEPT ![r] = clock]
      /\ clock' = clock /\ members' = members /\ used' = used /\ allowed' = allowed
  BY DEF Begin, Goto
<1>2. PICK n \in 1..MaxCost : cost' = [cost EXCEPT ![r] = n]
  BY DEF Begin
<1>3. LimiterTypeOK'
  <2>1. n \in 0..MaxCost
    BY LimiterConstants
  <2> QED
    BY <1>1, <1>2, <2>1 DEF LimiterInv, LimiterTypeOK
<1>4. /\ pc'[r] = "counting" /\ now'[r] = clock
      /\ \A q \in Requests \ {r} : /\ pc'[q] = pc[q] /\ now'[q] = now[q]
                                    /\ cost'[q] = cost[q] /\ used'[q] = used[q]
  BY <1>1, <1>2 DEF LimiterInv, LimiterTypeOK
<1>5. \A t \in Times :
          Through(t, Window - MaxDelay)' + SumOver(Flight(t)', Requests) <= Overshoot
  BY <1>1, <1>3, <1>4, NothingAdded
<1>6. clock \in Nat
  BY LimiterConstants DEF LimiterInv, LimiterTypeOK
<1> QED
  BY <1>1, <1>3, <1>4, <1>5, <1>6, LimiterConstants DEF LimiterInv

\* What the trim leaves: all that a window of a request in time can cover.
LEMMA TrimFacts ==
    ASSUME LimiterInv, NEW r \in Requests, pc[r] = "counting"
    PROVE  /\ Trimmed(r) \in [Times -> Nat]
           /\ \A s \in Times : /\ Trimmed(r)[s] <= members[s]
                               /\ s <= now[r] - Window => Trimmed(r)[s] = 0
                               /\ s > now[r] - Window => Trimmed(r)[s] = members[s]
           /\ \A s \in Times : Trimmed(r)[s] <= allowed[s]
           /\ \A s \in Times : s > clock - Window => Trimmed(r)[s] = allowed[s]
<1>1. /\ members \in [Times -> Nat] /\ allowed \in [Times -> Nat]
      /\ now[r] \in Nat /\ clock \in Nat /\ now[r] <= clock
  BY LimiterConstants DEF LimiterInv, LimiterTypeOK
<1>2. \A s \in Times :
          members[s] <= allowed[s] /\ (s > clock - Window => members[s] = allowed[s])
  BY DEF LimiterInv
<1>3. Trimmed(r) = [s \in Times |-> IF s <= now[r] - Window THEN 0 ELSE members[s]]
  BY DEF Trimmed
<1>4. \A s \in Times : Trimmed(r)[s] = IF s <= now[r] - Window THEN 0 ELSE members[s]
  BY <1>3
<1>5. \A s \in Times : Trimmed(r)[s] \in Nat
  BY <1>1, <1>4
<1>6. \A s \in Times : s > clock - Window => ~ (s <= now[r] - Window)
  BY <1>1, LimiterConstants
<1>7. \A s \in Times : members[s] \in Nat /\ allowed[s] \in Nat /\ s \in Nat
  BY <1>1, LimiterConstants
<1>8. Trimmed(r) \in [Times -> Nat]
  BY <1>3, <1>5
<1>9. \A s \in Times : s > now[r] - Window => ~ (s <= now[r] - Window)
  BY <1>1, <1>7, LimiterConstants
<1> QED
  BY <1>2, <1>4, <1>6, <1>7, <1>8, <1>9

LEMMA CountKeeps == ASSUME LimiterInv, NEW r \in Requests, TrimAndCount(r) PROVE LimiterInv'
<1> DEFINE u == Total(Trimmed(r), Times)
<1>1. /\ pc[r] = "counting" /\ pc' = [pc EXCEPT ![r] = "deciding"]
      /\ members' = Trimmed(r) /\ used' = [used EXCEPT ![r] = u]
      /\ clock' = clock /\ now' = now /\ cost' = cost /\ allowed' = allowed
  BY DEF TrimAndCount, Goto
<1>2. /\ Trimmed(r) \in [Times -> Nat]
      /\ \A s \in Times : /\ Trimmed(r)[s] <= members[s]
                          /\ s <= now[r] - Window => Trimmed(r)[s] = 0
                          /\ s > now[r] - Window => Trimmed(r)[s] = members[s]
      /\ \A s \in Times : Trimmed(r)[s] <= allowed[s]
      /\ \A s \in Times : s > clock - Window => Trimmed(r)[s] = allowed[s]
  BY <1>1, TrimFacts
<1>3. u = SumOver(Trimmed(r), Times) /\ u \in Nat
  BY <1>2, SumType, LimiterConstants, TotalIsSum
<1> HIDE DEF u
<1>4. LimiterTypeOK'
  BY <1>1, <1>2, <1>3 DEF LimiterInv, LimiterTypeOK
<1>5. /\ pc'[r] = "deciding" /\ used'[r] = u
      /\ \A q \in Requests \ {r} : pc'[q] = pc[q] /\ used'[q] = used[q]
  BY <1>1 DEF LimiterInv, LimiterTypeOK
<1>6. /\ now[r] \in Nat /\ clock \in Nat /\ now[r] <= clock /\ clock - now[r] <= MaxDelay
      /\ allowed \in [Times -> Nat] /\ cost[r] \in Nat
  BY <1>1, LimiterConstants DEF LimiterInv, LimiterTypeOK
<1>7. u <= Total(allowed, Since(now[r] - Window))
  <2> DEFINE S == Since(now[r] - Window)
  <2>1. S \in SUBSET Times /\ \A s \in Times \ S : s <= now[r] - Window
    BY <1>6, LimiterConstants DEF Since
  <2>2. \A s \in Times : Trimmed(r)[s] \in Nat /\ allowed[s] \in Nat
    BY <1>2, <1>6
  <2> HIDE DEF S
  <2>3. SumOver(Trimmed(r), Times) = SumOver(Trimmed(r), S)
    BY <1>2, <2>1, <2>2, SumOfPart, LimiterConstants
  <2>4. SumOver(Trimmed(r), S) <= SumOver(allowed, S)
    BY <1>2, <2>1, <2>2, SumMonotone, LimiterConstants
  <2> QED
    BY <1>3, <2>3, <2>4, TotalIsSum DEF S
\* The set still has all that a window around the request's time has let through.
<1>8. ASSUME NEW t \in Times, Covers(r, t) PROVE Through(t, Window - MaxDelay) <= u
  <2> DEFINE S == {s \in Times : t - (Window - MaxDelay) < s /\ s <= t}
  <2>1. t \in Nat /\ now[r] <= t
    BY <1>8, LimiterConstants DEF Covers
  <2>2. S \in SUBSET Times /\ \A s \in S : s > clock - Window
    BY <1>6, <2>1, LimiterConstants
  <2>3. Through(t, Window - MaxDelay) = SumOver(allowed, S)
    BY TotalIsSum DEF Through
  <2> HIDE DEF S
  <2>4. \A s \in S : allowed[s] \in Nat /\ Trimmed(r)[s] = allowed[s]
    BY <1>2, <1>6, <2>2
  <2>5. SumOver(Trimmed(r), S) = SumOver(allowed, S)
    BY <2>2, <2>4, SumAgree, LimiterConstants
  <2>6. SumOver(Trimmed(r), S) <= SumOver(Trimmed(r), Times)
    <3>1. \A s \in Times : Trimmed(r)[s] \in Nat
      BY <1>2
    <3> QED
      BY <2>2, <3>1, SumSubset, LimiterConstants
  <2> QED
    BY <1>3, <2>3, <2>5, <2>6
<1>9. ASSUME NEW t \in Times
      PROVE  Through(t, Window - MaxDelay)' + SumOver(Flight(t)', Requests) <= Overshoot
  <2> DEFINE F == Flight(t)
             G == Flight(t)'
             here == Through(t, Window - MaxDelay)
  <2>1. here' = here
    BY <1>1 DEF Through
  <2>2. \A q \in Requests \ {r} : G[q] = F[q]
    BY <1>1, <1>5 DEF Flight, Over, Covers
  <2>3. F[r] = 0 /\ G[r] = IF u + cost[r] <= Limit /\ Covers(r, t) THEN cost[r] ELSE 0
    BY <1>1, <1>3, <1>5, <1>6, LimiterConstants DEF Flight, Over, Covers
  <2>4. \A q \in Requests : F[q] \in Nat /\ G[q] \in Nat
    BY <1>4, FlightFacts, LimiterConstants DEF LimiterInv, Flight, LimiterTypeOK
  <2>5. here \in Nat /\ Overshoot \in Int
    BY ThroughFacts, LimiterConstants, FS_CardinalityType DEF LimiterInv, Overshoot
  <2>6. here + SumOver(F, Requests) <= Overshoot
    BY DEF LimiterInv
  <2>7. Limit + SumOver(F, Requests \ {r}) <= Overshoot
    BY OthersAdd DEF LimiterInv
  <2> HIDE DEF F, G, here
  <2>8. /\ SumOver(G, Requests) = G[r] + SumOver(G, Requests \ {r})
        /\ SumOver(F, Requests) = F[r] + SumOver(F, Requests \ {r})
    BY <2>4, SumRemove, LimiterConstants
  <2>9. /\ IsFiniteSet(Requests \ {r})
        /\ \A q \in Requests \ {r} : F[q] \in Nat /\ G[q] = F[q]
    BY <2>2, <2>4, FS_Subset, LimiterConstants
  <2>10. SumOver(G, Requests \ {r}) = SumOver(F, Requests \ {r}) /\ SumOver(F, Requests \ {r}) \in Nat
    BY <2>9, SumAgree, SumType
  <2>11. here + SumOver(G, Requests) <= Overshoot
    <3>1. CASE G[r] = 0
      BY <2>3, <2>6, <2>8, <2>10, <3>1
    <3>2. CASE G[r] # 0
      <4>1. here <= u /\ u + cost[r] <= Limit /\ G[r] = cost[r]
        BY <1>8, <2>3, <3>2 DEF here
      <4> QED
        BY <1>3, <1>6, <2>5, <2>7, <2>8, <2>10, <4>1, LimiterConstants
    <3> QED
      BY <3>1, <3>2
  <2> QED
    BY <2>1, <2>11 DEF here, G
<1> QED
  BY <1>1, <1>2, <1>4, <1>5, <1>7, <1>9 DEF LimiterInv

\* A request that ends and adds nothing, whether or not the trim it has sent was
\* done: it was refused, or Redis has not done what it was sent.
LEMMA EndKeeps ==
    ASSUME LimiterInv, NEW r \in Requests, End(r), clock' = clock, allowed' = allowed,
           members' = members \/ (pc[r] = "counting" /\ members' = Trimmed(r))
    PROVE  LimiterInv'
<1>1. LimiterTypeOK
  BY DEF LimiterInv
<1>2. /\ pc'[r] = "new"
      /\ \A q \in Requests \ {r} : /\ pc'[q] = pc[q] /\ now'[q] = now[q]
                                    /\ cost'[q] = cost[q] /\ used'[q] = used[q]
      /\ pc' \in [Requests -> {"new", "counting", "deciding"}]
      /\ now' \in [Requests -> Times] /\ cost' \in [Requests -> 0..MaxCost]
      /\ used' \in [Requests -> Nat]
  BY <1>1, OthersStand
<1>3. /\ members' \in [Times -> Nat]
      /\ \A s \in Times :
            members'[s] <= allowed[s] /\ (s > clock - Window => members'[s] = allowed[s])
  <2>1. CASE members' = members
    BY <1>1, <2>1 DEF LimiterInv, LimiterTypeOK
  <2>2. CASE pc[r] = "counting" /\ members' = Trimmed(r)
    BY <2>2, TrimFacts
  <2> QED
    BY <2>1, <2>2
<1>4. LimiterTypeOK'
  BY <1>1, <1>2, <1>3 DEF LimiterTypeOK
<1>5. \A t \in Times :
          Through(t, Window - MaxDelay)' + SumOver(Flight(t)', Requests) <= Overshoot
  BY <1>2, <1>4, NothingAdded
<1>6. \A q \in Requests \ {r} :
          /\ pc[q] = "counting" => now[q] <= clock /\ clock - now[q] <= MaxDelay
          /\ pc[q] = "deciding" => used[q] <= Total(allowed, Since(now[q] - Window))
  BY DEF LimiterInv
<1> QED
  BY <1>2, <1>3, <1>4, <1>5, <1>6 DEF LimiterInv

\* What is let through only grows, and with it what was let through since a time.
LEMMA AddFacts ==
    ASSUME LimiterInv, NEW r \in Requests, Add(r)
    PROVE  /\ members' \in [Times -> Nat] /\ allowed' \in [Times -> Nat]
           /\ allowed'[now[r]] = allowed[now[r]] + cost[r]
           /\ members'[now[r]] = members[now[r]] + cost[r]
           /\ \A s \in Times \ {now[r]} : allowed'[s] = allowed[s] /\ members'[s] = members[s]
           /\ \A S \in SUBSET Times :
                 SumOver(allowed', S) = SumOver(allowed, S) + (IF now[r] \in S THEN cost[r] ELSE 0)
<1>1. /\ members' = [members EXCEPT ![now[r]] = @ + cost[r]]
      /\ allowed' = [allowed EXCEPT ![now[r]] = @ + cost[r]]
  BY DEF Add
<1>2. /\ now[r] \in Times /\ cost[r] \in Nat
      /\ members \in [Times -> Nat] /\ allowed \in [Times -> Nat]
  BY LimiterConstants DEF LimiterInv, LimiterTypeOK
<1>3. /\ members' \in [Times -> Nat] /\ allowed' \in [Times -> Nat]
      /\ allowed'[now[r]] = allowed[now[r]] + cost[r]
      /\ members'[now[r]] = members[now[r]] + cost[r]
      /\ \A s \in Times \ {now[r]} : allowed'[s] = allowed[s] /\ members'[s] = members[s]
  BY <1>1, <1>2
<1>4. ASSUME NEW S \in SUBSET Times
      PROVE  SumOver(allowed', S) = SumOver(allowed, S) + (IF now[r] \in S THEN cost[r] ELSE 0)
  <2>1. IsFiniteSet(S) /\ \A s \in S : allowed[s] \in Nat
    BY <1>2, LimiterConstants
  <2>2. CASE now[r] \in S
    <3>1. \A s \in S \ {now[r]} : allowed'[s] = allowed[s]
      BY <1>3
    <3>2. SumOver(allowed', S) = SumOver(allowed, S) + cost[r]
      BY <1>2, <1>3, <2>1, <2>2, <3>1, SumGrows
    <3> QED
      BY <2>2, <3>2
  <2>3. CASE now[r] \notin S
    <3>1. \A s \in S : allowed'[s] = allowed[s]
      BY <1>3, <2>3
    <3>2. SumOver(allowed', S) = SumOver(allowed, S) /\ SumOver(allowed, S) \in Nat
      BY <2>1, <3>1, SumAgree, SumType
    <3> QED
      BY <2>3, <3>2
  <2> QED
    BY <2>2, <2>3
<1> QED
  BY <1>3, <1>4

LEMMA AddKeeps ==
    ASSUME LimiterInv, NEW r \in Requests, pc[r] = "deciding", ~Over(r), Add(r), End(r),
           clock' = clock
    PROVE  LimiterInv'
<1>1. LimiterTypeOK
  BY DEF LimiterInv
<1>2. /\ pc'[r] = "new"
      /\ \A q \in Requests \ {r} : /\ pc'[q] = pc[q] /\ now'[q] = now[q]
                                    /\ cost'[q] = cost[q] /\ used'[q] = used[q]
      /\ pc' \in [Requests -> {"new", "counting", "deciding"}]
      /\ now' \in [Requests -> Times] /\ cost' \in [Requests -> 0..MaxCost]
      /\ used' \in [Requests -> Nat]
  BY <1>1, OthersStand
<1>3. /\ members' \in [Times -> Nat] /\ allowed' \in [Times -> Nat]
      /\ allowed'[now[r]] = allowed[now[r]] + cost[r]
      /\ members'[now[r]] = members[now[r]] + cost[r]
      /\ \A s \in Times \ {now[r]} : allowed'[s] = allowed[s] /\ members'[s] = members[s]
      /\ \A S \in SUBSET Times :
            SumOver(allowed', S) = SumOver(allowed, S) + (IF now[r] \in S THEN cost[r] ELSE 0)
  BY AddFacts
<1>4. LimiterTypeOK'
  BY <1>1, <1>2, <1>3 DEF LimiterTypeOK
<1>5. /\ now[r] \in Times /\ cost[r] \in Nat
      /\ members \in [Times -> Nat] /\ allowed \in [Times -> Nat]
  BY <1>1, LimiterConstants DEF LimiterTypeOK
<1>6. \A s \in Times :
          members'[s] <= allowed'[s] /\ (s > clock - Window => members'[s] = allowed'[s])
  <2>1. \A s \in Times :
            members[s] <= allowed[s] /\ (s > clock - Window => members[s] = allowed[s])
    BY DEF LimiterInv
  <2>2. \A s \in Times : members[s] \in Nat /\ allowed[s] \in Nat
    BY <1>5
  <2>3. \A s \in Times : s = now[r] \/ s \in Times \ {now[r]}
    OBVIOUS
  <2> QED
    BY <1>3, <1>5, <2>1, <2>2, <2>3
<1>7. ASSUME NEW q \in Requests \ {r}, pc[q] = "deciding"
      PROVE  used[q] <= Total(allowed', Since(now[q] - Window))
  <2> DEFINE S == Since(now[q] - Window)
  <2>1. S \in SUBSET Times
    BY DEF Since
  <2>2. used[q] <= Total(allowed, S)
    BY <1>7 DEF LimiterInv
  <2> HIDE DEF S
  <2>3. SumOver(allowed, S) \in Nat /\ used[q] \in Nat
    BY <1>1, <2>1, ThroughFacts, TotalIsSum, <1>5 DEF LimiterTypeOK
  <2>4. SumOver(allowed', S) \in Nat /\ SumOver(allowed, S) <= SumOver(allowed', S)
    BY <1>3, <1>5, <2>1, <2>3
  <2>5. used[q] <= Total(allowed', S)
    <3>1. Total(allowed', S) = SumOver(allowed', S) /\ Total(allowed, S) = SumOver(allowed, S)
      BY TotalIsSum
    <3> QED
      BY <2>2, <2>3, <2>4, <3>1
  <2> QED
    BY <2>5 DEF S
<1>8. ASSUME NEW t \in Times
      PROVE  Through(t, Window - MaxDelay)' + SumOver(Flight(t)', Requests) <= Overshoot
  <2> DEFINE S == {s \in Times : t - (Window - MaxDelay) < s /\ s <= t}
             F == Flight(t)
             G == Flight(t)'
             c == IF now[r] \in S THEN cost[r] ELSE 0
  <2>1. /\ Through(t, Window - MaxDelay) = SumOver(allowed, S)
        /\ Through(t, Window - MaxDelay)' = SumOver(allowed', S)
    BY TotalIsSum DEF Through
  <2>2. SumOver(allowed', S) = SumOver(allowed, S) + c
    BY <1>3
  <2>3. F[r] = c /\ G[r] = 0
    BY <1>1, <1>2, <1>5 DEF Flight, Covers
  <2>4. \A q \in Requests \ {r} : G[q] = F[q]
    BY <1>2 DEF Flight, Over, Covers
  <2>5. \A q \in Requests : F[q] \in Nat /\ G[q] \in Nat
    <3>1. \A q \in Requests : F[q] \in Nat
      BY <1>1, FlightFacts, LimiterConstants
    <3> HIDE DEF F, G
    <3> QED
      BY <2>3, <2>4, <3>1
  <2>6. SumOver(allowed, S) + SumOver(F, Requests) <= Overshoot
    BY <2>1 DEF LimiterInv
  <2>7. SumOver(allowed, S) \in Nat
    BY <1>1, <2>1, ThroughFacts
  <2>8. c \in Nat
    BY <1>5
  <2> HIDE DEF F, G, S, c
  <2>9. /\ SumOver(G, Requests) = G[r] + SumOver(G, Requests \ {r})
        /\ SumOver(F, Requests) = F[r] + SumOver(F, Requests \ {r})
    BY <2>5, SumRemove, LimiterConstants
  <2>10. /\ IsFiniteSet(Requests \ {r})
         /\ \A q \in Requests \ {r} : F[q] \in Nat /\ G[q] = F[q]
    BY <2>4, <2>5, FS_Subset, LimiterConstants
  <2>11. SumOver(G, Requests \ {r}) = SumOver(F, Requests \ {r}) /\ SumOver(F, Requests \ {r}) \in Nat
    BY <2>10, SumAgree, SumType
  <2>12. SumOver(allowed', S) + SumOver(G, Requests) <= Overshoot
    BY <2>2, <2>3, <2>6, <2>7, <2>8, <2>9, <2>11
  <2> QED
    BY <2>1, <2>12 DEF G
<1>9. \A q \in Requests \ {r} :
          pc[q] = "counting" => now[q] <= clock /\ clock - now[q] <= MaxDelay
  BY DEF LimiterInv
<1> QED
  BY <1>2, <1>4, <1>6, <1>7, <1>8, <1>9 DEF LimiterInv

LEMMA TickKeeps == ASSUME LimiterInv, Tick PROVE LimiterInv'
<1>1. /\ clock < MaxTime /\ clock' = clock + 1
      /\ \A r \in Requests : pc[r] = "counting" => clock - now[r] < MaxDelay
      /\ UNCHANGED <<members, pc, now, cost, used, allowed>>
  BY DEF Tick
<1>2. clock' \in Times /\ clock \in Nat /\ clock' = clock + 1
  BY <1>1, ApiRequestsAssumption DEF LimiterInv, LimiterTypeOK, Times
<1>3. LimiterTypeOK'
  BY <1>1, <1>2 DEF LimiterInv, LimiterTypeOK
<1>4. \A r \in Requests :
          /\ pc[r] = "counting" => now[r] <= clock + 1 /\ (clock + 1) - now[r] <= MaxDelay
          /\ pc[r] = "deciding" => used[r] <= Total(allowed, Since(now[r] - Window))
  <2>1. \A r \in Requests : now[r] \in Nat
    BY LimiterConstants DEF LimiterInv, LimiterTypeOK
  <2> QED
    BY <1>1, <1>2, <2>1, LimiterConstants DEF LimiterInv
<1>5. \A s \in Times :
          members[s] <= allowed[s] /\ (s > (clock + 1) - Window => members[s] = allowed[s])
  BY <1>2, LimiterConstants DEF LimiterInv
<1>6. \A t \in Times :
          Through(t, Window - MaxDelay)' + SumOver(Flight(t)', Requests) <= Overshoot
  BY <1>1 DEF LimiterInv, Through, Flight, Over, Covers
<1> QED
  BY <1>1, <1>2, <1>3, <1>4, <1>5, <1>6 DEF LimiterInv

LEMMA LimiterStep == LimiterInv /\ [Next]_vars => LimiterInv'
<1> SUFFICES ASSUME LimiterInv, [Next]_vars PROVE LimiterInv'
  OBVIOUS
<1>1. ASSUME NEW r \in Requests, Refuse(r) PROVE LimiterInv'
  BY <1>1, EndKeeps DEF Refuse
<1>2. ASSUME NEW r \in Requests, Admit(r) PROVE LimiterInv'
  BY <1>2, AddKeeps DEF Admit
<1>3. ASSUME NEW r \in Requests, FailOpen(r) PROVE LimiterInv'
  <2>1. CASE pc[r] = "deciding" /\ ~Over(r) /\ Add(r)
    BY <1>3, <2>1, AddKeeps DEF FailOpen
  <2>2. CASE /\ allowed' = allowed
             /\ members' = members \/ (pc[r] = "counting" /\ members' = Trimmed(r))
    BY <1>3, <2>2, EndKeeps DEF FailOpen
  <2> QED
    BY <1>3, <2>1, <2>2 DEF FailOpen
<1>4. CASE UNCHANGED vars
  BY <1>4 DEF vars, LimiterInv, LimiterTypeOK, Through, Flight, Over, Covers
<1> QED
  BY <1>1, <1>2, <1>3, <1>4, TickKeeps, BeginKeeps, CountKeeps DEF Next

LEMMA LimiterStart == Init => LimiterInv
<1> SUFFICES ASSUME Init PROVE LimiterInv
  OBVIOUS
<1>1. 0 \in Times /\ 0 \in 0..MaxCost
  BY ApiRequestsAssumption, LimiterConstants DEF Times
<1>2. LimiterTypeOK
  BY <1>1 DEF Init, Empty, LimiterTypeOK
<1>3. ASSUME NEW t \in Times
      PROVE  Through(t, Window - MaxDelay) + SumOver(Flight(t), Requests) <= Overshoot
  <2>1. \A r \in Requests : Flight(t)[r] = 0
    BY DEF Init, Flight
  <2>2. SumOver(Flight(t), Requests) = 0
    BY <2>1, SumOfZeros, LimiterConstants
  <2>3. Through(t, Window - MaxDelay) = 0
    <3> DEFINE S == {s \in Times : t - (Window - MaxDelay) < s /\ s <= t}
    <3>1. Through(t, Window - MaxDelay) = SumOver(allowed, S)
      BY TotalIsSum DEF Through
    <3>2. IsFiniteSet(S) /\ \A s \in S : allowed[s] = 0
      BY LimiterConstants DEF Init, Empty
    <3> HIDE DEF S
    <3> QED
      BY <3>1, <3>2, SumOfZeros
  <2>4. Overshoot \in Nat
    <3>1. Cardinality(Requests) \in Nat \ {0}
      BY ApiRequestsAssumption, FS_CardinalityType, FS_EmptySet
    <3>2. Cardinality(Requests) - 1 \in Nat
      BY <3>1
    <3>3. \A n, m \in Nat : n * m \in Nat
      OBVIOUS
    <3> QED
      BY <3>2, <3>3, LimiterConstants DEF Overshoot
  <2> QED
    BY <2>2, <2>3, <2>4
<1>4. \A s \in Times : members[s] = 0 /\ allowed[s] = 0
  BY DEF Init, Empty
<1> QED
  BY <1>2, <1>3, <1>4 DEF LimiterInv, Init

\* What the API does with a request is a step of the limiter, or none of it.
LEMMA ApiStepIsLimiterStep == [AdmissionNext]_admission => [Next]_vars
<1> SUFFICES ASSUME [AdmissionNext]_admission PROVE [Next]_vars
  OBVIOUS
<1>1. Pass => Next
  BY DEF Pass, Next
<1>2. ASSUME NEW r \in Requests, Serve(r) PROVE UNCHANGED vars
  BY <1>2 DEF Serve
<1>3. ASSUME NEW r \in Requests, Charge(r) \/ Count(r) \/ TurnAway(r) \/ LetIn(r) PROVE Next
  BY <1>3 DEF Charge, Count, TurnAway, LetIn, Next
<1>4. UNCHANGED admission => UNCHANGED vars
  BY DEF admission
<1> QED
  BY <1>1, <1>2, <1>3, <1>4 DEF AdmissionNext

\* What the limiter knows holds in every reachable state, for any number of
\* requests, any limit, window, batch and delay.
THEOREM LimiterInvHolds == AdmissionSpec => []LimiterInv
<1>1. AdmissionInit => LimiterInv
  BY LimiterStart DEF AdmissionInit
<1>2. LimiterInv /\ [AdmissionNext]_admission => LimiterInv'
  BY LimiterStep, ApiStepIsLimiterStep
<1> QED
  BY <1>1, <1>2, PTL DEF AdmissionSpec

\* check_and_consume counts in one transaction and adds in another: however
\* requests interleave between the two, and whatever Redis does of a call whose
\* answer is lost, a window lets through at most the limit and one batch of each
\* request but one.
THEOREM OvershootIsBounded == AdmissionSpec => []OvershootBounded
<1>1. ASSUME LimiterInv PROVE OvershootBounded
  <2> SUFFICES ASSUME NEW t \in Times PROVE Through(t, Window - MaxDelay) <= Overshoot
    BY DEF OvershootBounded, Overshoot
  <2>1. LimiterTypeOK /\ Through(t, Window - MaxDelay) + SumOver(Flight(t), Requests) <= Overshoot
    BY <1>1 DEF LimiterInv
  <2>2. Through(t, Window - MaxDelay) \in Nat /\ SumOver(Flight(t), Requests) \in Nat
    BY <2>1, ThroughFacts, FlightFacts
  <2>3. Overshoot \in Int
    <3>1. Cardinality(Requests) \in Nat
      BY LimiterConstants, FS_CardinalityType
    <3>2. \A n, m \in Int : n * m \in Int
      OBVIOUS
    <3> QED
      BY <3>1, <3>2, LimiterConstants DEF Overshoot
  <2> QED
    BY <2>1, <2>2, <2>3
<1> QED
  BY <1>1, LimiterInvHolds, PTL

\* A refusal is never for spans that are older than the window: what it counted
\* has all been let through since.
THEOREM RefusalsAreAtTheLimit == AdmissionSpec => RefusedOnlyAtLimit
<1>1. ASSUME LimiterInv, NEW r \in Requests, Refuse(r)
      PROVE  Total(allowed, {s \in Times : s > now[r] - Window}) + cost[r] > Limit
  <2>1. used[r] <= Total(allowed, Since(now[r] - Window)) /\ used[r] + cost[r] > Limit
    BY <1>1 DEF LimiterInv, Refuse, Over
  <2>2. /\ used[r] \in Nat /\ cost[r] \in Nat /\ Limit \in Nat
        /\ Total(allowed, Since(now[r] - Window)) \in Nat
    <3>1. LimiterTypeOK
      BY <1>1 DEF LimiterInv
    <3>2. Since(now[r] - Window) \in SUBSET Times
      BY DEF Since
    <3> QED
      BY <3>1, <3>2, ThroughFacts, LimiterConstants DEF LimiterTypeOK
  <2> QED
    BY <2>1, <2>2 DEF Since
<1>2. LimiterInv /\ [AdmissionNext]_admission =>
          [\A r \in Requests : Refuse(r) =>
              Total(allowed, {s \in Times : s > now[r] - Window}) + cost[r] > Limit]_vars
  BY <1>1
<1> QED
  BY <1>2, LimiterInvHolds, PTL DEF AdmissionSpec, RefusedOnlyAtLimit
=============================================================================
