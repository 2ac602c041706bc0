------------------------------ MODULE Admission ------------------------------
(***************************************************************************)
(* A request on its way through the API: its key (ApiKeys) and, when it    *)
(* brings spans, the rate limiter (RateLimiter), which keeps what it has   *)
(* counted when the transaction of the request is rolled back.             *)
(***************************************************************************)
EXTENDS ApiKeys, RateLimiter

CONSTANT Traffic   \* the routes that clients ask for, and until when

ASSUME AdmissionAssumption == Traffic \subseteq [routes : SUBSET Routes, until : Times]

VARIABLE traffic

admission == <<vars, session, traffic>>

AdmissionInit == KeysInit /\ Init /\ traffic \in Traffic

\* The time that a request takes has a bound.
Pass ==
    /\ Tick /\ clock < traffic.until
    /\ \A r \in Requests : at[r] # "none" => clock - call[r].now < MaxStay
    /\ UNCHANGED session

\* The ingest handler asks the limiter before it writes anything.
Charge(r) ==
    /\ Step(r, "handling", "charging") /\ call[r].route = "ingest"
    /\ Begin(r)
    /\ UNCHANGED <<keys, lock, call, row, writes, served>>

Count(r) ==
    /\ at[r] = "charging" /\ TrimAndCount(r)
    /\ UNCHANGED session

\* 429, and what the request has recorded of its key is rolled back.
TurnAway(r) ==
    /\ Step(r, "charging", "failed") /\ Refuse(r)
    /\ UNCHANGED <<keys, lock, call, row, writes, served>>

\* ingest_spans runs, and the request may be committed or fail.
LetIn(r) ==
    /\ Step(r, "charging", "done") /\ (Admit(r) \/ FailOpen(r))
    /\ UNCHANGED <<keys, lock, call, row, writes, served>>

\* The session's own steps.
Serve(r) ==
    /\ KeyStep(r)
    /\ call'[r].route \in traffic.routes \cup {"none"}
    /\ UNCHANGED vars

AdmissionNext ==
    /\ UNCHANGED traffic
    /\ \/ Pass
       \/ \E r \in Requests :
             Serve(r) \/ Charge(r) \/ Count(r) \/ TurnAway(r) \/ LetIn(r)

AdmissionSpec == AdmissionInit /\ [][AdmissionNext]_admission
=============================================================================
