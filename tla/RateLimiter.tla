----------------------------- MODULE RateLimiter -----------------------------
(***************************************************************************)
(* The ingest rate limiter: the spans a project has sent in the last       *)
(* window are the members of a Redis sorted set. A request trims and       *)
(* counts the set in one transaction and adds its own spans in another, so *)
(* requests interleave between the two; without Redis they are let through.*)
(***************************************************************************)
EXTENDS ApiRequests, FiniteSetsExt

CONSTANTS
    Limit,     \* ingest_rate_limit_per_minute
    Window,    \* WINDOW_SECONDS
    MaxCost,   \* MAX_SPANS_PER_BATCH, the most that one request costs
    MaxDelay   \* the longest time from the start of a request to its count

ASSUME RateLimiterAssumption ==
    /\ Limit \in Nat /\ Window \in Nat \ {0}
    /\ MaxCost \in Nat \ {0} /\ MaxDelay \in 0..Window

VARIABLES
    members,  \* the sorted set: how many members have each score
    pc,       \* where each request stands
    now,      \* the time a request has read at its start
    cost, used,
    allowed   \* history: the spans ever added to the set, by their score

vars == <<clock, members, pc, now, cost, used, allowed>>

Empty == [s \in Times |-> 0]
Total(f, S) == MapThenSumSet(LAMBDA s : f[s], S)

Init ==
    /\ clock = 0
    /\ members = Empty
    /\ pc = [r \in Requests |-> "new"]
    /\ now = [r \in Requests |-> 0]
    /\ cost = [r \in Requests |-> 0]
    /\ used = [r \in Requests |-> 0]
    /\ allowed = Empty

Tick ==
    /\ clock < MaxTime
    /\ \A r \in Requests : pc[r] = "counting" => clock - now[r] < MaxDelay
    /\ clock' = clock + 1
    /\ UNCHANGED <<members, pc, now, cost, used, allowed>>

Goto(r, from, to) == pc[r] = from /\ pc' = [pc EXCEPT ![r] = to]

Begin(r) ==
    /\ Goto(r, "new", "counting")
    /\ now' = [now EXCEPT ![r] = clock]
    /\ \E n \in 1..MaxCost : cost' = [cost EXCEPT ![r] = n]
    /\ UNCHANGED <<clock, members, used, allowed>>

\* zremrangebyscore(key, 0, now - WINDOW_SECONDS): both ends are included.
Trimmed(r) == [s \in Times |-> IF s <= now[r] - Window THEN 0 ELSE members[s]]

\* Mutants: the count is not preceded by the trim; the new spans are not added
\* to the count.
TrimAndCount_untrimmed(r) ==
    /\ Goto(r, "counting", "deciding")
    /\ used' = [used EXCEPT ![r] = Total(members, Times)]
    /\ UNCHANGED <<clock, members, now, cost, allowed>>
Over_count_only(r) == used[r] > Limit

TrimAndCount(r) ==
    /\ Goto(r, "counting", "deciding")
    /\ members' = Trimmed(r)
    /\ used' = [used EXCEPT ![r] = Total(Trimmed(r), Times)]
    /\ UNCHANGED <<clock, now, cost, allowed>>

Over(r) == used[r] + cost[r] > Limit

\* The request is over: its slot takes another one.
End(r) ==
    /\ pc' = [pc EXCEPT ![r] = "new"]
    /\ now' = [now EXCEPT ![r] = 0]
    /\ cost' = [cost EXCEPT ![r] = 0]
    /\ used' = [used EXCEPT ![r] = 0]

Refuse(r) ==
    /\ pc[r] = "deciding"
    /\ Over(r)
    /\ End(r)
    /\ UNCHANGED <<clock, members, allowed>>

\* One member per span, all with the time the request has read.
Add(r) ==
    /\ members' = [members EXCEPT ![now[r]] = @ + cost[r]]
    /\ allowed' = [allowed EXCEPT ![now[r]] = @ + cost[r]]

Admit(r) ==
    /\ pc[r] = "deciding"
    /\ ~Over(r)
    /\ Add(r)
    /\ End(r)
    /\ UNCHANGED clock

\* Redis is down or its answer is lost: the request is let through, and what it
\* has sent to Redis may have been done or not.
FailOpen(r) ==
    /\ \/ /\ pc[r] = "counting"
          /\ members' \in {members, Trimmed(r)}
          /\ UNCHANGED allowed
       \/ /\ pc[r] = "deciding"
          /\ ~Over(r)
          /\ Add(r) \/ UNCHANGED <<members, allowed>>
    /\ End(r)
    /\ UNCHANGED clock

Next ==
    \/ Tick
    \/ \E r \in Requests :
          Begin(r) \/ TrimAndCount(r) \/ Refuse(r) \/ Admit(r) \/ FailOpen(r)

Spec == Init /\ [][Next]_vars
-----------------------------------------------------------------------------
(* Properties.                                                             *)

\* The spans that Redis has let through with a time later than t - length, t at
\* most.
Through(t, length) == Total(allowed, {s \in Times : t - length < s /\ s <= t})

\* While Redis answers, no window of any position lets more than the limit
\* through, but for one batch of each other request in flight at a count; the
\* window counts for the time that a request may take to be counted less.
OvershootBounded ==
    \A t \in Times :
        Through(t, Window - MaxDelay) <= Limit + (Cardinality(Requests) - 1) * MaxCost

\* A request is refused only if what has been let through since its window began
\* leaves no room for it: older spans never count.
RefusedOnlyAtLimit ==
    [][\A r \in Requests : Refuse(r) =>
          Total(allowed, {s \in Times : s > now[r] - Window}) + cost[r] > Limit]_vars
=============================================================================
