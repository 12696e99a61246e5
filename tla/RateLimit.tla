------------------------------ MODULE RateLimit ------------------------------
(***************************************************************************)
(* middleware/rate_limit.py: per-principal request rate over a trailing    *)
(* window and per-principal concurrency, kept by one asyncio process.      *)
(* Code between two awaits is one action; other requests run between them. *)
(*                                                                         *)
(* The deque of a principal is the part of log that follows head: log      *)
(* keeps every admission ever made, head counts those popped off the left. *)
(* Time is in ticks, several of them to a second: the clock is a float and *)
(* Retry-After is whole seconds.  It is monotonic.  A request is identified *)
(* by its ASGI call and belongs to the principal that was validated.       *)
(***************************************************************************)
EXTENDS Integers, FiniteSets, Sequences

CONSTANTS Requests,    \* ASGI calls
          Principals,  \* validated principal ids
          Rpm,         \* requests_per_minute
          MaxInflight, \* max_concurrent
          Second,      \* ticks of a second
          Window,      \* _WINDOW_SECONDS, in ticks
          MaxTime      \* bound: the last tick the clock reaches

Nobody == "nobody"   \* the owner of a call that has not reached the limiter

ASSUME RateLimitAssumption ==
  /\ Rpm \in Nat \ {0}
  /\ MaxInflight \in Nat
  /\ Second \in Nat \ {0}
  /\ Window \in Nat \ {0}
  /\ MaxTime \in Nat
  /\ IsFiniteSet(Requests)
  /\ Nobody \notin Principals

VARIABLES now,       \* self._clock()
          log,       \* per principal: times of all its admissions
          head,      \* per principal: how many of them were popped
          inflight,  \* per principal: self._inflight
          tracked,   \* principals with an entry in self._window
          pc,        \* per request: where its call is
          owner,     \* per request: its principal, once it reached the limiter
          retryAt    \* per request: when its 429 told it to come back

limiterVars == <<log, head, inflight, tracked>>
callVars    == <<pc, owner, retryAt>>
vars == <<now, limiterVars, callVars>>

CallStates == {"new", "refused_rate", "refused_concurrency", "running", "done"}

TypeOK ==
  /\ now \in Nat
  /\ log \in [Principals -> Seq(Nat)]
  /\ head \in [Principals -> Nat]
  /\ inflight \in [Principals -> Int]
  /\ tracked \in SUBSET Principals
  /\ pc \in [Requests -> CallStates]
  /\ owner \in [Requests -> Principals \cup {Nobody}]
  /\ retryAt \in [Requests -> Int]

Init ==
  /\ now = 0
  /\ log = [p \in Principals |-> <<>>]
  /\ head = [p \in Principals |-> 0]
  /\ inflight = [p \in Principals |-> 0]
  /\ tracked = {}
  /\ pc = [r \in Requests |-> "new"]
  /\ owner = [r \in Requests |-> Nobody]
  /\ retryAt = [r \in Requests |-> 0]

(***************************************************************************)
(* The deque                                                               *)
(***************************************************************************)
(* Slip: an entry leaves the window a tick early. *)
FreshShort(t) == t > now - Window + 1

Fresh(t) == t > now - Window

(* What is left of the deque after popleft while its oldest entry is at or *)
(* before the cutoff: h entries in all have been popped.                   *)
Purged(p, h) ==
  /\ h \in head[p]..Len(log[p])
  /\ \A i \in (head[p] + 1)..h : ~Fresh(log[p][i])
  /\ h < Len(log[p]) => Fresh(log[p][h + 1])

Live(p, h) == Len(log[p]) - h

(* How long the oldest entry stays in the window, in ticks. *)
Wait(p, h) == log[p][h + 1] + Window - now

(* Slip: the wait is rounded down. *)
RetryAfterFloor(p, h) ==
  LET whole == Wait(p, h) \div Second IN IF whole < 1 THEN 1 ELSE whole

(* retry_after: the wait in whole seconds, rounded up, and at least one.   *)
RetryAfter(p, h) ==
  LET whole == (Wait(p, h) + Second - 1) \div Second IN IF whole < 1 THEN 1 ELSE whole

(***************************************************************************)
(* __call__                                                                *)
(***************************************************************************)
(* The critical section: purge, then refuse or reserve.                    *)
Reserve(r, p) ==
  /\ pc[r] = "new"
  /\ owner' = [owner EXCEPT ![r] = p]
  /\ tracked' = tracked \cup {p}
  /\ \E h \in 0..Len(log[p]) :
       /\ Purged(p, h)
       /\ head' = [head EXCEPT ![p] = h]
       /\ \/ /\ Live(p, h) >= Rpm
             /\ pc' = [pc EXCEPT ![r] = "refused_rate"]
             /\ retryAt' = [retryAt EXCEPT ![r] = now + Second * RetryAfter(p, h)]
             /\ UNCHANGED <<log, inflight>>
          \/ /\ Live(p, h) < Rpm
             /\ inflight[p] >= MaxInflight
             /\ pc' = [pc EXCEPT ![r] = "refused_concurrency"]
             /\ UNCHANGED <<log, inflight, retryAt>>
          \/ /\ Live(p, h) < Rpm
             /\ inflight[p] < MaxInflight
             /\ pc' = [pc EXCEPT ![r] = "running"]
             /\ log' = [log EXCEPT ![p] = Append(@, now)]
             /\ inflight' = [inflight EXCEPT ![p] = @ + 1]
             /\ UNCHANGED retryAt
  /\ UNCHANGED now

(* _gc: drop a principal whose deque is empty with nothing in flight.      *)
Idle(p) == head[p] = Len(log[p]) /\ inflight'[p] <= 0

Gc(p) == tracked' = IF Idle(p) THEN tracked \ {p} ELSE tracked

(* Slip: the refusal runs through the finally of the admitted path. *)
RefuseReleases(r) ==
  /\ pc[r] \in {"refused_rate", "refused_concurrency"}
  /\ pc' = [pc EXCEPT ![r] = "done"]
  /\ inflight' = [inflight EXCEPT ![owner[r]] = @ - 1]
  /\ UNCHANGED <<now, log, head, owner, retryAt>>
  /\ Gc(owner[r])

(* The 429 went out. *)
Refuse(r) ==
  /\ pc[r] \in {"refused_rate", "refused_concurrency"}
  /\ pc' = [pc EXCEPT ![r] = "done"]
  /\ UNCHANGED <<now, log, head, inflight, owner, retryAt>>
  /\ Gc(owner[r])

(* Sending the 429 raised (the client is gone): _gc is not reached.        *)
RefuseFails(r) ==
  /\ pc[r] \in {"refused_rate", "refused_concurrency"}
  /\ pc' = [pc EXCEPT ![r] = "done"]
  /\ UNCHANGED <<now, limiterVars, owner, retryAt>>

(* finally: however the inner app returned, raised or was cancelled.       *)
Release(r) ==
  /\ pc[r] = "running"
  /\ pc' = [pc EXCEPT ![r] = "done"]
  /\ inflight' = [inflight EXCEPT ![owner[r]] = @ - 1]
  /\ UNCHANGED <<now, log, head, owner, retryAt>>
  /\ Gc(owner[r])

Tick ==
  /\ now < MaxTime
  /\ now' = now + 1
  /\ UNCHANGED <<limiterVars, callVars>>

Next ==
  \/ Tick
  \/ \E r \in Requests :
       \/ \E p \in Principals : Reserve(r, p)
       \/ Refuse(r) \/ RefuseFails(r) \/ Release(r)

Spec == Init /\ [][Next]_vars

(* Time passes, calls keep arriving and the event loop runs each to its    *)
(* end.                                                                    *)
FairSpec ==
  /\ Spec
  /\ WF_vars(Tick)
  /\ \A r \in Requests : WF_vars(\E p \in Principals : Reserve(r, p))
  /\ \A r \in Requests : WF_vars(Refuse(r) \/ Release(r))

(***************************************************************************)
(* Properties                                                              *)
(***************************************************************************)
Running(p) == {r \in Requests : pc[r] = "running" /\ owner[r] = p}

(* "at most max_concurrent in flight per principal at any instant": the    *)
(* counter is exact on every path a call can take, dropping and recreating *)
(* the entry included.                                                     *)
InflightExact ==
  \A p \in Principals :
    inflight[p] = Cardinality(Running(p)) /\ inflight[p] <= MaxInflight

(* "max requests served per principal per trailing 60s": of any Rpm + 1    *)
(* consecutive admissions of a principal, the last comes at least a window *)
(* after the first.                                                        *)
RateBound ==
  \A p \in Principals :
    \A i \in 1..Len(log[p]) :
      i + Rpm <= Len(log[p]) => log[p][i + Rpm] - log[p][i] >= Window

(* Retry-After is honest, as far as rounding lets it: a rate-limited caller *)
(* that waits as told is refused again only if its principal was admitted  *)
(* since room came free, which is less than a second before the moment the *)
(* caller was told.  Rounded up, a wait leaves that gap for another call.  *)
RetryAfterHonest ==
  \A r \in Requests :
    (retryAt[r] > 0 /\ now >= retryAt[r]) =>
      LET p == owner[r]
      IN  \A h \in 0..Len(log[p]) :
            Purged(p, h) /\ Live(p, h) >= Rpm =>
              \E i \in 1..Len(log[p]) : log[p][i] > retryAt[r] - Second

(* rate_limit.py, on its two dicts: "empty entries are garbage-collected   *)
(* so a churn of distinct principals does not grow these unbounded".  The  *)
(* entry of a principal whose calls are over and whose admissions have all *)
(* left the window is reclaimed in the end, while other callers go on.     *)
Departed(p) ==
  /\ \A r \in Requests : owner[r] = p => pc[r] = "done"
  /\ \A i \in 1..Len(log[p]) : ~Fresh(log[p][i])

ChurnReclaimed ==
  \A p \in Principals : Departed(p) ~> (p \notin tracked \/ ~Departed(p))
==============================================================================
