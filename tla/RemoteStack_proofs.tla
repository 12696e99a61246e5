--------------------------- MODULE RemoteStack_proofs ---------------------------
(***************************************************************************)
(* Theorems about RateLimit, and about RemoteStack that composes it, for   *)
(* every set of calls and principals, every rate, concurrency and window.  *)
(* The limiter comes first; the stack drives it only through its own       *)
(* protocol, so what is proved of the limiter holds of the stack, and no   *)
(* call is answered twice.                                                 *)
(***************************************************************************)
EXTENDS RemoteStack, FiniteSetTheorems, SequenceTheorems, TLAPS

-------------------------------------------------------------------------------
(* The limiter (RateLimit). *)

(* What has left the deque is stale, and will be for ever.                 *)
PoppedStale ==
  \A p \in Principals :
    /\ head[p] <= Len(log[p])
    /\ \A i \in 1..head[p] : log[p][i] <= now - Window

(* Admissions are logged in the order of the clock.                        *)
LogOrdered ==
  \A p \in Principals :
    \A i \in 1..Len(log[p]) :
      /\ log[p][i] <= now
      /\ \A j \in i..Len(log[p]) : log[p][i] <= log[p][j]

(* A call past the critical section has its principal, a new one has none. *)
Owned == \A r \in Requests : owner[r] \in Principals <=> pc[r] # "new"

(* The moment told is the expiry of an admission at time t, rounded up.    *)
RoundsUp(t, told) == t + Window <= told /\ told < t + Window + Second

(* A 429 names the moment at which some admission leaves the window, or a  *)
(* moment less than a second later.                                        *)
RetryIsExpiry ==
  \A r \in Requests :
    retryAt[r] > 0 =>
      /\ owner[r] \in Principals
      /\ \E i \in 1..Len(log[owner[r]]) : RoundsUp(log[owner[r]][i], retryAt[r])

TimeInv  == TypeOK /\ Owned /\ PoppedStale /\ LogOrdered /\ RateBound
RetryInv == TypeOK /\ Owned /\ RetryIsExpiry
SlotInv  == TypeOK /\ Owned /\ InflightExact

-------------------------------------------------------------------------------

LEMMA InitType == Init => TypeOK
  BY DEF Init, TypeOK, CallStates

(* Rounding up to whole units of s goes up, by less than s.                *)
LEMMA RoundUp ==
  ASSUME NEW w \in Int, NEW s \in Nat \ {0}
  PROVE  /\ (w + s - 1) \div s \in Int
         /\ s * ((w + s - 1) \div s) \in Int
         /\ w <= s * ((w + s - 1) \div s)
         /\ s * ((w + s - 1) \div s) < w + s
<1> DEFINE a == w + s - 1
           q == a \div s
           m == a % s
<1>1. a \in Int /\ q \in Int /\ m \in 0..(s - 1)
  OBVIOUS
<1>2. a = s * q + m
  OBVIOUS
<1>3. QED
  BY <1>1, <1>2

(* What Retry-After tells of a principal whose oldest live entry is at     *)
(* h + 1: a whole number of seconds, rounded up.                           *)
LEMMA RetryAfterRounds ==
  ASSUME TypeOK, NEW p \in Principals, NEW h \in 0..Len(log[p]),
         Purged(p, h), Live(p, h) >= Rpm
  PROVE  /\ h + 1 \in 1..Len(log[p])
         /\ now + Second * RetryAfter(p, h) \in Int
         /\ RoundsUp(log[p][h + 1], now + Second * RetryAfter(p, h))
<1> USE RateLimitAssumption
<1>1. /\ log[p] \in Seq(Nat) /\ now \in Nat /\ h \in Nat /\ Len(log[p]) \in Nat
  BY DEF TypeOK
<1>2. h + 1 \in 1..Len(log[p]) /\ log[p][h + 1] \in Nat
  BY <1>1 DEF Live
<1>3. Wait(p, h) \in Int /\ Wait(p, h) = log[p][h + 1] + Window - now
  BY <1>1, <1>2 DEF Wait
<1>4. Wait(p, h) >= 1
  BY <1>1, <1>2, <1>3 DEF Purged, Fresh
<1> DEFINE whole == (Wait(p, h) + Second - 1) \div Second
<1>5. /\ whole \in Int /\ Second * whole \in Int
      /\ Wait(p, h) <= Second * whole /\ Second * whole < Wait(p, h) + Second
  BY <1>3, RoundUp
<1>6. whole >= 1
  <2>1. \A q \in Int : q < 1 => Second * q <= 0
    OBVIOUS
  <2> HIDE DEF whole
  <2>2. QED
    BY <1>3, <1>4, <1>5, <2>1
<1>7. RetryAfter(p, h) = whole
  <2>1. RetryAfter(p, h) = IF whole < 1 THEN 1 ELSE whole
    BY DEF RetryAfter
  <2> HIDE DEF whole
  <2>2. QED
    BY <1>5, <1>6, <2>1
<1>8. now + Second * RetryAfter(p, h) = now + Second * whole
  BY <1>7
<1> DEFINE told == Second * whole
           t == log[p][h + 1]
<1>9. now + told \in Int /\ t + Window <= now + told /\ now + told < t + Window + Second
  <2> HIDE DEF told, t, whole
  <2>1. t \in Nat /\ now \in Nat /\ told \in Int /\ Window \in Nat /\ Second \in Nat
    BY <1>1, <1>2, <1>5 DEF told, t
  <2>2. t + Window - now <= told /\ told < t + Window - now + Second
    BY <1>3, <1>5 DEF told, t
  <2>3. QED
    BY <2>1, <2>2
<1>10. QED
  BY <1>2, <1>8, <1>9 DEF RoundsUp

(* The one step that admits, refuses and pops, taken apart.                *)
LEMMA ReserveType ==
  ASSUME TypeOK, NEW r \in Requests, NEW p \in Principals, Reserve(r, p)
  PROVE  TypeOK'
<1> USE RateLimitAssumption DEF TypeOK
<1>1. PICK h \in 0..Len(log[p]) :
        /\ Purged(p, h)
        /\ head' = [head EXCEPT ![p] = h]
        /\ \/ /\ Live(p, h) >= Rpm
              /\ pc' = [pc EXCEPT ![r] = "refused_rate"]
              /\ retryAt' = [retryAt EXCEPT ![r] = now + Second * RetryAfter(p, h)]
              /\ UNCHANGED <<log, inflight>>
           \/ /\ pc' = [pc EXCEPT ![r] = "refused_concurrency"]
              /\ UNCHANGED <<log, inflight, retryAt>>
           \/ /\ pc' = [pc EXCEPT ![r] = "running"]
              /\ log' = [log EXCEPT ![p] = Append(@, now)]
              /\ inflight' = [inflight EXCEPT ![p] = @ + 1]
              /\ UNCHANGED retryAt
  BY DEF Reserve
<1>2. log' \in [Principals -> Seq(Nat)]
  <2>1. Append(log[p], now) \in Seq(Nat)
    BY AppendProperties
  <2>2. QED
    BY <1>1, <2>1
<1>3. Live(p, h) >= Rpm => now + Second * RetryAfter(p, h) \in Int
  BY <1>1, RetryAfterRounds
<1>4. retryAt' \in [Requests -> Int]
  BY <1>1, <1>3
<1>5. head' \in [Principals -> Nat] /\ inflight' \in [Principals -> Int]
  BY <1>1
<1>6. pc' \in [Requests -> CallStates]
  BY <1>1 DEF CallStates
<1>7. /\ tracked' \in SUBSET Principals
      /\ owner' \in [Requests -> Principals \cup {Nobody}]
      /\ now' \in Nat
  BY DEF Reserve
<1>8. QED
  BY <1>2, <1>4, <1>5, <1>6, <1>7

LEMMA TypeStep == TypeOK /\ [Next]_vars => TypeOK'
<1> SUFFICES ASSUME TypeOK, [Next]_vars PROVE TypeOK'
  OBVIOUS
<1> USE RateLimitAssumption DEF CallStates
<1>1. CASE Tick
  BY <1>1 DEF TypeOK, Tick, limiterVars, callVars
<1>2. ASSUME NEW r \in Requests, NEW p \in Principals, Reserve(r, p) PROVE TypeOK'
  BY <1>2, ReserveType
<1>3. ASSUME NEW r \in Requests, Refuse(r) PROVE TypeOK'
  BY <1>3 DEF TypeOK, Refuse, Gc
<1>4. ASSUME NEW r \in Requests, RefuseFails(r) PROVE TypeOK'
  BY <1>4 DEF TypeOK, RefuseFails, limiterVars
<1>5. ASSUME NEW r \in Requests, Release(r) PROVE TypeOK'
  <2>1. inflight' \in [Principals -> Int]
    <3>1. \A p \in Principals : inflight[p] \in Int /\ inflight[p] - 1 \in Int
      BY DEF TypeOK
    <3>2. inflight' = [inflight EXCEPT ![owner[r]] = inflight[owner[r]] - 1]
      BY <1>5 DEF Release
    <3>3. QED
      BY <3>1, <3>2 DEF TypeOK
  <2>2. tracked' \in SUBSET Principals
    BY <1>5 DEF TypeOK, Release, Gc
  <2>3. QED
    BY <1>5, <2>1, <2>2 DEF TypeOK, Release
<1>6. CASE UNCHANGED vars
  BY <1>6 DEF TypeOK, vars, limiterVars, callVars
<1>7. QED
  BY <1>1, <1>2, <1>3, <1>4, <1>5, <1>6 DEF Next

(* Every variable keeps its type, whatever the constants.                  *)
THEOREM TypeCorrect == Spec => []TypeOK
  BY InitType, TypeStep, PTL DEF Spec

-------------------------------------------------------------------------------

(* Who owns a call.                                                        *)
LEMMA OwnedStep == TypeOK /\ Owned /\ [Next]_vars => Owned'
<1> SUFFICES ASSUME TypeOK, Owned, [Next]_vars PROVE Owned'
  OBVIOUS
<1>1. ASSUME NEW r \in Requests, NEW p \in Principals, Reserve(r, p) PROVE Owned'
  <2>1. /\ owner' = [owner EXCEPT ![r] = p]
        /\ \E s \in CallStates \ {"new"} : pc' = [pc EXCEPT ![r] = s]
    BY <1>1 DEF Reserve, CallStates
  <2>2. QED
    BY <2>1 DEF TypeOK, Owned
<1>2. ASSUME NEW r \in Requests, Refuse(r) \/ RefuseFails(r) \/ Release(r) PROVE Owned'
  BY <1>2 DEF TypeOK, Owned, Refuse, RefuseFails, Release
<1>3. CASE Tick \/ UNCHANGED vars
  BY <1>3 DEF Owned, Tick, vars, limiterVars, callVars
<1>4. QED
  BY <1>1, <1>2, <1>3 DEF Next

(* The only way the deque and the log change: stale entries are popped off *)
(* the left, and at most one admission is appended, when fewer than Rpm    *)
(* entries are left.                                                       *)
LEMMA ReserveLog ==
  ASSUME TypeOK, NEW r \in Requests, NEW p \in Principals, Reserve(r, p)
  PROVE  \E h \in 0..Len(log[p]) :
           /\ Purged(p, h)
           /\ head' = [head EXCEPT ![p] = h]
           /\ \/ log' = log
              \/ log' = [log EXCEPT ![p] = Append(@, now)] /\ Live(p, h) < Rpm
  BY DEF Reserve

(* Steps of Next that are not a Reserve leave both alone.                  *)
LEMMA OtherSteps ==
  ASSUME [Next]_vars
  PROVE  \/ \E r \in Requests, p \in Principals : Reserve(r, p) /\ now' = now
         \/ UNCHANGED <<log, head, retryAt, owner>> /\ now' \in {now, now + 1}
  BY DEF Next, Tick, Reserve, Refuse, RefuseFails, Release, vars, limiterVars, callVars

(* Appending the present keeps the log in order and the rate in bounds:    *)
(* fewer than Rpm entries are left of the window, so the admission Rpm     *)
(* places back was popped, hence stale.                                    *)
LEMMA AdmitKeepsTime ==
  ASSUME TimeInv, NEW p \in Principals, NEW h \in 0..Len(log[p]), Purged(p, h),
         head' = [head EXCEPT ![p] = h], now' = now,
         \/ log' = log
         \/ log' = [log EXCEPT ![p] = Append(@, now)] /\ Live(p, h) < Rpm
  PROVE  PoppedStale' /\ LogOrdered' /\ RateBound'
<1> USE RateLimitAssumption
<1>1. /\ log \in [Principals -> Seq(Nat)] /\ head \in [Principals -> Nat] /\ now \in Nat
      /\ PoppedStale /\ LogOrdered /\ RateBound
      /\ h \in Nat /\ h <= Len(log[p])
  BY DEF TimeInv, TypeOK
<1>2. \A i \in 1..h : log[p][i] <= now - Window
  <2> SUFFICES ASSUME NEW i \in 1..h PROVE log[p][i] <= now - Window
    OBVIOUS
  <2>1. CASE i \in 1..head[p]
    BY <1>1, <2>1 DEF PoppedStale
  <2>2. CASE i \in (head[p] + 1)..h
    <3>1. log[p][i] \in Nat
      BY <1>1
    <3>2. ~(log[p][i] > now - Window)
      BY <2>2 DEF Purged, Fresh
    <3>3. QED
      BY <1>1, <3>1, <3>2
  <2>3. QED
    BY <1>1, <2>1, <2>2
<1>3. CASE log' = log
  <2>1. PoppedStale'
    BY <1>1, <1>2, <1>3 DEF PoppedStale
  <2>2. LogOrdered' /\ RateBound'
    BY <1>1, <1>3 DEF LogOrdered, RateBound
  <2>3. QED
    BY <2>1, <2>2
<1>4. CASE log' = [log EXCEPT ![p] = Append(@, now)] /\ Live(p, h) < Rpm
  <2> DEFINE s == log[p]
             t == log'[p]
             n == Len(s)
  <2>1. t = Append(s, now) /\ s \in Seq(Nat)
    BY <1>1, <1>4
  <2>2. /\ n \in Nat /\ h <= n /\ n - h < Rpm
        /\ Len(t) = n + 1
        /\ \A i \in 1..n : s[i] \in Nat /\ s[i] <= now /\ t[i] = s[i]
        /\ t[n + 1] = now
        /\ \A i \in 1..n : \A j \in i..n : s[i] <= s[j]
        /\ \A i \in 1..h : s[i] <= now - Window
        /\ \A i \in 1..n : i + Rpm <= n => s[i + Rpm] - s[i] >= Window
    <3>1. n \in Nat /\ h <= n /\ n - h < Rpm
      BY <1>1, <1>4, <2>1 DEF Live
    <3>2. Len(t) = n + 1 /\ t[n + 1] = now /\ \A i \in 1..n : t[i] = s[i]
      BY <1>1, <2>1, AppendProperties
    <3>3. \A i \in 1..n : s[i] \in Nat
      BY <2>1
    <3>4. QED
      BY <1>1, <1>2, <3>1, <3>2, <3>3 DEF LogOrdered, RateBound
  <2>3. /\ \A i \in 1..h : t[i] <= now - Window
        /\ \A i \in 1..(n + 1) : t[i] <= now /\ \A j \in i..(n + 1) : t[i] <= t[j]
        /\ \A i \in 1..(n + 1) : i + Rpm <= n + 1 => t[i + Rpm] - t[i] >= Window
    <3> HIDE DEF s, t, n
    <3>0. now \in Nat /\ h \in Nat /\ Window \in Nat /\ Rpm \in Nat \ {0} /\ n \in Nat
      BY <1>1, <2>2
    <3> USE <2>2, <3>0
    <3>1. \A i \in 1..h : i \in 1..n
      OBVIOUS
    <3>2. \A i \in 1..h : t[i] <= now - Window
      BY <3>1
    <3>3. ASSUME NEW i \in 1..(n + 1)
          PROVE  t[i] <= now /\ \A j \in i..(n + 1) : t[i] <= t[j]
      <4>1. CASE i = n + 1
        <5>1. \A j \in i..(n + 1) : j = n + 1
          BY <4>1
        <5>2. QED
          BY <4>1, <5>1
      <4>2. CASE i \in 1..n
        <5>1. t[i] = s[i] /\ s[i] <= now /\ s[i] \in Nat
          BY <4>2
        <5>2. ASSUME NEW j \in i..(n + 1) PROVE t[i] <= t[j]
          <6>1. CASE j = n + 1
            BY <5>1, <6>1
          <6>2. CASE j \in i..n
            <7>1. j \in 1..n
              BY <6>2
            <7>2. QED
              BY <4>2, <5>1, <6>2, <7>1
          <6>3. QED
            BY <6>1, <6>2
        <5>3. QED
          BY <5>1, <5>2
      <4>3. QED
        BY <4>1, <4>2
    <3>4. ASSUME NEW i \in 1..(n + 1), i + Rpm <= n + 1
          PROVE  t[i + Rpm] - t[i] >= Window
      <4>1. CASE i + Rpm = n + 1
        <5>1. i \in 1..h
          BY <4>1
        <5>2. i \in 1..n /\ t[i] = s[i] /\ s[i] \in Nat /\ s[i] <= now - Window /\ t[i + Rpm] = now
          BY <3>1, <4>1, <5>1
        <5>3. QED
          BY <5>2
      <4>2. CASE i + Rpm <= n
        <5>1. i \in 1..n /\ i + Rpm \in 1..n
          BY <4>2
        <5>2. QED
          BY <4>2, <5>1
      <4>3. QED
        BY <3>4, <4>1, <4>2
    <3>5. QED
      BY <3>2, <3>3, <3>4
  <2>4. \A q \in Principals : q # p => log'[q] = log[q] /\ head'[q] = head[q]
    BY <1>1, <1>4
  <2>5. head'[p] = h /\ h <= Len(t)
    BY <1>1, <2>2
  <2>6. PoppedStale'
    BY <1>1, <2>3, <2>4, <2>5 DEF PoppedStale
  <2>7. LogOrdered'
    BY <1>1, <2>2, <2>3, <2>4 DEF LogOrdered
  <2>8. RateBound'
    <3>1. \A i \in 1..Len(t) : i + Rpm <= Len(t) => t[i + Rpm] - t[i] >= Window
      BY <2>2, <2>3
    <3>2. ASSUME NEW q \in Principals
          PROVE  \A i \in 1..Len(log'[q]) :
                   i + Rpm <= Len(log'[q]) => log'[q][i + Rpm] - log'[q][i] >= Window
      BY <1>1, <2>4, <3>1 DEF RateBound
    <3>3. QED
      BY <3>2 DEF RateBound
  <2>9. QED
    BY <2>6, <2>7, <2>8
<1>5. QED
  BY <1>3, <1>4

LEMMA TimeStep == TimeInv /\ [Next]_vars => TimeInv'
<1> SUFFICES ASSUME TimeInv, [Next]_vars PROVE TimeInv'
  OBVIOUS
<1>1. TypeOK' /\ Owned'
  BY TypeStep, OwnedStep DEF TimeInv
<1>2. CASE \E r \in Requests, p \in Principals : Reserve(r, p) /\ now' = now
  BY <1>1, <1>2, ReserveLog, AdmitKeepsTime DEF TimeInv
<1>3. CASE UNCHANGED <<log, head, retryAt, owner>> /\ now' \in {now, now + 1}
  <2>1. now \in Nat /\ log \in [Principals -> Seq(Nat)] /\ head \in [Principals -> Nat]
    BY DEF TimeInv, TypeOK
  <2>2. PoppedStale'
    BY <1>3, <2>1, RateLimitAssumption DEF TimeInv, PoppedStale
  <2>3. LogOrdered'
    BY <1>3, <2>1 DEF TimeInv, LogOrdered
  <2>4. RateBound'
    BY <1>3 DEF TimeInv, RateBound
  <2>5. QED
    BY <1>1, <2>2, <2>3, <2>4 DEF TimeInv
<1>4. QED
  BY <1>2, <1>3, OtherSteps

(* rate_limit.py: at most Rpm admissions of a principal in any window that *)
(* trails an admission, however its calls are interleaved, refused, failed *)
(* and collected.                                                          *)
THEOREM RateAlwaysBounded == Spec => []RateBound
<1>1. Init => TimeInv
  BY InitType, RateLimitAssumption DEF Init, TimeInv, Owned, PoppedStale, LogOrdered, RateBound, Nobody
<1>2. TimeInv => RateBound
  BY DEF TimeInv
<1>3. QED
  BY <1>1, <1>2, TimeStep, PTL DEF Spec

-------------------------------------------------------------------------------

LEMMA CallSets ==
  ASSUME NEW S \in SUBSET Requests, NEW r \in Requests
  PROVE  /\ Cardinality(S) \in Nat
         /\ r \notin S => Cardinality(S \cup {r}) = Cardinality(S) + 1
         /\ r \in S => Cardinality(S \ {r}) = Cardinality(S) - 1
  BY RateLimitAssumption, FS_Subset, FS_CardinalityType, FS_AddElement, FS_RemoveElement

(* A principal gains or loses at most one running call per step, and its   *)
(* counter moves with it.                                                  *)
LEMMA SlotStep == SlotInv /\ [Next]_vars => SlotInv'
<1> SUFFICES ASSUME SlotInv, [Next]_vars PROVE SlotInv'
  OBVIOUS
<1>1. TypeOK' /\ Owned'
  BY TypeStep, OwnedStep DEF SlotInv
<1>2. ASSUME NEW q \in Principals
      PROVE  /\ inflight[q] \in Int /\ inflight[q] <= MaxInflight
             /\ inflight[q] = Cardinality(Running(q))
             /\ Running(q) \in SUBSET Requests
  BY DEF SlotInv, TypeOK, InflightExact, Running
<1>3. ASSUME UNCHANGED inflight, \A q \in Principals : Running(q)' = Running(q)
      PROVE  InflightExact'
  BY <1>2, <1>3 DEF InflightExact
<1>4. ASSUME NEW r \in Requests, NEW p \in Principals, Reserve(r, p)
      PROVE  InflightExact'
  <2>1. /\ pc[r] = "new" /\ owner[r] \notin Principals
        /\ owner' = [owner EXCEPT ![r] = p]
    BY <1>4 DEF SlotInv, Owned, Reserve
  <2>2. CASE /\ UNCHANGED inflight
             /\ \E c \in {"refused_rate", "refused_concurrency"} : pc' = [pc EXCEPT ![r] = c]
    <3>1. \A q \in Principals : Running(q)' = Running(q)
      BY <2>1, <2>2 DEF SlotInv, TypeOK, Running
    <3>2. QED
      BY <1>3, <2>2, <3>1
  <2>3. CASE /\ inflight[p] < MaxInflight
             /\ inflight' = [inflight EXCEPT ![p] = @ + 1]
             /\ pc' = [pc EXCEPT ![r] = "running"]
    <3>1. Running(p)' = Running(p) \cup {r} /\ r \notin Running(p)
      BY <2>1, <2>3 DEF SlotInv, TypeOK, Running
    <3>2. \A q \in Principals \ {p} : Running(q)' = Running(q)
      BY <2>1, <2>3 DEF SlotInv, TypeOK, Running
    <3>3. \A q \in Principals \ {p} : inflight'[q] = inflight[q]
      BY <2>3 DEF SlotInv, TypeOK
    <3>4. inflight'[p] = inflight[p] + 1
      BY <2>3 DEF SlotInv, TypeOK
    <3>5. inflight'[p] = Cardinality(Running(p)') /\ inflight'[p] <= MaxInflight
      <4>1. Cardinality(Running(p)') = Cardinality(Running(p)) + 1
        BY <1>2, <3>1, CallSets
      <4>2. QED
        BY <1>2, <2>3, <3>4, <4>1, RateLimitAssumption
    <3>6. QED
      BY <1>2, <3>2, <3>3, <3>5 DEF InflightExact
  <2>4. QED
    BY <1>4, <2>2, <2>3 DEF Reserve
<1>5. ASSUME NEW r \in Requests, Refuse(r) \/ RefuseFails(r) PROVE InflightExact'
  <2>1. /\ UNCHANGED <<inflight, owner>> /\ pc[r] # "running"
        /\ pc' = [pc EXCEPT ![r] = "done"]
    BY <1>5 DEF Refuse, RefuseFails, limiterVars
  <2>2. \A q \in Principals : Running(q)' = Running(q)
    BY <2>1 DEF SlotInv, TypeOK, Running
  <2>3. QED
    BY <1>3, <2>1, <2>2
<1>6. ASSUME NEW r \in Requests, Release(r) PROVE InflightExact'
  <2>0. PICK p \in Principals : p = owner[r]
    BY <1>6 DEF SlotInv, Owned, Release
  <2>1. /\ p = owner[r] /\ pc[r] = "running" /\ owner' = owner
        /\ pc' = [pc EXCEPT ![r] = "done"]
        /\ inflight' = [inflight EXCEPT ![p] = @ - 1]
    BY <1>6, <2>0 DEF Release
  <2>2. Running(p)' = Running(p) \ {r} /\ r \in Running(p)
    BY <2>1 DEF SlotInv, TypeOK, Running
  <2>3. \A q \in Principals \ {p} : Running(q)' = Running(q) /\ inflight'[q] = inflight[q]
    BY <2>1 DEF SlotInv, TypeOK, Running
  <2>4. inflight'[p] = inflight[p] - 1
    BY <2>1 DEF SlotInv, TypeOK
  <2>5. Cardinality(Running(p)') = Cardinality(Running(p)) - 1
    BY <1>2, <2>1, <2>2, CallSets
  <2>6. inflight'[p] = Cardinality(Running(p)') /\ inflight'[p] <= MaxInflight
    BY <1>2, <2>1, <2>4, <2>5, RateLimitAssumption
  <2>7. ASSUME NEW q \in Principals
        PROVE  inflight'[q] = Cardinality(Running(q)') /\ inflight'[q] <= MaxInflight
    <3>1. CASE q = p
      BY <2>6, <3>1
    <3>2. CASE q # p
      BY <1>2, <2>3, <3>2
    <3>3. QED
      BY <3>1, <3>2
  <2>8. QED
    BY <2>7 DEF InflightExact
<1>7. ASSUME Tick \/ UNCHANGED vars PROVE InflightExact'
  <2>1. UNCHANGED <<inflight, pc, owner>>
    BY <1>7 DEF Tick, vars, limiterVars, callVars
  <2>2. QED
    BY <1>3, <2>1 DEF Running
<1>8. QED
  BY <1>1, <1>4, <1>5, <1>6, <1>7 DEF Next, SlotInv

(* rate_limit.py: the per-principal counter is exactly the number of its   *)
(* admitted calls that have not left, and never exceeds the limit.         *)
THEOREM SlotsExact == Spec => []InflightExact
<1>1. Init => SlotInv
  <2> SUFFICES ASSUME Init PROVE SlotInv
    OBVIOUS
  <2>1. TypeOK /\ Owned
    BY InitType, RateLimitAssumption DEF Init, Owned, Nobody
  <2>2. \A p \in Principals : Running(p) = {}
    BY DEF Init, Running
  <2>3. QED
    BY <2>1, <2>2, FS_EmptySet, RateLimitAssumption DEF Init, SlotInv, InflightExact
<1>2. SlotInv => InflightExact
  BY DEF SlotInv
<1>3. QED
  BY <1>1, <1>2, SlotStep, PTL DEF Spec

-------------------------------------------------------------------------------

(* A 429 of the rate limit names the moment its oldest live entry expires. *)
LEMMA RetryStep == TimeInv /\ RetryInv /\ [Next]_vars => RetryInv'
<1> SUFFICES ASSUME TimeInv, RetryInv, [Next]_vars PROVE RetryInv'
  OBVIOUS
<1> USE RateLimitAssumption
<1>1. TypeOK' /\ Owned'
  BY TypeStep, OwnedStep DEF RetryInv
<1>2. ASSUME NEW r \in Requests, NEW p \in Principals, Reserve(r, p)
      PROVE  RetryIsExpiry'
  <2>1. PICK h \in 0..Len(log[p]) :
          /\ Purged(p, h)
          /\ \/ /\ Live(p, h) >= Rpm
                /\ retryAt' = [retryAt EXCEPT ![r] = now + Second * RetryAfter(p, h)]
                /\ log' = log
             \/ /\ retryAt' = retryAt
                /\ \/ log' = log
                   \/ log' = [log EXCEPT ![p] = Append(@, now)]
    BY <1>2 DEF Reserve
  <2>2. /\ log \in [Principals -> Seq(Nat)] /\ now \in Nat /\ h \in Nat
        /\ retryAt \in [Requests -> Int]
        /\ owner \in [Requests -> Principals \cup {Nobody}]
        /\ owner' = [owner EXCEPT ![r] = p] /\ owner[r] \notin Principals
    BY <1>2 DEF Reserve, RetryInv, TypeOK, Owned
  <2>3. \A q \in Principals :
          /\ Len(log[q]) <= Len(log'[q])
          /\ \A i \in 1..Len(log[q]) : log'[q][i] = log[q][i]
    <3>1. CASE log' = log
      <4>1. \A q \in Principals : Len(log[q]) \in Nat
        BY <2>2
      <4>2. QED
        BY <3>1, <4>1
    <3>2. CASE log' = [log EXCEPT ![p] = Append(@, now)]
      <4>1. \A q \in Principals : q # p => log'[q] = log[q] /\ Len(log[q]) \in Nat
        BY <2>2, <3>2
      <4>2. log'[p] = Append(log[p], now) /\ log[p] \in Seq(Nat) /\ Len(log[p]) \in Nat
        BY <2>2, <3>2
      <4>3. /\ Len(log'[p]) = Len(log[p]) + 1
            /\ \A i \in 1..Len(log[p]) : log'[p][i] = log[p][i]
        BY <2>2, <4>2, AppendProperties
      <4>4. Len(log[p]) <= Len(log'[p])
        BY <4>2, <4>3
      <4>5. ASSUME NEW q \in Principals
            PROVE  /\ Len(log[q]) <= Len(log'[q])
                   /\ \A i \in 1..Len(log[q]) : log'[q][i] = log[q][i]
        <5>1. CASE q = p
          BY <4>3, <4>4, <5>1
        <5>2. CASE q # p
          BY <4>1, <5>2
        <5>3. QED
          BY <5>1, <5>2
      <4>6. QED
        BY <4>5
    <3>3. QED
      BY <2>1, <3>1, <3>2
  <2>4. ASSUME NEW x \in Requests, x # r, retryAt'[x] > 0
        PROVE  /\ owner'[x] \in Principals
               /\ \E i \in 1..Len(log'[owner'[x]]) : RoundsUp(log'[owner'[x]][i], retryAt'[x])
    <3>1. retryAt[x] = retryAt'[x] /\ owner'[x] = owner[x]
      BY <2>1, <2>2, <2>4
    <3>2. PICK i \in 1..Len(log[owner[x]]) : RoundsUp(log[owner[x]][i], retryAt[x])
      BY <2>4, <3>1 DEF RetryInv, RetryIsExpiry
    <3>3. owner[x] \in Principals
      BY <2>4, <3>1 DEF RetryInv, RetryIsExpiry
    <3>4. i \in 1..Len(log'[owner[x]]) /\ log'[owner[x]][i] = log[owner[x]][i]
      <4>1. Len(log[owner[x]]) \in Nat /\ Len(log'[owner[x]]) \in Nat
        BY <1>1, <2>2, <3>3 DEF TypeOK
      <4>2. QED
        BY <2>3, <3>3, <4>1
    <3>5. QED
      BY <3>1, <3>2, <3>3, <3>4
  <2>5. ASSUME retryAt'[r] > 0
        PROVE  /\ owner'[r] \in Principals
               /\ \E i \in 1..Len(log'[p]) : RoundsUp(log'[p][i], retryAt'[r])
    <3>1. owner'[r] = p
      BY <2>2
    <3>2. CASE retryAt' = retryAt
      BY <2>2, <2>5, <3>2 DEF RetryInv, RetryIsExpiry
    <3>3. CASE /\ Live(p, h) >= Rpm
               /\ retryAt' = [retryAt EXCEPT ![r] = now + Second * RetryAfter(p, h)]
               /\ log' = log
      <4>1. h + 1 \in 1..Len(log[p])
        BY <2>1, <3>3, RetryAfterRounds DEF RetryInv
      <4>2. RoundsUp(log[p][h + 1], now + Second * RetryAfter(p, h))
        BY <2>1, <3>3, RetryAfterRounds DEF RetryInv
      <4>3. retryAt'[r] = now + Second * RetryAfter(p, h)
        BY <2>2, <3>3
      <4>4. QED
        BY <3>1, <3>3, <4>1, <4>2, <4>3
    <3>4. QED
      BY <2>1, <3>2, <3>3
  <2>6. QED
    BY <2>2, <2>4, <2>5 DEF RetryIsExpiry
<1>3. ASSUME UNCHANGED <<log, head, retryAt, owner>> PROVE RetryIsExpiry'
  BY <1>3 DEF RetryInv, RetryIsExpiry
<1>4. QED
  BY <1>1, <1>2, <1>3, OtherSteps DEF RetryInv

(* From the moment told, the entries that could still be live are those    *)
(* after the one whose expiry was rounded up; were there Rpm of them, one  *)
(* came less than a window after it, or after room had come free.          *)
LEMMA ExpiryFreesRoom ==
  ASSUME TimeInv, RetryInv, NEW r \in Requests, retryAt[r] > 0, now >= retryAt[r],
         \A i \in 1..Len(log[owner[r]]) : log[owner[r]][i] <= retryAt[r] - Second,
         NEW h \in 0..Len(log[owner[r]]), Purged(owner[r], h)
  PROVE  Live(owner[r], h) < Rpm
<1> USE RateLimitAssumption
<1> DEFINE p == owner[r]
           n == Len(log[p])
<1>1. p \in Principals
  BY DEF RetryInv, RetryIsExpiry
<1>2. PICK i \in 1..n : RoundsUp(log[p][i], retryAt[r])
  BY DEF RetryInv, RetryIsExpiry
<1>3. /\ log[p] \in Seq(Nat) /\ now \in Nat /\ n \in Nat /\ h \in Nat /\ h <= n
      /\ retryAt[r] \in Int
      /\ \A j \in 1..n : log[p][j] \in Nat
  BY <1>1 DEF TimeInv, TypeOK
<1>4. log[p][i] <= now - Window
  <2>1. log[p][i] + Window <= retryAt[r] /\ log[p][i] \in Nat
    BY <1>2, <1>3 DEF RoundsUp
  <2> HIDE DEF p, n
  <2>2. \A t, u \in Int : t + Window <= u /\ now >= u => t <= now - Window
    BY <1>3
  <2>3. QED
    BY <1>3, <2>1, <2>2
<1>5. i <= h
  <2> SUFFICES ASSUME i > h PROVE FALSE
    BY <1>2, <1>3
  <2>1. h + 1 \in 1..n /\ i \in (h + 1)..n /\ h < n
    <3> HIDE DEF n
    <3> QED
      BY <1>2, <1>3
  <2>2. log[p][h + 1] > now - Window /\ log[p][h + 1] <= log[p][i]
    <3>1. LogOrdered
      BY DEF TimeInv
    <3>2. log[p][h + 1] <= log[p][i]
      BY <1>1, <2>1, <3>1 DEF LogOrdered
    <3>3. Fresh(log[p][h + 1])
      BY <2>1 DEF Purged
    <3> QED
      BY <3>2, <3>3 DEF Fresh
  <2>3. log[p][h + 1] \in Nat /\ log[p][i] \in Nat
    BY <1>3, <2>1
  <2> HIDE DEF p, n
  <2>4. QED
    BY <1>3, <1>4, <2>2, <2>3, RateLimitAssumption
<1>6. i + Rpm > n
  <2> SUFFICES ASSUME i + Rpm <= n PROVE FALSE
    BY <1>2, <1>3
  <2>1. Rpm \in Nat /\ Rpm > 0 /\ Window \in Nat
    OBVIOUS
  <2>2. i + Rpm \in 1..n
    BY <1>2, <1>3, <2>1
  <2>3. log[p][i + Rpm] - log[p][i] >= Window
    BY <1>1, <1>2, <2>2 DEF TimeInv, RateBound
  <2>4. log[p][i + Rpm] <= retryAt[r] - Second
    BY <2>2
  <2> HIDE DEF p, n
  <2>5. log[p][i + Rpm] \in Nat /\ log[p][i] \in Nat
    BY <1>2, <1>3, <2>2
  <2>6. \A a, b, t \in Int :
          t < a + Window + Second /\ b - a >= Window /\ b <= t - Second => FALSE
    BY <2>1
  <2>7. retryAt[r] \in Int /\ retryAt[r] < log[p][i] + Window + Second
    BY <1>2, <1>3 DEF RoundsUp
  <2>8. QED
    BY <2>3, <2>4, <2>5, <2>6, <2>7
<1>7. n - h < Rpm
  <2>1. i \in Nat /\ n \in Nat /\ h \in Nat /\ Rpm \in Nat
    BY <1>2, <1>3
  <2> HIDE DEF n
  <2> QED
    BY <2>1, <1>5, <1>6
<1>8. Live(owner[r], h) = n - h
  BY DEF Live
<1>9. QED
  BY <1>7, <1>8

(* rate_limit.py: a rate-limited caller that waits as its Retry-After says *)
(* finds room, unless its principal was admitted less than a second before *)
(* the moment told or later.  The rounding of max(1, ceil(...)) leaves that *)
(* second, and no more, to another call.                                   *)
THEOREM RetryAlwaysHonest == Spec => []RetryAfterHonest
<1>1. Init => TimeInv /\ RetryInv
  BY InitType, RateLimitAssumption
     DEF Init, TimeInv, RetryInv, RetryIsExpiry, Owned, PoppedStale, LogOrdered, RateBound, Nobody
<1>2. TimeInv /\ RetryInv => RetryAfterHonest
  <2> SUFFICES ASSUME TimeInv, RetryInv,
                      NEW r \in Requests, retryAt[r] > 0, now >= retryAt[r],
                      NEW h \in 0..Len(log[owner[r]]),
                      Purged(owner[r], h), Live(owner[r], h) >= Rpm
               PROVE  \E i \in 1..Len(log[owner[r]]) : log[owner[r]][i] > retryAt[r] - Second
    BY DEF RetryAfterHonest
  <2>1. owner[r] \in Principals
    BY DEF RetryInv, RetryIsExpiry
  <2>2. /\ log[owner[r]] \in Seq(Nat) /\ retryAt[r] \in Int /\ Second \in Nat /\ Rpm \in Nat
        /\ Live(owner[r], h) \in Int
    BY <2>1, RateLimitAssumption DEF TimeInv, TypeOK, Live
  <2>3. ~(Live(owner[r], h) < Rpm)
    BY <2>2
  <2>4. ~\A i \in 1..Len(log[owner[r]]) : log[owner[r]][i] <= retryAt[r] - Second
    BY <2>3, ExpiryFreesRoom
  <2>5. PICK i \in 1..Len(log[owner[r]]) : ~(log[owner[r]][i] <= retryAt[r] - Second)
    BY <2>4
  <2>6. log[owner[r]][i] \in Nat
    BY <2>2
  <2>7. \A t, u \in Int : ~(t <= u - Second) => t > u - Second
    BY <2>2
  <2>8. QED
    BY <2>2, <2>5, <2>6, <2>7
<1>3. QED
  BY <1>1, <1>2, TimeStep, RetryStep, PTL DEF Spec

-------------------------------------------------------------------------------
(* The stack (RemoteStack). *)

Codes == {200, 401, 403, 413, 429, 504}

OwnType ==
  /\ at \in [Requests -> Layers]
  /\ method \in [Requests -> Methods]
  /\ deadline \in [Requests -> Nat]
  /\ status \in [Requests -> Seq(Codes)]

(* A call that has not passed the limiter has not been answered.           *)
Unanswered ==
  \A r \in Requests : at[r] \in {"client", "verifying", "refusing"} => status[r] = <<>>

AnswerInv == OwnType /\ Unanswered /\ OneResponse

-------------------------------------------------------------------------------

LEMMA StackInitAnswer == StackInit => AnswerInv
  BY DEF StackInit, AnswerInv, OwnType, Unanswered, OneResponse, Layers, Methods

(* What a step of one call does to its layer, method and deadline.         *)
Moved(r, layer) ==
  /\ at' = [at EXCEPT ![r] = layer]
  /\ method' \in [Requests -> Methods]
  /\ deadline' \in [Requests -> Nat]

Past == {"leaving", "closed", "handler"}     \* the layers beyond the limiter

LEMMA PastLayers == "leaving" \in Past /\ "closed" \in Past /\ "handler" \in Past
  BY DEF Past

LEMMA AllCodes == {200, 401, 403, 413, 429, 504} \subseteq Codes
  BY DEF Codes

(* A first response in place of none.                                      *)
LEMMA FirstResponse ==
  ASSUME AnswerInv, NEW r \in Requests, status[r] = <<>>,
         NEW code \in Codes, Respond(r, code), NEW layer \in Past, Moved(r, layer)
  PROVE  AnswerInv'
<1>1. status' = [status EXCEPT ![r] = <<code>>]
  BY DEF Respond, AnswerInv, OwnType
<1>2. <<code>> \in Seq(Codes) /\ Len(<<code>>) = 1
  OBVIOUS
<1>3. OwnType'
  BY <1>1, <1>2 DEF AnswerInv, OwnType, Layers, Moved, Past
<1>4. Unanswered' /\ OneResponse'
  BY <1>1, <1>2 DEF AnswerInv, OwnType, Unanswered, OneResponse, Moved, Past
<1>5. QED
  BY <1>3, <1>4 DEF AnswerInv

(* A step outwards that answers nothing.                                   *)
LEMMA NoResponse ==
  ASSUME AnswerInv, NEW r \in Requests, UNCHANGED status,
         NEW layer \in Past, Moved(r, layer)
  PROVE  AnswerInv'
  BY DEF AnswerInv, OwnType, Unanswered, OneResponse, Moved, Past, Layers

(* A step inwards of a call that has not been answered.                    *)
LEMMA Inward ==
  ASSUME AnswerInv, NEW r \in Requests, UNCHANGED status, status[r] = <<>>,
         NEW layer \in Layers, Moved(r, layer)
  PROVE  AnswerInv'
  BY DEF AnswerInv, OwnType, Unanswered, OneResponse, Moved

LEMMA AnswerForKeeps ==
  ASSUME AnswerInv, NEW r \in Requests, NEW code \in Codes, AnswerFor(r, code),
         Moved(r, "leaving")
  PROVE  AnswerInv'
<1>1. CASE Started(r)
  BY <1>1, PastLayers, NoResponse DEF AnswerFor
<1>2. CASE ~Started(r)
  BY <1>2, PastLayers, FirstResponse DEF AnswerFor, Started
<1>3. QED
  BY <1>1, <1>2

LEMMA AnswerStep ==
  ASSUME TypeOK, AnswerInv, NEW r \in Requests,
         \/ AnsweredOutside(r) \/ Present(r) \/ VerifyFails(r) \/ Verified(r) \/ Refused(r)
         \/ HandlerStarts(r) \/ HandlerEnds(r) \/ BodyTooLarge(r) \/ TimesOut(r) \/ Leave(r)
  PROVE  AnswerInv'
<1>0. OwnType /\ (at[r] \in {"client", "verifying", "refusing"} => status[r] = <<>>)
  BY DEF AnswerInv, Unanswered
<1>1. CASE AnsweredOutside(r)
  <2>1. status[r] = <<>> /\ Moved(r, "closed")
    BY <1>0, <1>1 DEF AnsweredOutside, OwnType, Moved, To
  <2>2. Respond(r, 200) \/ Respond(r, 401)
    BY <1>1 DEF AnsweredOutside
  <2>3. QED
    BY <2>1, <2>2, PastLayers, AllCodes, FirstResponse
<1>2. CASE Present(r)
  <2>1. status[r] = <<>> /\ Moved(r, "verifying") /\ UNCHANGED status
    BY <1>0, <1>2 DEF Present, OwnType, Moved, To
  <2>2. "verifying" \in Layers
    BY DEF Layers
  <2>3. QED
    BY <2>1, <2>2, Inward
<1>3. CASE VerifyFails(r)
  <2>1. status[r] = <<>> /\ Moved(r, "closed")
    BY <1>0, <1>3 DEF VerifyFails, OwnType, Moved, To
  <2>2. Respond(r, 401) \/ Respond(r, 403)
    BY <1>3 DEF VerifyFails
  <2>3. QED
    BY <2>1, <2>2, PastLayers, AllCodes, FirstResponse
<1>4. CASE Verified(r)
  <2>1. status[r] = <<>> /\ method' \in [Requests -> Methods]
    BY <1>0, <1>4 DEF Verified, OwnType
  <2>2. CASE /\ To(r, "handler") /\ deadline' = [deadline EXCEPT ![r] = now + Timeout]
             /\ UNCHANGED status
    <3>1. now + Timeout \in Nat
      BY RemoteStackAssumption DEF TypeOK
    <3>2. Moved(r, "handler")
      BY <1>0, <2>1, <2>2, <3>1 DEF OwnType, Moved, To
    <3>3. QED
      BY <2>2, <3>2, PastLayers, NoResponse
  <2>3. CASE Respond(r, 413) /\ To(r, "leaving") /\ UNCHANGED deadline
    <3>1. Moved(r, "leaving")
      BY <1>0, <2>1, <2>3 DEF OwnType, Moved, To
    <3>2. QED
      BY <2>1, <2>3, <3>1, PastLayers, AllCodes, FirstResponse
  <2>4. CASE To(r, "refusing") /\ UNCHANGED <<deadline, status>>
    <3>1. Moved(r, "refusing") /\ "refusing" \in Layers
      BY <1>0, <2>1, <2>4 DEF OwnType, Moved, To, Layers
    <3>2. QED
      BY <2>1, <2>4, <3>1, Inward
  <2>5. QED
    BY <1>4, <2>2, <2>3, <2>4 DEF Verified
<1>5. CASE Refused(r)
  <2>1. status[r] = <<>> /\ Moved(r, "closed") /\ Respond(r, 429)
    BY <1>0, <1>5 DEF Refused, OwnType, Moved, To
  <2>2. QED
    BY <2>1, PastLayers, AllCodes, FirstResponse
<1>6. CASE HandlerStarts(r)
  <2>1. status[r] = <<>> /\ Moved(r, "handler") /\ Respond(r, 200)
    BY <1>0, <1>6 DEF HandlerStarts, Started, OwnType, Moved
  <2>2. QED
    BY <2>1, PastLayers, AllCodes, FirstResponse
<1>7. CASE HandlerEnds(r)
  <2>1. Moved(r, "leaving") /\ UNCHANGED status
    BY <1>0, <1>7 DEF HandlerEnds, OwnType, Moved, To
  <2>2. QED
    BY <2>1, PastLayers, NoResponse
<1>8. CASE BodyTooLarge(r) \/ TimesOut(r)
  <2>1. Moved(r, "leaving") /\ (AnswerFor(r, 413) \/ AnswerFor(r, 504))
    BY <1>0, <1>8 DEF BodyTooLarge, TimesOut, OwnType, Moved, To
  <2>2. QED
    BY <2>1, AllCodes, AnswerForKeeps
<1>9. CASE Leave(r)
  <2>1. Moved(r, "closed") /\ UNCHANGED status
    BY <1>0, <1>9 DEF Leave, OwnType, Moved, To
  <2>2. QED
    BY <2>1, PastLayers, NoResponse
<1>10. QED
  BY <1>1, <1>2, <1>3, <1>4, <1>5, <1>6, <1>7, <1>8, <1>9

(* Each step of the stack is one of the limiter's, or none.                *)
LEMMA StackStep == [StackNext]_stackVars => [Next]_vars
<1> SUFFICES ASSUME StackNext PROVE [Next]_vars
  BY DEF stackVars
<1>1. CASE Tick /\ UNCHANGED ownVars
  BY <1>1 DEF Next
<1>2. ASSUME NEW r \in Requests,
             AnsweredOutside(r) \/ Present(r) \/ VerifyFails(r) \/ HandlerStarts(r)
             \/ HandlerEnds(r) \/ BodyTooLarge(r) \/ TimesOut(r)
      PROVE  UNCHANGED vars
  BY <1>2 DEF AnsweredOutside, Present, VerifyFails, HandlerStarts, HandlerEnds, BodyTooLarge, TimesOut
<1>3. ASSUME NEW r \in Requests, Verified(r) PROVE Next
  BY <1>3 DEF Verified, Next
<1>4. ASSUME NEW r \in Requests, Refused(r) PROVE Next
  BY <1>4 DEF Refused, Next
<1>5. ASSUME NEW r \in Requests, Leave(r) PROVE Next
  BY <1>5 DEF Leave, Next
<1>6. QED
  BY <1>1, <1>2, <1>3, <1>4, <1>5 DEF StackNext

(* The stack is built from the limiter's steps, so what is proved of them  *)
(* carries over.                                                           *)
LEMMA StackIsLimiter == StackSpec => Spec
<1>1. StackInit => Init
  BY DEF StackInit
<1>2. QED
  BY <1>1, StackStep, PTL DEF StackSpec, Spec

(* rate_limit.py under streamable_http.py: the rate, the in-flight count   *)
(* and the honesty of Retry-After hold of the whole stack, whichever layer *)
(* refuses a call, times it out or answers for it.                         *)
THEOREM StackBounded == StackSpec => [](RateBound /\ InflightExact /\ RetryAfterHonest)
  BY StackIsLimiter, RateAlwaysBounded, SlotsExact, RetryAlwaysHonest, PTL

(* request_limits.py: no call starts two responses.                        *)
THEOREM AnsweredOnce == StackSpec => []OneResponse
<1>1. TypeOK /\ AnswerInv /\ [StackNext]_stackVars => AnswerInv'
  <2> SUFFICES ASSUME TypeOK, AnswerInv, [StackNext]_stackVars PROVE AnswerInv'
    OBVIOUS
  <2>1. CASE UNCHANGED ownVars
    BY <2>1 DEF ownVars, AnswerInv, OwnType, Unanswered, OneResponse
  <2>2. CASE ~UNCHANGED ownVars
    BY <2>2, AnswerStep DEF StackNext, stackVars
  <2>3. QED
    BY <2>1, <2>2
<1>2. AnswerInv => OneResponse
  BY DEF AnswerInv
<1>3. StackSpec => []TypeOK
  BY StackIsLimiter, TypeCorrect, PTL
<1>4. QED
  BY <1>1, <1>2, <1>3, StackInitAnswer, PTL DEF StackSpec
================================================================================
