-------------------------------- MODULE Fetch --------------------------------
(***************************************************************************)
(* The downloads of one sync run (cli/sync.py, sources/arknights_assets.py,*)
(* sources/http_fetch.py).  For every server the stage table is fetched by *)
(* the main thread, then the rest of the core tables, the supplementary    *)
(* tables and the level files by a pool of workers each; afterwards the    *)
(* ride-along sources are fetched one by one.  All of them charge one      *)
(* DownloadBudget.                                                         *)
(*                                                                         *)
(* A file is a model value, its content a number of bytes.  An attempt has *)
(* two steps, for a reply that has started to arrive may never end: its    *)
(* status and headers, and then its body.  Either may fail instead.        *)
(***************************************************************************)
EXTENDS Integers, FiniteSets

CONSTANTS Workers,       \* threads of the pool: max_parallel_downloads
          Main,          \* the thread that runs _cmd_sync
          Servers,       \* how many servers are staged
          Rides,         \* how many ride-along feeds follow
          Core, Supplementary, Levels,     \* paths, without the stage table
          StageTable,
          FileCap,       \* max_file_bytes
          MaxTotal,      \* max_total_bytes
          MaxRedirects, MaxRetries,
          Injected       \* ctx.fetcher is set: one fetcher for the run

ASSUME FetchAssumption ==
  /\ IsFiniteSet(Workers) /\ Workers # {} /\ Main \notin Workers
  /\ Servers \in Nat \ {0}
  /\ {Rides, FileCap, MaxTotal, MaxRedirects, MaxRetries} \subseteq Nat
  /\ "none" \notin Core \cup Supplementary \cup Levels \cup {StageTable}
  /\ Injected \in BOOLEAN

VARIABLES phase,     \* position in Kinds, server by server
          run,       \* "staging", "failing", "failed" or "promoted"
          todo,      \* paths submitted and not started
          outcome,   \* per path of this phase: what its future holds
          taken,     \* paths of this phase whose future was delivered
          missing,   \* absent files counted in this phase
          found,     \* level paths discovered in this server's stage table
          job,       \* per thread: the path it works on, or "none"
          pc,        \* per thread: its place in fetch_json
          redirects, retries,    \* per thread: of this fetch
          conn,      \* per thread: its connection in the fetcher's cache
          used,      \* DownloadBudget._used
          kept       \* bytes the budget accepted (history)

threadVars == <<job, pc, redirects, retries, conn>>
poolVars   == <<todo, taken, missing>>
mainVars   == <<phase, run, found, poolVars>>
budgetVars == <<used, kept>>
vars == <<mainVars, outcome, threadVars, budgetVars>>

Threads == Workers \cup {Main}
Ride    == "ride"
Files   == Core \cup Supplementary \cup Levels \cup {StageTable, Ride}

(* The stages of the run, in order. *)
Kinds == <<"table", "core", "supplementary", "levels">>
Steps == 4 * Servers + Rides
Kind(i) == IF i > 4 * Servers THEN "ride" ELSE Kinds[((i - 1) % 4) + 1]

Paths(kind) == CASE kind = "table"         -> {StageTable}
                 [] kind = "core"          -> Core
                 [] kind = "supplementary" -> Supplementary
                 [] kind = "levels"        -> found
                 [] OTHER                  -> {Ride}

(* The paths fetched with strict = False. *)
Optional(kind) == kind \in {"supplementary", "levels"}

(* _download_all's workers: one path, or one worker, runs in the main thread. *)
Crew(kind) ==
  IF kind \in {"table", "ride"} \/ Cardinality(Paths(kind)) <= 1
     \/ Cardinality(Workers) = 1
  THEN {Main} ELSE Workers

Tripped == used > MaxTotal

(* Where a thread is in fetch_json.  In an attempt it waits for a reply or *)
(* reads the body of one.                                                  *)
Attempting == {"request", "reply"}
Places     == Attempting \cup {"idle", "check", "charge", "parse"}

TypeOK ==
  /\ phase \in 1..(Steps + 1)
  /\ run \in {"staging", "failing", "failed", "promoted"}
  /\ todo \subseteq Files /\ taken \subseteq Files /\ found \subseteq Levels
  /\ outcome \in [Files -> {"none", "ok", "absent", "error"}]
  /\ missing \in Nat
  /\ job \in [Threads -> Files \cup {"none"}]
  /\ pc \in [Threads -> Places]
  /\ redirects \in [Threads -> 0..MaxRedirects]
  /\ retries \in [Threads -> 0..MaxRetries]
  /\ conn \in [Threads -> {"none", "clean", "first", "again"}]
  /\ used \in Nat /\ kept \in Nat

Init ==
  /\ phase = 1 /\ run = "staging" /\ found = {}
  /\ todo = {StageTable} /\ taken = {} /\ missing = 0
  /\ outcome = [f \in Files |-> "none"]
  /\ job = [t \in Threads |-> "none"]
  /\ pc = [t \in Threads |-> "idle"]
  /\ redirects = [t \in Threads |-> 0]
  /\ retries = [t \in Threads |-> 0]
  /\ conn = [t \in Threads |-> "none"]
  /\ used = 0 /\ kept = 0

(***************************************************************************)
(* A thread and one file                                                   *)
(***************************************************************************)
(* A worker takes a submitted path; the serial loop stops at an error. *)
Take(t) ==
  /\ run \in {"staging", "failing"} /\ phase <= Steps
  /\ t \in Crew(Kind(phase)) /\ job[t] = "none"
  /\ t = Main => run = "staging" /\ \A f \in Files : outcome[f] # "error"
  /\ \E f \in todo : /\ job' = [job EXCEPT ![t] = f]
                     /\ todo' = todo \ {f}
  /\ pc' = [pc EXCEPT ![t] = "check"]
  /\ UNCHANGED <<phase, run, found, outcome, taken, missing, redirects, retries, conn,
                 budgetVars>>

To(t, place) == /\ pc' = [pc EXCEPT ![t] = place]
                /\ UNCHANGED <<job, outcome>>

(* Slip: an error ends the thread's work before its future is set. *)
SettleLost(t, o) ==
  /\ outcome' = IF o = "error" THEN outcome ELSE [outcome EXCEPT ![job[t]] = o]
  /\ job' = [job EXCEPT ![t] = "none"]
  /\ pc' = [pc EXCEPT ![t] = "idle"]

(* The future of t's path holds its outcome and t is free again. *)
Settle(t, o) == /\ outcome' = [outcome EXCEPT ![job[t]] = o]
                /\ job' = [job EXCEPT ![t] = "none"]
                /\ pc' = [pc EXCEPT ![t] = "idle"]

(* The counters belong to one fetch. *)
EndFetch(t) == /\ redirects' = [redirects EXCEPT ![t] = 0]
               /\ retries' = [retries EXCEPT ![t] = 0]

(* Slip: the check is gone, and every queued fetch still starts. *)
CheckNothing(t) ==
  /\ pc[t] = "check"
  /\ To(t, "request")
  /\ UNCHANGED <<mainVars, redirects, retries, conn, budgetVars>>

(* DownloadBudget.check, before the first request. *)
Check(t) ==
  /\ pc[t] = "check"
  /\ IF Tripped THEN Settle(t, "error") ELSE To(t, "request")
  /\ UNCHANGED <<mainVars, redirects, retries, conn, budgetVars>>

(***************************************************************************)
(* An attempt, on the thread's cached connection or on one just opened.    *)
(* conn says what the cache holds for the host: nothing, a connection with *)
(* nothing left to read, or one with an unread reply, which is the "first" *)
(* on it or comes "again" on a connection used before.                     *)
(***************************************************************************)
Attempt(t) == /\ pc[t] \in Attempting
              /\ UNCHANGED <<mainVars, budgetVars>>

Fresh(t)  == conn[t] \in {"none", "first"}
Unread(t) == conn[t] \in {"first", "again"}

(* The body was read to its end: the connection stays in the cache.        *)
Drained(t) == /\ pc[t] = "reply"
              /\ conn' = [conn EXCEPT ![t] = "clean"]

(* The connection is closed, with whatever is left of the reply.           *)
Drop(t) == conn' = [conn EXCEPT ![t] = "none"]

(* conn.request and getresponse: the reply has begun. *)
Respond(t) ==
  /\ Attempt(t)
  /\ pc[t] = "request"
  /\ conn' = [conn EXCEPT ![t] = IF Fresh(t) THEN "first" ELSE "again"]
  /\ To(t, "reply")
  /\ UNCHANGED <<redirects, retries>>

(* Slip: every hop starts the retries afresh. *)
RedirectedAfresh(t) ==
  /\ Attempt(t)
  /\ Drained(t)
  /\ redirects[t] < MaxRedirects
  /\ redirects' = [redirects EXCEPT ![t] = @ + 1]
  /\ retries' = [retries EXCEPT ![t] = 0]
  /\ To(t, "request")

(* A redirect inside the host, over HTTPS and within the depth cap. *)
Redirected(t) ==
  /\ Attempt(t)
  /\ Drained(t)
  /\ redirects[t] < MaxRedirects
  /\ redirects' = [redirects EXCEPT ![t] = @ + 1]
  /\ To(t, "request")
  /\ UNCHANGED retries

(* Slip: the body of an absent file is left on the cached connection. *)
NotFoundUnread(t) ==
  /\ Attempt(t)
  /\ pc[t] = "reply" /\ UNCHANGED conn
  /\ Settle(t, IF Optional(Kind(phase)) THEN "absent" ELSE "error")
  /\ EndFetch(t)

(* 404 or 410, its body drained: only an optional path may be absent. *)
NotFound(t) ==
  /\ Attempt(t)
  /\ Drained(t)
  /\ Settle(t, IF Optional(Kind(phase)) THEN "absent" ELSE "error")
  /\ EndFetch(t)

(* Any other refusal: a bad redirect or status, a body over the cap        *)
(* (compressed or not), an encoding not asked for, a hard transport fault. *)
Refused(t) ==
  /\ Attempt(t)
  /\ Drop(t)
  /\ Settle(t, "error") /\ EndFetch(t)

(* A timeout, a reset or a framing error: free on a reused connection,     *)
(* otherwise one of the retries, after a back-off, or the end.             *)
Transient(t) ==
  /\ Attempt(t)
  /\ Drop(t)
  /\ \/ ~Fresh(t) /\ To(t, "request") /\ UNCHANGED <<redirects, retries>>
     \/ /\ Fresh(t) /\ retries[t] < MaxRetries
        /\ retries' = [retries EXCEPT ![t] = @ + 1]
        /\ To(t, "request") /\ UNCHANGED redirects
     \/ /\ Fresh(t) /\ retries[t] = MaxRetries
        /\ Settle(t, "error") /\ EndFetch(t)

Body(t) ==
  /\ Attempt(t)
  /\ Drained(t)
  /\ To(t, "charge")
  /\ EndFetch(t)

(* Slip: the sum is stored, and only the next check looks at it. *)
ChargeQuietly(t) ==
  /\ pc[t] = "charge"
  /\ \E n \in 0..FileCap : used' = used + n /\ kept' = kept + n
  /\ To(t, "parse")
  /\ UNCHANGED <<mainVars, redirects, retries, conn>>

(* DownloadBudget.charge, under its lock, with the length of the body. *)
Charge(t) ==
  /\ pc[t] = "charge"
  /\ \E n \in 0..FileCap :
       /\ used' = used + n
       /\ IF used' > MaxTotal THEN Settle(t, "error") /\ UNCHANGED kept
          ELSE To(t, "parse") /\ kept' = kept + n
  /\ UNCHANGED <<mainVars, redirects, retries, conn>>

(* The body is JSON within the depth and node caps and is written under    *)
(* its own path, or the fetch fails.  The stage table names the level      *)
(* files; ids that leave the levels tree, or repeat, are dropped.          *)
Parse(t) ==
  /\ pc[t] = "parse"
  /\ \/ Settle(t, "error") /\ UNCHANGED found
     \/ /\ Settle(t, "ok")
        /\ IF Kind(phase) = "table" THEN found' \in SUBSET Levels ELSE UNCHANGED found
  /\ UNCHANGED <<phase, run, poolVars, redirects, retries, conn, budgetVars>>

(***************************************************************************)
(* The main thread                                                         *)
(***************************************************************************)
(* as_completed delivers one future: an absent file is counted, an error   *)
(* is raised.  A ride-along's error is swallowed by _ride_along.           *)
Collect(f) ==
  /\ run = "staging" /\ phase <= Steps
  /\ outcome[f] # "none" /\ f \notin taken
  /\ taken' = taken \cup {f}
  /\ missing' = IF outcome[f] = "absent" THEN missing + 1 ELSE missing
  /\ run' = IF outcome[f] = "error" /\ Kind(phase) # "ride" THEN "failing" ELSE run
  /\ UNCHANGED <<phase, found, todo, outcome, threadVars, budgetVars>>

(* Each future that has not started is cancelled, one after the other. *)
Cancel(f) ==
  /\ run = "failing" /\ f \in todo
  /\ todo' = todo \ {f}
  /\ UNCHANGED <<phase, run, found, outcome, taken, missing, threadVars, budgetVars>>

(* sync's finally closes ctx.fetcher, when there is one. *)
CloseFetcher ==
  IF Injected THEN conn' = [t \in Threads |-> "none"] ELSE UNCHANGED conn

(* The pool waits for its running threads, and the error leaves _cmd_sync. *)
Abort ==
  /\ run = "failing" /\ todo = {} /\ \A t \in Threads : job[t] = "none"
  /\ run' = "failed"
  /\ CloseFetcher
  /\ UNCHANGED <<phase, found, poolVars, outcome, job, pc, redirects, retries, budgetVars>>

(* Slip: the phase is over when its last path has been started. *)
AllStarted == todo = {}

AllDelivered == Paths(Kind(phase)) \subseteq taken

(* All futures delivered: the pool's threads exit, their connections left  *)
(* to the fetcher's registry, and the next paths get futures.  A new       *)
(* server, or a ride-along, has an adapter of its own, which makes its own *)
(* fetcher unless one is injected.                                         *)
NextPhase ==
  LET newAdapter == (phase + 1) % 4 = 1 \/ phase >= 4 * Servers
      survivors  == IF newAdapter /\ ~Injected THEN {} ELSE {Main}
  IN /\ run = "staging" /\ phase <= Steps
     /\ AllDelivered
     /\ phase' = phase + 1
     /\ todo' = IF phase = Steps THEN {} ELSE Paths(Kind(phase + 1))
     /\ taken' = {}
     /\ outcome' = [f \in Files |-> "none"]
     /\ conn' = [t \in Threads |-> IF t \in survivors THEN conn[t] ELSE "none"]
     /\ missing' = 0
     /\ UNCHANGED <<run, found, job, pc, redirects, retries, budgetVars>>

(* Everything staged and the ride-alongs done: validation and promotion    *)
(* are BuildStore's.                                                       *)
Promote ==
  /\ run = "staging" /\ phase = Steps + 1
  /\ run' = "promoted"
  /\ CloseFetcher
  /\ UNCHANGED <<phase, found, poolVars, outcome, job, pc, redirects, retries, budgetVars>>

Step(t) == \/ Take(t) \/ Check(t) \/ Charge(t) \/ Parse(t)
           \/ Respond(t) \/ Redirected(t) \/ NotFound(t) \/ Refused(t) \/ Transient(t) \/ Body(t)

MainStep == \/ \E f \in Files : Collect(f) \/ Cancel(f)
            \/ Abort \/ NextPhase \/ Promote

Next == MainStep \/ \E t \in Threads : Step(t)

Spec == Init /\ [][Next]_vars

(* A thread that can run does, unless it is in an attempt.  Of an attempt  *)
(* nothing is assumed: the socket's timeout is for one read from it, and   *)
(* neither what getresponse skips nor response.read() has a deadline.      *)
FairSpec ==
  /\ Spec
  /\ WF_vars(MainStep)
  /\ \A t \in Threads : WF_vars(pc[t] \notin Attempting /\ Step(t))

(***************************************************************************)
(* Properties                                                              *)
(***************************************************************************)
(* The bytes that reach the build never exceed the total cap, whatever the *)
(* workers and the ride-alongs downloaded past it (DownloadBudget).        *)
KeptWithinCap == kept <= MaxTotal

(* The overshoot is bounded to the fetches in flight when the cap tripped: *)
(* at most one body per thread of the pool (DownloadBudget.check).         *)
OvershootBounded == used <= MaxTotal + Cardinality(Workers) * FileCap

(* The requests a fetch may still send, were they all to fail. *)
Budget(t) == 2 * (MaxRedirects - redirects[t]) + (MaxRetries - retries[t])
               + (IF Fresh(t) THEN 0 ELSE 1)

(* Every request that does not end its fetch uses up a redirect, a retry   *)
(* or a stale connection, so that one fetch sends at most 2 * MaxRedirects *)
(* + MaxRetries + 2 (the loop of HttpsFetcher.fetch).                      *)
AttemptsRunOut ==
  [][\A t \in Threads :
       pc[t] \in Attempting /\ pc'[t] \in Attempting
         /\ <<pc[t], redirects[t], retries[t], conn[t]>>
              # <<pc[t], redirects[t], retries[t], conn[t]>>'
       => IF pc'[t] = "request" THEN Budget(t)' < Budget(t) ELSE Budget(t)' <= Budget(t)]_vars

(* An unread reply is on a cached connection only while its own fetch is   *)
(* reading it.  However a fetch ends or goes on, by a redirect, an absent  *)
(* file, a refusal in the middle of a body or a retry, the next request    *)
(* does not find bytes there that it would take for its own answer.        *)
CleanReuse == \A t \in Threads : Unread(t) => pc[t] = "reply"

(* A phase of the staging is left with every path written or, if optional, *)
(* absent and counted; a strict path was written (_download_all).          *)
StagedWhole ==
  [][phase' # phase /\ Kind(phase) # "ride" =>
       /\ \A f \in Paths(Kind(phase)) :
            outcome[f] = "ok" \/ (outcome[f] = "absent" /\ Optional(Kind(phase)))
       /\ missing = Cardinality({f \in Paths(Kind(phase)) : outcome[f] = "absent"})]_vars

(* The run ends, promoted or failed, or it waits for ever for one reply    *)
(* that never ends: nothing else can hold it, be it a future that nobody   *)
(* sets, an error nobody takes or a thread the pool waits for in vain.     *)
RunEnds ==
  \/ <>(run \in {"failed", "promoted"})
  \/ \E t \in Threads : \E place \in Attempting : <>[](pc[t] = place)
=============================================================================
