------------------------------ MODULE Fetch_proofs ------------------------------
(***************************************************************************)
(* Theorems about Fetch for every pool, every list of paths, every cap and *)
(* every number of servers and ride-alongs.                                *)
(***************************************************************************)
EXTENDS Fetch, FiniteSetTheorems, TLAPS

(* What the budget accepted was counted, and stopped at the cap. *)
KeptInv == kept <= used /\ KeptWithinCap

Busy == {t \in Threads : job[t] # "none"}

(* A path of this phase is waiting, in the hands of one thread of the crew, *)
(* or settled; and it is only one of the three.                             *)
PoolInv ==
  /\ todo # {} => phase <= Steps
  /\ \A f \in todo : f \in Paths(Kind(phase)) /\ outcome[f] = "none"
  /\ \A t \in Threads : pc[t] = "idle" <=> job[t] = "none"
  /\ \A t \in Busy :
       /\ t \in Crew(Kind(phase)) /\ phase <= Steps
       /\ job[t] \in Paths(Kind(phase)) \ todo
       /\ outcome[job[t]] = "none"
       /\ \A u \in Busy : job[t] = job[u] => t = u

(* What as_completed has delivered of this phase, and counted. *)
DeliveryInv ==
  /\ \A f \in Files :
       /\ outcome[f] # "none" => f \in Paths(Kind(phase))
       /\ outcome[f] = "absent" => Optional(Kind(phase))
       /\ f \in taken => outcome[f] # "none"
       /\ f \in taken /\ outcome[f] = "error" => run # "staging" \/ Kind(phase) = "ride"
  /\ IsFiniteSet(taken)
  /\ missing = Cardinality({f \in taken : outcome[f] = "absent"})

(* The fetches past their check whose body is not charged yet. *)
InFlight == {t \in Threads : pc[t] \in Attempting \cup {"charge"}}

(* Each of them may still bring one body. *)
OvershootInv ==
  used + Cardinality(InFlight) * FileCap <= MaxTotal + Cardinality(Workers) * FileCap

StageInv == TypeOK /\ PoolInv /\ DeliveryInv

-------------------------------------------------------------------------------

LEMMA StepsPositive == Steps \in Nat \ {0}
  BY FetchAssumption DEF Steps

LEMMA PathsAreFiles == TypeOK => \A k : Paths(k) \subseteq Files
  BY DEF TypeOK, Paths, Files

LEMMA InitType == Init => TypeOK
  BY FetchAssumption, StepsPositive DEF Init, TypeOK, Files, Places

LEMMA SettleType ==
  ASSUME TypeOK, NEW t \in Threads, NEW o \in {"ok", "absent", "error"}, Settle(t, o)
  PROVE  /\ outcome' \in [Files -> {"none", "ok", "absent", "error"}]
         /\ job' \in [Threads -> Files \cup {"none"}]
         /\ pc' \in [Threads -> Places]
  BY DEF TypeOK, Settle, Places

LEMMA EndFetchType ==
  ASSUME TypeOK, NEW t \in Threads, EndFetch(t)
  PROVE  /\ redirects' \in [Threads -> 0..MaxRedirects]
         /\ retries' \in [Threads -> 0..MaxRetries]
  BY FetchAssumption DEF TypeOK, EndFetch

(* A thread's step leaves the main thread's variables alone, but for the   *)
(* path it takes and the levels the stage table names.                     *)
LEMMA ThreadType ==
  ASSUME TypeOK, NEW t \in Threads, Step(t)
  PROVE  TypeOK'
<1> USE FetchAssumption DEF TypeOK, Places, Attempting
<1>1. CASE Take(t)
  BY <1>1 DEF Take, budgetVars
<1>2. CASE Check(t)
  BY <1>2 DEF Check, Settle, To, mainVars, poolVars, budgetVars
<1>3. CASE Charge(t)
  <2>1. PICK n \in 0..FileCap : /\ used' = used + n
                                /\ kept' = kept \/ kept' = kept + n
    BY <1>3 DEF Charge
  <2>2. used' \in Nat /\ kept' \in Nat
    BY <2>1
  <2>3. QED
    BY <1>3, <2>2 DEF Charge, Settle, To, mainVars, poolVars
<1>4. CASE Parse(t)
  BY <1>4 DEF Parse, Settle, poolVars, budgetVars
<1>5. CASE Redirected(t)
  BY <1>5 DEF Redirected, Attempt, Drained, To, mainVars, poolVars, budgetVars
<1>6. CASE NotFound(t)
  BY <1>6, SettleType, EndFetchType DEF NotFound, Attempt, Drained, mainVars, poolVars, budgetVars
<1>7. CASE Refused(t)
  BY <1>7, SettleType, EndFetchType DEF Refused, Attempt, Drop, mainVars, poolVars, budgetVars
<1>8. CASE Transient(t)
  <2>1. CASE To(t, "request")
    BY <1>8, <2>1, EndFetchType DEF Transient, Attempt, Drop, To, mainVars, poolVars, budgetVars
  <2>2. CASE Settle(t, "error") /\ EndFetch(t)
    BY <1>8, <2>2, SettleType, EndFetchType
       DEF Transient, Attempt, Drop, mainVars, poolVars, budgetVars
  <2>3. QED
    BY <1>8, <2>1, <2>2 DEF Transient
<1>9. CASE Body(t)
  BY <1>9 DEF Body, Attempt, Drained, To, EndFetch, mainVars, poolVars, budgetVars
<1>10. CASE Respond(t)
  BY <1>10 DEF Respond, Attempt, To, mainVars, poolVars, budgetVars
<1>11. QED
  BY <1>1, <1>2, <1>3, <1>4, <1>5, <1>6, <1>7, <1>8, <1>9, <1>10 DEF Step

LEMMA MainType ==
  ASSUME TypeOK, MainStep
  PROVE  TypeOK'
<1> USE FetchAssumption DEF TypeOK
<1>1. ASSUME NEW f \in Files, Collect(f) PROVE TypeOK'
  BY <1>1 DEF Collect, threadVars, budgetVars
<1>2. ASSUME NEW f \in Files, Cancel(f) PROVE TypeOK'
  BY <1>2 DEF Cancel, threadVars, budgetVars
<1>3. CASE Abort
  BY <1>3 DEF Abort, CloseFetcher, poolVars, budgetVars
<1>4. CASE Promote
  BY <1>4 DEF Promote, CloseFetcher, poolVars, budgetVars
<1>5. CASE NextPhase
  <2>1. todo' \subseteq Files
    BY <1>5, PathsAreFiles DEF NextPhase
  <2>2. phase' \in 1..(Steps + 1)
    BY <1>5, StepsPositive DEF NextPhase
  <2>3. QED
    BY <1>5, <2>1, <2>2 DEF NextPhase, budgetVars
<1>6. QED
  BY <1>1, <1>2, <1>3, <1>4, <1>5 DEF MainStep

LEMMA TypeStep == TypeOK /\ [Next]_vars => TypeOK'
<1> SUFFICES ASSUME TypeOK, [Next]_vars PROVE TypeOK'
  OBVIOUS
<1>1. CASE UNCHANGED vars
  BY <1>1 DEF vars, mainVars, poolVars, threadVars, budgetVars, TypeOK
<1>2. QED
  BY <1>1, ThreadType, MainType DEF Next

(* Every variable keeps its type, whatever the constants. *)
THEOREM TypeCorrect == Spec => []TypeOK
  BY InitType, TypeStep, PTL DEF Spec

-------------------------------------------------------------------------------

(* Only Charge touches the budget. *)
LEMMA BudgetStep ==
  ASSUME TypeOK, [Next]_vars
  PROVE  UNCHANGED budgetVars \/ \E t \in Threads : Charge(t)
<1>1. ASSUME NEW t \in Threads, Step(t), ~Charge(t) PROVE UNCHANGED budgetVars
  BY <1>1 DEF Step, Take, Check, Parse, Respond, Redirected, NotFound, Refused, Transient, Body, Attempt
<1>2. CASE MainStep
  BY <1>2 DEF MainStep, Collect, Cancel, Abort, NextPhase, Promote
<1>3. CASE UNCHANGED vars
  BY <1>3 DEF vars
<1>4. QED
  BY <1>1, <1>2, <1>3 DEF Next

LEMMA KeptStep == TypeOK /\ KeptInv /\ [Next]_vars => KeptInv'
<1> SUFFICES ASSUME TypeOK, KeptInv, [Next]_vars PROVE KeptInv'
  OBVIOUS
<1> USE FetchAssumption DEF TypeOK, KeptInv, KeptWithinCap
<1>1. CASE UNCHANGED budgetVars
  BY <1>1 DEF budgetVars
<1>2. ASSUME NEW t \in Threads, Charge(t) PROVE KeptInv'
  <2>1. PICK n \in 0..FileCap :
          /\ used' = used + n
          /\ IF used' > MaxTotal THEN UNCHANGED kept ELSE kept' = kept + n
    BY <1>2 DEF Charge
  <2>2. QED
    BY <2>1
<1>3. QED
  BY <1>1, <1>2, BudgetStep

(* The bytes that reach the build never exceed the total cap. *)
THEOREM KeptAlwaysFits == Spec => []KeptWithinCap
<1>1. Init => KeptInv
  BY FetchAssumption DEF Init, KeptInv, KeptWithinCap
<1>2. KeptInv => KeptWithinCap
  BY DEF KeptInv
<1>3. QED
  BY <1>1, <1>2, InitType, TypeStep, KeptStep, PTL DEF Spec

-------------------------------------------------------------------------------

LEMMA SamePhase ==
  ASSUME UNCHANGED phase, UNCHANGED found \/ Kind(phase) = "table"
  PROVE  /\ Kind(phase)' = Kind(phase)
         /\ Paths(Kind(phase))' = Paths(Kind(phase))
         /\ Crew(Kind(phase))' = Crew(Kind(phase))
<1>1. Kind(phase)' = Kind(phase)
  BY DEF Kind
<1>2. Paths(Kind(phase))' = Paths(Kind(phase))
  BY <1>1 DEF Paths
<1>3. QED
  BY <1>1, <1>2 DEF Crew

(* What t does to its path: it takes one, settles it, or goes on with it.  *)
Moves(t) ==
  /\ UNCHANGED <<phase, run, found, poolVars, outcome, job>>
  /\ pc[t] # "idle" /\ pc'[t] # "idle"
  /\ \A u \in Threads \ {t} : pc'[u] = pc[u]

Settles(t) ==
  /\ \E o \in {"ok", "absent", "error"} :
       Settle(t, o) /\ (o = "absent" => Optional(Kind(phase)))
  /\ pc[t] # "idle"
  /\ UNCHANGED <<phase, run, poolVars>>
  /\ UNCHANGED found \/ Kind(phase) = "table"

LEMMA ThreadStep ==
  ASSUME TypeOK, NEW t \in Threads, Step(t)
  PROVE  Take(t) \/ Settles(t) \/ Moves(t)
<1> USE DEF TypeOK
<1>1. CASE Check(t)
  BY <1>1 DEF Check, To, Settles, Moves, mainVars, poolVars
<1>2. CASE Charge(t)
  BY <1>2 DEF Charge, To, Settles, Moves, mainVars, poolVars
<1>3. CASE Parse(t)
  BY <1>3 DEF Parse, Settles
<1>4. CASE Respond(t) \/ Redirected(t)
  BY <1>4 DEF Respond, Redirected, Attempt, Attempting, To, Moves, mainVars, poolVars
<1>5. CASE NotFound(t)
  BY <1>5 DEF NotFound, Attempt, Attempting, Settles, mainVars, poolVars
<1>6. CASE Refused(t)
  BY <1>6 DEF Refused, Attempt, Attempting, Settles, mainVars, poolVars
<1>7. CASE Transient(t)
  BY <1>7 DEF Transient, Attempt, Attempting, To, Settles, Moves, mainVars, poolVars
<1>8. CASE Body(t)
  BY <1>8 DEF Body, Attempt, Attempting, To, Moves, mainVars, poolVars
<1>9. QED
  BY <1>1, <1>2, <1>3, <1>4, <1>5, <1>6, <1>7, <1>8 DEF Step

LEMMA TakePool ==
  ASSUME TypeOK, PoolInv, NEW t \in Threads, Take(t)
  PROVE  PoolInv'
<1>1. /\ t \in Crew(Kind(phase)) /\ job[t] = "none" /\ phase <= Steps
      /\ UNCHANGED <<phase, found, outcome>>
      /\ pc' = [pc EXCEPT ![t] = "check"]
  BY DEF Take
<1>2. PICK f \in todo : job' = [job EXCEPT ![t] = f] /\ todo' = todo \ {f}
  BY DEF Take
<1>3. f \in Files /\ f # "none"
  BY FetchAssumption DEF TypeOK, Files, Ride
<1>4. job'[t] = f /\ pc'[t] = "check" /\ \A u \in Threads \ {t} : job'[u] = job[u] /\ pc'[u] = pc[u]
  BY <1>1, <1>2 DEF TypeOK
<1>5. Busy' = Busy \cup {t}
  BY <1>3, <1>4 DEF Busy
<1>6. ASSUME NEW u \in Busy'
      PROVE  /\ u \in Crew(Kind(phase)) /\ job'[u] \in Paths(Kind(phase)) \ todo'
             /\ outcome[job'[u]] = "none"
             /\ \A w \in Busy' : job'[u] = job'[w] => u = w
  <2>1. \A w \in Busy : job[w] # f /\ w # t
    BY <1>1 DEF PoolInv, Busy
  <2>2. CASE u = t
    BY <1>1, <1>2, <1>4, <1>5, <2>1, <2>2 DEF PoolInv, Busy
  <2>3. CASE u # t
    BY <1>2, <1>4, <1>5, <2>1, <2>3 DEF PoolInv, Busy
  <2>4. QED
    BY <2>2, <2>3
<1>7. QED
  BY <1>1, <1>2, <1>3, <1>4, <1>6, SamePhase DEF PoolInv

LEMMA SettlePool ==
  ASSUME TypeOK, PoolInv, NEW t \in Threads, Settles(t)
  PROVE  PoolInv'
<1>1. PICK o \in {"ok", "absent", "error"} : Settle(t, o)
  BY DEF Settles
<1>2. /\ UNCHANGED <<phase, run, todo>> /\ pc[t] # "idle"
      /\ UNCHANGED found \/ Kind(phase) = "table"
  BY DEF Settles, poolVars
<1>3. t \in Busy /\ job[t] \in Files
  BY <1>2 DEF PoolInv, Busy, TypeOK
<1>4. /\ job'[t] = "none" /\ pc'[t] = "idle"
      /\ \A u \in Threads \ {t} : job'[u] = job[u] /\ pc'[u] = pc[u]
      /\ \A f \in Files \ {job[t]} : outcome'[f] = outcome[f]
  BY <1>1 DEF Settle, TypeOK
<1>5. Busy' = Busy \ {t}
  BY <1>4 DEF Busy
<1>6. \A u \in Busy' : /\ job'[u] = job[u] /\ u \in Busy /\ job[u] \in Files /\ job[u] # job[t]
  BY <1>3, <1>4, <1>5 DEF PoolInv, Busy, TypeOK
<1>7. \A f \in todo : f \in Files /\ f # job[t]
  BY <1>3 DEF PoolInv, TypeOK
<1>8. QED
  BY <1>2, <1>4, <1>6, <1>7, SamePhase DEF PoolInv

LEMMA NextPhaseIdle ==
  ASSUME TypeOK, PoolInv, DeliveryInv, NextPhase
  PROVE  Busy = {} /\ todo = {}
<1>1. Paths(Kind(phase)) \subseteq taken /\ taken \subseteq Files
  BY DEF NextPhase, AllDelivered, TypeOK
<1>2. \A f \in Paths(Kind(phase)) : outcome[f] # "none"
  BY <1>1 DEF DeliveryInv
<1>3. QED
  BY <1>2 DEF PoolInv

LEMMA PoolStep == StageInv /\ [Next]_vars => PoolInv'
<1> SUFFICES ASSUME TypeOK, PoolInv, DeliveryInv, [Next]_vars PROVE PoolInv'
  BY DEF StageInv
<1>1. ASSUME NEW t \in Threads, Step(t) PROVE PoolInv'
  <2>1. CASE Moves(t)
    <3>1. UNCHANGED <<phase, found, todo, outcome, job>> /\ Busy' = Busy
      BY <2>1 DEF Moves, poolVars, Busy
    <3>2. QED
      BY <2>1, <3>1, SamePhase DEF Moves, PoolInv
  <2>2. QED
    BY <1>1, <2>1, ThreadStep, TakePool, SettlePool
<1>2. CASE NextPhase
  <2>1. /\ job' = job /\ pc' = pc /\ phase' = phase + 1
        /\ outcome' = [f \in Files |-> "none"]
        /\ todo' = IF phase = Steps THEN {} ELSE Paths(Kind(phase + 1))
        /\ phase <= Steps /\ phase \in Nat /\ Steps \in Nat /\ found' = found
    BY <1>2, StepsPositive DEF NextPhase, TypeOK
  <2>2. Busy' = {}
    BY <1>2, <2>1, NextPhaseIdle DEF Busy
  <2>3. Paths(Kind(phase))' = Paths(Kind(phase + 1))
    BY <2>1 DEF Paths, Kind
  <2>4. todo' \subseteq Files
    BY <2>1, PathsAreFiles
  <2>5. QED
    BY <2>1, <2>2, <2>3, <2>4 DEF PoolInv
<1>3. CASE \E f \in Files : Collect(f) \/ Cancel(f)
  <2>1. /\ UNCHANGED <<phase, found, outcome, job, pc>> /\ todo' \subseteq todo /\ Busy' = Busy
    BY <1>3 DEF Collect, Cancel, threadVars, Busy
  <2>2. QED
    BY <2>1, SamePhase DEF PoolInv
<1>4. CASE Abort \/ Promote \/ UNCHANGED vars
  <2>1. UNCHANGED <<phase, found, outcome, todo, job, pc>> /\ Busy' = Busy
    BY <1>4 DEF Abort, Promote, vars, mainVars, poolVars, threadVars, Busy
  <2>2. QED
    BY <2>1, SamePhase DEF PoolInv
<1>5. QED
  BY <1>1, <1>2, <1>3, <1>4 DEF Next, MainStep

LEMMA DeliveryStep == StageInv /\ [Next]_vars => DeliveryInv'
<1> SUFFICES ASSUME TypeOK, PoolInv, DeliveryInv, [Next]_vars PROVE DeliveryInv'
  BY DEF StageInv
<1>1. ASSUME NEW t \in Threads, Settles(t) PROVE DeliveryInv'
  <2>1. PICK o \in {"ok", "absent", "error"} :
          Settle(t, o) /\ (o = "absent" => Optional(Kind(phase)))
    BY <1>1 DEF Settles
  <2>2. /\ UNCHANGED <<phase, run, taken, missing>> /\ pc[t] # "idle"
        /\ UNCHANGED found \/ Kind(phase) = "table"
    BY <1>1 DEF Settles, poolVars
  <2>3. /\ job[t] \in Files /\ job[t] \in Paths(Kind(phase)) /\ outcome[job[t]] = "none"
    BY <2>2 DEF PoolInv, Busy, TypeOK
  <2>4. job[t] \notin taken
    BY <2>3 DEF DeliveryInv
  <2>5. outcome'[job[t]] = o /\ \A f \in Files \ {job[t]} : outcome'[f] = outcome[f]
    BY <2>1, <2>3 DEF Settle, TypeOK
  <2>6. {f \in taken : outcome[f] = "absent"}' = {f \in taken : outcome[f] = "absent"}
    BY <2>2, <2>4, <2>5 DEF TypeOK
  <2>7. Paths(Kind(phase))' = Paths(Kind(phase)) /\ Kind(phase)' = Kind(phase)
    BY <2>2, SamePhase
  <2>8. ASSUME NEW f \in Files
        PROVE  /\ outcome'[f] # "none" => f \in Paths(Kind(phase))
               /\ outcome'[f] = "absent" => Optional(Kind(phase))
               /\ f \in taken => outcome'[f] # "none"
               /\ f \in taken /\ outcome'[f] = "error" => run # "staging" \/ Kind(phase) = "ride"
    <3>1. CASE f = job[t]
      BY <2>1, <2>3, <2>4, <2>5, <3>1
    <3>2. CASE f # job[t]
      BY <2>5, <3>2 DEF DeliveryInv
    <3>3. QED
      BY <3>1, <3>2
  <2>9. IsFiniteSet(taken') /\ missing' = Cardinality({f \in taken : outcome[f] = "absent"}')
    BY <2>2, <2>6 DEF DeliveryInv
  <2>10. QED
    BY <2>2, <2>7, <2>8, <2>9 DEF DeliveryInv, Optional
<1>2. ASSUME NEW f \in Files, Collect(f) PROVE DeliveryInv'
  <2>1. /\ UNCHANGED <<phase, found, outcome>> /\ outcome[f] # "none" /\ f \notin taken
        /\ taken' = taken \cup {f}
        /\ missing' = IF outcome[f] = "absent" THEN missing + 1 ELSE missing
        /\ run' = IF outcome[f] = "error" /\ Kind(phase) # "ride" THEN "failing" ELSE run
    BY <1>2 DEF Collect
  <2>2. IsFiniteSet(taken')
    BY <2>1, FS_AddElement DEF DeliveryInv
  <2>3. missing' = Cardinality({g \in taken' : outcome[g] = "absent"})
    <3> DEFINE A == {g \in taken : outcome[g] = "absent"}
    <3>1. IsFiniteSet(A) /\ f \notin A /\ missing = Cardinality(A)
      BY <2>1, FS_Subset DEF DeliveryInv
    <3>2. CASE outcome[f] = "absent"
      <4>1. {g \in taken' : outcome[g] = "absent"} = A \cup {f}
        BY <2>1, <3>2
      <4>2. QED
        BY <2>1, <3>1, <3>2, <4>1, FS_AddElement
    <3>3. CASE outcome[f] # "absent"
      <4>1. {g \in taken' : outcome[g] = "absent"} = A
        BY <2>1, <3>3
      <4>2. QED
        BY <2>1, <3>1, <3>3, <4>1
    <3>4. QED
      BY <3>2, <3>3
  <2>4. Paths(Kind(phase))' = Paths(Kind(phase)) /\ Kind(phase)' = Kind(phase)
    BY <2>1, SamePhase
  <2>5. QED
    BY <2>1, <2>2, <2>3, <2>4 DEF DeliveryInv, Optional
<1>3. CASE NextPhase
  <2>1. taken' = {} /\ missing' = 0 /\ outcome' = [f \in Files |-> "none"]
    BY <1>3 DEF NextPhase
  <2>2. {f \in taken' : outcome'[f] = "absent"} = {}
    BY <2>1
  <2>3. QED
    BY <2>1, <2>2, FS_EmptySet DEF DeliveryInv
<1>4. ASSUME UNCHANGED <<phase, found, outcome, taken, missing>>, run' = run \/ run' # "staging"
      PROVE  DeliveryInv'
  BY <1>4, SamePhase DEF DeliveryInv, Optional
<1>5. ASSUME NEW t \in Threads, Step(t) PROVE DeliveryInv'
  <2>1. CASE Take(t) \/ Moves(t)
    BY <1>4, <2>1 DEF Take, Moves, poolVars
  <2>2. QED
    BY <1>1, <1>5, <2>1, ThreadStep
<1>6. CASE (\E f \in Files : Cancel(f)) \/ Abort \/ Promote \/ UNCHANGED vars
  BY <1>4, <1>6 DEF Cancel, Abort, Promote, vars, mainVars, poolVars
<1>7. QED
  BY <1>2, <1>3, <1>5, <1>6 DEF Next, MainStep

LEMMA StageInductive == Spec => []StageInv
<1>1. Init => StageInv
  <2> SUFFICES ASSUME Init PROVE StageInv
    OBVIOUS
  <2>1. Kind(1) = "table"
    BY FetchAssumption DEF Kind, Kinds
  <2>2. PoolInv
    BY <2>1, StepsPositive DEF Init, PoolInv, Busy, Paths, Files
  <2>3. {f \in taken : outcome[f] = "absent"} = {}
    BY DEF Init
  <2>4. DeliveryInv
    BY <2>3, FS_EmptySet DEF Init, DeliveryInv
  <2>5. QED
    BY <2>2, <2>4, InitType DEF StageInv
<1>2. StageInv /\ [Next]_vars => StageInv'
  BY TypeStep, PoolStep, DeliveryStep DEF StageInv
<1>3. QED
  BY <1>1, <1>2, PTL DEF Spec

(* A phase of the staging is left with every path written or, if optional, *)
(* absent and counted, in whatever order the pool's futures were settled,  *)
(* delivered and cancelled.                                                *)
THEOREM StagingAlwaysWhole == Spec => StagedWhole
<1> DEFINE Whole ==
      phase' # phase /\ Kind(phase) # "ride" =>
        /\ \A f \in Paths(Kind(phase)) :
             outcome[f] = "ok" \/ (outcome[f] = "absent" /\ Optional(Kind(phase)))
        /\ missing = Cardinality({f \in Paths(Kind(phase)) : outcome[f] = "absent"})
<1>1. StageInv /\ [Next]_vars => Whole
  <2> SUFFICES ASSUME TypeOK, DeliveryInv, [Next]_vars, phase' # phase, Kind(phase) # "ride"
               PROVE  Whole
    BY DEF StageInv
  <2>1. NextPhase
    BY ThreadStep DEF Next, MainStep, Collect, Cancel, Abort, Promote, Take, Settles, Moves, vars,
                      mainVars
  <2>2. run = "staging" /\ Paths(Kind(phase)) \subseteq taken /\ taken \subseteq Files
    BY <2>1 DEF NextPhase, AllDelivered, TypeOK
  <2>3. \A f \in taken : outcome[f] \in {"ok", "absent"} /\ f \in Paths(Kind(phase))
    BY <2>2 DEF DeliveryInv, TypeOK
  <2>4. taken = Paths(Kind(phase))
    BY <2>2, <2>3
  <2>5. QED
    BY <2>2, <2>3, <2>4 DEF DeliveryInv
<1>2. QED
  BY <1>1, StageInductive, PTL DEF Spec, StagedWhole

-------------------------------------------------------------------------------

(* A step of a thread leaves the connections of the others alone. *)
LEMMA OthersKeep ==
  ASSUME TypeOK, NEW t \in Threads, Step(t), NEW u \in Threads, u # t
  PROVE  /\ pc'[u] = pc[u] /\ conn'[u] = conn[u]
         /\ redirects'[u] = redirects[u] /\ retries'[u] = retries[u]
  BY DEF TypeOK, Step, Take, Check, Charge, Parse, Respond, Redirected, NotFound, Refused,
         Transient, Body, Drained, Drop, EndFetch, Settle, To

(* The main thread closes connections, and leaves the fetches alone. *)
LEMMA MainKeeps ==
  ASSUME TypeOK, MainStep, NEW u \in Threads
  PROVE  /\ pc'[u] = pc[u] /\ conn'[u] \in {conn[u], "none"}
         /\ redirects'[u] = redirects[u] /\ retries'[u] = retries[u]
  BY DEF TypeOK, MainStep, Collect, Cancel, Abort, NextPhase, Promote, CloseFetcher, threadVars

LEMMA CleanStep ==
  ASSUME TypeOK, PoolInv, CleanReuse, [Next]_vars
  PROVE  CleanReuse'
<1> SUFFICES ASSUME NEW u \in Threads, Unread(u)' PROVE pc'[u] = "reply"
  BY DEF CleanReuse
<1>1. CASE MainStep
  BY <1>1, MainKeeps DEF CleanReuse, Unread
<1>2. ASSUME NEW t \in Threads, Step(t), u # t PROVE pc'[u] = "reply"
  BY <1>2, OthersKeep DEF CleanReuse, Unread
<1>3. CASE Step(u)
  <2>1. CASE Take(u) \/ Check(u) \/ Charge(u) \/ Parse(u)
    <3>1. UNCHANGED conn /\ pc[u] # "reply"
      <4>1. Take(u) => pc[u] # "reply"
        BY DEF Take, PoolInv
      <4>2. QED
        BY <2>1, <4>1 DEF Take, Check, Charge, Parse
    <3>2. QED
      BY <3>1 DEF CleanReuse, Unread
  <2>2. CASE Respond(u)
    BY <2>2 DEF Respond, To, TypeOK
  <2>3. CASE Redirected(u) \/ NotFound(u) \/ Body(u)
    BY <2>3 DEF Redirected, NotFound, Body, Drained, Unread, TypeOK
  <2>4. CASE Refused(u) \/ Transient(u)
    BY <2>4 DEF Refused, Transient, Drop, Unread, TypeOK
  <2>5. QED
    BY <1>3, <2>1, <2>2, <2>3, <2>4 DEF Step
<1>4. CASE UNCHANGED vars
  BY <1>4 DEF vars, threadVars, CleanReuse, Unread
<1>5. QED
  BY <1>1, <1>2, <1>3, <1>4 DEF Next

(* However a fetch ends or goes on, the connection it leaves in the cache  *)
(* has nothing left to read: every path out of a reply has drained it or   *)
(* closes its connection.                                                  *)
THEOREM ReuseAlwaysClean == Spec => []CleanReuse
<1>1. Init => CleanReuse
  BY DEF Init, CleanReuse, Unread
<1>2. QED
  BY <1>1, CleanStep, StageInductive, PTL DEF Spec, StageInv

-------------------------------------------------------------------------------

(* A request that does not end its fetch costs one of the counted chances. *)
LEMMA AttemptStep ==
  ASSUME TypeOK, CleanReuse, [Next]_vars, NEW t \in Threads,
         pc[t] \in Attempting, pc'[t] \in Attempting,
         <<pc[t], redirects[t], retries[t], conn[t]>>
           # <<pc'[t], redirects'[t], retries'[t], conn'[t]>>
  PROVE  IF pc'[t] = "request" THEN Budget(t)' < Budget(t) ELSE Budget(t)' <= Budget(t)
<1> USE FetchAssumption DEF TypeOK, Budget, Fresh
<1>1. CASE MainStep
  <2>1. /\ pc'[t] = pc[t] /\ redirects'[t] = redirects[t] /\ retries'[t] = retries[t]
        /\ conn'[t] = "none" /\ conn[t] # "none"
    BY <1>1, MainKeeps
  <2>2. pc[t] = "request" => conn[t] = "clean"
    BY <2>1 DEF CleanReuse, Unread
  <2>3. QED
    BY <2>1, <2>2
<1>2. ASSUME NEW u \in Threads, Step(u), u # t PROVE FALSE
  BY <1>2, OthersKeep
<1>3. CASE Step(t)
  <2>1. CASE Take(t) \/ Check(t) \/ Charge(t) \/ Parse(t) \/ NotFound(t) \/ Refused(t) \/ Body(t)
    BY <2>1 DEF Take, Check, Charge, Parse, NotFound, Refused, Body, Settle, To, Attempting
  <2>2. CASE Respond(t)
    <3>1. pc'[t] = "reply" /\ conn'[t] = IF Fresh(t) THEN "first" ELSE "again"
      BY <2>2 DEF Respond, To
    <3>2. redirects'[t] = redirects[t] /\ retries'[t] = retries[t]
      BY <2>2 DEF Respond
    <3>3. QED
      BY <3>1, <3>2
  <2>3. CASE Redirected(t)
    BY <2>3 DEF Redirected, Drained, To
  <2>4. CASE Transient(t)
    <3>1. ~Settle(t, "error") /\ conn'[t] = "none"
      BY <2>4 DEF Transient, Drop, Settle, Attempting
    <3>2. CASE conn[t] \notin {"none", "first"}
      BY <2>4, <3>1, <3>2 DEF Transient, To
    <3>3. CASE conn[t] \in {"none", "first"}
      BY <2>4, <3>1, <3>3 DEF Transient, To
    <3>4. QED
      BY <3>2, <3>3
  <2>5. QED
    BY <1>3, <2>1, <2>2, <2>3, <2>4 DEF Step
<1>4. CASE UNCHANGED vars
  BY <1>4 DEF vars, threadVars
<1>5. QED
  BY <1>1, <1>2, <1>3, <1>4 DEF Next

(* One fetch sends at most 2 * MaxRedirects + MaxRetries + 2 requests. *)
THEOREM EveryFetchRunsOut == Spec => AttemptsRunOut
<1> DEFINE RunsOut ==
      \A t \in Threads :
        pc[t] \in Attempting /\ pc'[t] \in Attempting
          /\ <<pc[t], redirects[t], retries[t], conn[t]>>
               # <<pc[t], redirects[t], retries[t], conn[t]>>'
        => IF pc'[t] = "request" THEN Budget(t)' < Budget(t) ELSE Budget(t)' <= Budget(t)
<1>1. TypeOK /\ CleanReuse /\ [Next]_vars => RunsOut
  BY AttemptStep
<1>2. QED
  BY <1>1, TypeCorrect, ReuseAlwaysClean, PTL DEF Spec, AttemptsRunOut

-------------------------------------------------------------------------------

LEMMA Product ==
  ASSUME NEW a \in Nat, NEW b \in Nat, a <= b, NEW c \in Nat
  PROVE  /\ a * c \in Nat /\ b * c \in Nat /\ a * c <= b * c
         /\ a > 0 => (a - 1) * c = a * c - c
<1>1. a * c \in Nat /\ b * c \in Nat /\ (b - a) * c \in Nat
  OBVIOUS
<1>2. (b - a) * c = b * c - a * c
  OBVIOUS
<1>3. (a - 1) * c = a * c - c
  OBVIOUS
<1>4. QED
  BY <1>1, <1>2, <1>3

LEMMA FiniteThreads ==
  ASSUME NEW S \in SUBSET Threads
  PROVE  IsFiniteSet(S) /\ Cardinality(S) \in Nat
<1>1. IsFiniteSet(Threads)
  BY FetchAssumption, FS_AddElement DEF Threads
<1>2. QED
  BY <1>1, FS_Subset, FS_CardinalityType

(* A phase keeps busy the pool, or the main thread alone. *)
LEMMA InFlightIsCrew == TypeOK /\ PoolInv => Cardinality(InFlight) <= Cardinality(Workers)
<1> SUFFICES ASSUME TypeOK, PoolInv PROVE Cardinality(InFlight) <= Cardinality(Workers)
  OBVIOUS
<1>1. /\ IsFiniteSet(Workers) /\ IsFiniteSet(InFlight)
      /\ Cardinality(Workers) \in Nat /\ Cardinality(InFlight) \in Nat
  BY FetchAssumption, FiniteThreads DEF InFlight, Threads
<1>2. InFlight \subseteq Crew(Kind(phase))
  BY DEF InFlight, Attempting, PoolInv, Busy
<1>3. CASE InFlight \subseteq Workers
  BY <1>1, <1>3, FS_Subset
<1>4. CASE InFlight \subseteq {Main}
  <2>1. Cardinality(InFlight) <= Cardinality({Main})
    BY <1>4, FS_Subset, FS_Singleton
  <2>2. Cardinality({Main}) = 1
    BY FS_Singleton
  <2>3. Cardinality(Workers) # 0
    BY <1>1, FetchAssumption, FS_EmptySet
  <2>4. QED
    BY <1>1, <2>1, <2>2, <2>3
<1>5. QED
  BY <1>2, <1>3, <1>4 DEF Crew

(* Only Check lets a fetch into flight, and only under the cap. *)
LEMMA FlightStep ==
  ASSUME TypeOK, NEW t \in Threads, Step(t), ~Charge(t)
  PROVE  InFlight' \subseteq InFlight \/ used <= MaxTotal
<1> USE FetchAssumption DEF TypeOK, InFlight, Attempting
<1>1. CASE Check(t)
  BY <1>1 DEF Check, Settle, Tripped
<1>2. CASE Take(t) \/ Parse(t)
  BY <1>2 DEF Take, Parse, Settle
<1>3. CASE Respond(t) \/ Redirected(t) \/ Transient(t)
  BY <1>3 DEF Respond, Redirected, Transient, Attempt, Settle, To
<1>4. CASE NotFound(t) \/ Refused(t) \/ Body(t)
  BY <1>4 DEF NotFound, Refused, Body, Attempt, Settle, To
<1>5. QED
  BY <1>1, <1>2, <1>3, <1>4 DEF Step

LEMMA OvershootStep == StageInv /\ StageInv' /\ OvershootInv /\ [Next]_vars => OvershootInv'
<1> SUFFICES ASSUME TypeOK, PoolInv, TypeOK', PoolInv', OvershootInv, [Next]_vars
             PROVE  OvershootInv'
  BY DEF StageInv
<1> DEFINE n == Cardinality(InFlight)
           w == Cardinality(Workers)
<1>1. /\ FileCap \in Nat /\ MaxTotal \in Nat /\ used \in Nat /\ used' \in Nat
      /\ n \in Nat /\ n' \in Nat /\ w \in Nat /\ IsFiniteSet(InFlight)
  BY FetchAssumption, FiniteThreads DEF TypeOK, InFlight, Threads
<1>2. n' <= w
  <2>1. (TypeOK /\ PoolInv => Cardinality(InFlight) <= Cardinality(Workers))'
    BY InFlightIsCrew, PTL
  <2>2. QED
    BY <2>1
<1>3. CASE used' = used /\ used <= MaxTotal
  <2>1. n' * FileCap \in Nat /\ w * FileCap \in Nat /\ n' * FileCap <= w * FileCap
    BY <1>1, <1>2, Product
  <2>2. QED
    BY <1>1, <1>3, <2>1 DEF OvershootInv
<1>4. CASE used' = used /\ InFlight' \subseteq InFlight
  <2>1. n' <= n
    BY <1>1, <1>4, FS_Subset
  <2>2. n' * FileCap \in Nat /\ n * FileCap \in Nat /\ n' * FileCap <= n * FileCap
    BY <1>1, <2>1, Product
  <2>3. w * FileCap \in Nat
    BY <1>1, Product
  <2>4. QED
    BY <1>1, <1>4, <2>2, <2>3 DEF OvershootInv
<1>5. ASSUME NEW t \in Threads, Charge(t) PROVE OvershootInv'
  <2>1. PICK k \in 0..FileCap : used' = used + k
    BY <1>5 DEF Charge
  <2>2. InFlight' = InFlight \ {t} /\ t \in InFlight
    BY <1>5 DEF Charge, Settle, To, InFlight, Attempting, TypeOK
  <2>3. n' = n - 1 /\ n > 0
    <3>1. Cardinality(InFlight \ {t}) = n - 1
      BY <1>1, <2>2, FS_RemoveElement
    <3>2. n # 0
      BY <1>1, <2>2, FS_EmptySet
    <3>3. QED
      BY <1>1, <2>2, <3>1, <3>2
  <2>4. (n - 1) * FileCap = n * FileCap - FileCap /\ n * FileCap \in Nat
    BY <1>1, <2>3, Product
  <2>5. w * FileCap \in Nat
    BY <1>1, Product
  <2>6. QED
    BY <1>1, <2>1, <2>3, <2>4, <2>5 DEF OvershootInv
<1>6. ASSUME NEW t \in Threads, Step(t), ~Charge(t) PROVE OvershootInv'
  <2>1. used' = used
    BY <1>6 DEF Step, Take, Check, Parse, Respond, Redirected, NotFound, Refused, Transient, Body,
                Attempt, budgetVars
  <2>2. QED
    BY <1>3, <1>4, <1>6, <2>1, FlightStep
<1>7. CASE MainStep \/ UNCHANGED vars
  <2>1. used' = used /\ InFlight' = InFlight
    BY <1>7 DEF MainStep, Collect, Cancel, Abort, NextPhase, Promote, vars, threadVars, budgetVars,
                InFlight
  <2>2. QED
    BY <1>4, <2>1
<1>8. QED
  BY <1>5, <1>6, <1>7 DEF Next

(* What is downloaded past the cap is at most one body per thread of the   *)
(* pool: those of the fetches that had passed their check when it tripped. *)
THEOREM OvershootAlwaysBounded == Spec => []OvershootBounded
<1>1. Init => OvershootInv
  <2> SUFFICES ASSUME Init PROVE OvershootInv
    OBVIOUS
  <2>1. Cardinality(InFlight) = 0
    <3>1. InFlight = {}
      BY DEF Init, InFlight, Attempting
    <3>2. QED
      BY <3>1, FS_EmptySet
  <2>2. Cardinality(Workers) \in Nat
    BY FetchAssumption, FS_CardinalityType
  <2>3. Cardinality(Workers) * FileCap \in Nat /\ 0 * FileCap = 0
    BY <2>2, FetchAssumption
  <2>4. QED
    BY <2>1, <2>3, FetchAssumption DEF Init, OvershootInv
<1>2. StageInv /\ OvershootInv => OvershootBounded
  <2> SUFFICES ASSUME TypeOK, OvershootInv PROVE OvershootBounded
    BY DEF StageInv
  <2>1. Cardinality(InFlight) \in Nat /\ Cardinality(Workers) \in Nat
    BY FetchAssumption, FiniteThreads DEF InFlight, Threads
  <2>2. Cardinality(InFlight) * FileCap \in Nat /\ Cardinality(Workers) * FileCap \in Nat
    BY <2>1, FetchAssumption, Product
  <2>3. QED
    BY <2>2, FetchAssumption DEF OvershootInv, OvershootBounded, TypeOK
<1>3. QED
  BY <1>1, <1>2, StageInductive, OvershootStep, PTL DEF Spec
================================================================================
