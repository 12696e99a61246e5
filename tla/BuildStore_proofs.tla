--------------------------- MODULE BuildStore_proofs ---------------------------
(***************************************************************************)
(* Theorems about BuildStore for every set of runs, readers and contents,  *)
(* every retention and every bound, under SerialSpec: runs do not overlap, *)
(* and each may crash between any two of its operations.                   *)
(***************************************************************************)
EXTENDS BuildStore, FiniteSetTheorems, TLAPS

(* Runs do not overlap. *)
OneRun == \A p, q \in Procs : pc[p] # "idle" /\ pc[q] # "idle" => p = q

(* What a run has established by the time it reaches each phase. *)
RunInv(p) ==
  /\ pc[p] # "idle" => cand[p] \in Passing
  /\ pc[p] = "write" => name[p] \in Names /\ ~Exists(name[p])
  /\ pc[p] = "swap" =>
       /\ name[p] \in Names
       /\ Exists(name[p])
       /\ builds[name[p]].content = cand[p]
       /\ manifest # None => name[p] # manifest.name
  /\ pc[p] = "list" => manifest # None /\ name[p] = manifest.name
  /\ pc[p] = "unlink" => manifest # None /\ manifest.name \notin doomed[p]

(* Every build that a manifest or a rollback could name was validated. *)
BuildsValidated == \A n \in Names : Exists(n) => builds[n].content \in Passing

IInv ==
  /\ TypeOK
  /\ OneRun
  /\ BuildsValidated
  /\ ActiveResolvable
  /\ \A p \in Procs : RunInv(p)

-------------------------------------------------------------------------------

(* TypeOK is inductive only together with RunInv: what is written to a     *)
(* file and to the manifest are locals that must have been set.            *)
LEMMA InitType == Init => TypeOK
  BY BuildStoreAssumption DEF Init, TypeOK, Phases

LEMMA StartType ==
  ASSUME TypeOK, NEW p \in Procs, NEW c \in Contents, Start(p, c)
  PROVE  TypeOK'
  BY DEF TypeOK, Start, Goto, Phases, storeVars, readerVars, clockVars

LEMMA StepType ==
  ASSUME TypeOK, NEW p \in Procs, RunInv(p), Step(p) \/ Crash(p)
  PROVE  TypeOK'
<1> USE BuildStoreAssumption DEF Goto, Finish, Phases, storeVars, readerVars, clockVars
<1>1. CASE ReadCurrent(p)
  BY <1>1 DEF TypeOK, ReadCurrent
<1>2. CASE Noop(p)
  BY <1>2 DEF TypeOK, Noop
<1>3. CASE Proceed(p)
  BY <1>3 DEF TypeOK, Proceed
<1>4. CASE ChooseName(p)
  <2>1. PICK n \in Names :
          /\ name' = [name EXCEPT ![p] = n]
          /\ now' = n[1]
          /\ burst' = IF n[1] = now THEN burst + 1 ELSE 1
    BY <1>4 DEF ChooseName
  <2>2. n[1] \in 0..MaxSecond
    BY DEF Names
  <2>3. QED
    BY <1>4, <2>1, <2>2 DEF TypeOK, ChooseName
<1>5. CASE WriteBuild(p)
  <2>1. [content |-> cand[p], mtime |-> writes + 1] \in Builds
    BY <1>5 DEF TypeOK, Builds, RunInv, WriteBuild
  <2>2. builds' \in [Names -> Builds \cup {None}]
    BY <1>5, <2>1 DEF TypeOK, WriteBuild
  <2>3. QED
    BY <1>5, <2>2 DEF TypeOK, WriteBuild
<1>6. CASE SwapManifest(p)
  <2>1. [name |-> name[p], content |-> cand[p]] \in Manifests
    BY <1>6 DEF TypeOK, Manifests, RunInv, SwapManifest
  <2>2. QED
    BY <1>6, <2>1 DEF TypeOK, SwapManifest
<1>7. CASE ListBuilds(p)
  BY <1>7 DEF TypeOK, ListBuilds, Prunable, OnDisk
<1>8. CASE UnlinkOne(p)
  BY <1>8 DEF TypeOK, UnlinkOne
<1>9. CASE Promoted(p)
  BY <1>9 DEF TypeOK, Promoted
<1>10. CASE Crash(p)
  BY <1>10 DEF TypeOK, Crash
<1>11. QED
  BY <1>1, <1>2, <1>3, <1>4, <1>5, <1>6, <1>7, <1>8, <1>9, <1>10 DEF Step

LEMMA ReaderType ==
  ASSUME TypeOK, ReaderStep
  PROVE  TypeOK'
<1> USE BuildStoreAssumption DEF storeVars, runVars, clockVars
<1>1. PICK r \in Readers : Resolve(r) \/ Open(r) \/ Close(r)
  BY DEF ReaderStep
<1>2. CASE Resolve(r)
  BY <1>2 DEF TypeOK, Resolve
<1>3. CASE Open(r)
  <2>1. path[r] \in Manifests
    BY <1>3 DEF TypeOK, Open
  <2>2. Exists(path[r].name) => builds[path[r].name].content \in Contents
    BY <2>1 DEF TypeOK, Exists, Manifests, Builds
  <2>3. QED
    BY <1>3, <2>2 DEF TypeOK, Open
<1>4. CASE Close(r)
  BY <1>4 DEF TypeOK, Close
<1>5. QED
  BY <1>1, <1>2, <1>3, <1>4

-------------------------------------------------------------------------------

(* The inductive invariant.  A reader step touches no file and no run.     *)
THEOREM InitInv == Init => IInv
<1> SUFFICES ASSUME Init PROVE IInv
  OBVIOUS
<1>1. TypeOK
  BY InitType
<1>2. OneRun /\ BuildsValidated /\ ActiveResolvable
  BY DEF Init, OneRun, BuildsValidated, ActiveResolvable, Exists
<1>3. \A p \in Procs : RunInv(p)
  BY DEF Init, RunInv
<1>4. QED
  BY <1>1, <1>2, <1>3 DEF IInv

LEMMA ReaderInv ==
  ASSUME IInv, ReaderStep
  PROVE  IInv'
<1>1. UNCHANGED <<builds, manifest, pc, cand, cur, name, doomed>>
  BY DEF ReaderStep, Resolve, Open, Close, storeVars, runVars
<1>2. TypeOK'
  BY ReaderType DEF IInv
<1>3. QED
  BY <1>1, <1>2 DEF IInv, OneRun, BuildsValidated, ActiveResolvable, RunInv, Exists

LEMMA StartInv ==
  ASSUME IInv, NEW p \in Procs, NEW c \in Contents, Alone(p), Start(p, c)
  PROVE  IInv'
<1>1. TypeOK'
  BY StartType DEF IInv
<1>2. /\ UNCHANGED <<builds, manifest, name, doomed>>
      /\ pc' = [pc EXCEPT ![p] = "read"]
      /\ cand' = [cand EXCEPT ![p] = c]
      /\ c \in Passing
  BY DEF Start, Goto, Admissible, storeVars
<1>3. OneRun'
  BY <1>2 DEF IInv, OneRun, Alone, TypeOK
<1>4. BuildsValidated' /\ ActiveResolvable'
  BY <1>2 DEF IInv, BuildsValidated, ActiveResolvable, Exists
<1>5. ASSUME NEW q \in Procs PROVE RunInv(q)'
  BY <1>2 DEF IInv, RunInv, TypeOK, Exists
<1>6. QED
  BY <1>1, <1>3, <1>4, <1>5 DEF IInv

(* While p is under way every other run is idle, so only p's part of the   *)
(* invariant can be disturbed by what p does to the files.                 *)
LEMMA OthersIdle ==
  ASSUME IInv, NEW p \in Procs, Step(p) \/ Crash(p)
  PROVE  /\ pc[p] # "idle"
         /\ \A q \in Procs \ {p} : pc[q] = "idle" /\ pc'[q] = "idle" /\ RunInv(q)'
<1>1. pc[p] # "idle"
  BY DEF Step, ReadCurrent, Noop, Proceed, ChooseName, WriteBuild, SwapManifest,
         ListBuilds, UnlinkOne, Promoted, Crash
<1>2. \A q \in Procs \ {p} : pc[q] = "idle"
  BY <1>1 DEF IInv, OneRun
<1>3. \A q \in Procs \ {p} : pc'[q] = pc[q]
  <2>1. \/ pc' = pc
        \/ \E phase \in Phases : pc' = [pc EXCEPT ![p] = phase]
    BY DEF Step, ReadCurrent, Noop, Proceed, ChooseName, WriteBuild, SwapManifest,
           ListBuilds, UnlinkOne, Promoted, Crash, Goto, Finish, Phases
  <2>2. QED
    BY <2>1 DEF IInv, TypeOK
<1>4. QED
  BY <1>1, <1>2, <1>3 DEF RunInv

(* Steps that leave the directory and the manifest alone.                  *)
LEMMA QuietInv ==
  ASSUME IInv, NEW p \in Procs, Step(p) \/ Crash(p),
         UNCHANGED <<builds, manifest>>, RunInv(p)'
  PROVE  IInv'
<1>1. TypeOK'
  BY StepType DEF IInv
<1>2. OneRun'
  BY OthersIdle DEF OneRun
<1>3. BuildsValidated' /\ ActiveResolvable'
  BY DEF IInv, BuildsValidated, ActiveResolvable, Exists
<1>4. QED
  BY <1>1, <1>2, <1>3, OthersIdle DEF IInv

LEMMA StepInv ==
  ASSUME IInv, NEW p \in Procs, Step(p) \/ Crash(p)
  PROVE  IInv'
<1> USE BuildStoreAssumption
<1>0. /\ TypeOK /\ RunInv(p) /\ ActiveResolvable /\ BuildsValidated
      /\ TypeOK'
  BY StepType DEF IInv
<1>1. OneRun'
  BY OthersIdle DEF OneRun
<1>2. CASE ReadCurrent(p)
  <2>1. UNCHANGED <<builds, manifest>> /\ RunInv(p)'
    BY <1>0, <1>2 DEF ReadCurrent, Goto, RunInv, TypeOK, storeVars
  <2>2. QED
    BY <2>1, QuietInv
<1>3. CASE Noop(p) \/ Promoted(p) \/ Crash(p)
  <2>1. UNCHANGED <<builds, manifest>> /\ RunInv(p)'
    BY <1>0, <1>3 DEF Noop, Promoted, Crash, Finish, RunInv, TypeOK, storeVars
  <2>2. QED
    BY <2>1, QuietInv
<1>4. CASE Proceed(p)
  <2>1. UNCHANGED <<builds, manifest>> /\ RunInv(p)'
    BY <1>0, <1>4 DEF Proceed, Goto, RunInv, TypeOK, storeVars
  <2>2. QED
    BY <2>1, QuietInv
<1>5. CASE ChooseName(p)
  <2>1. UNCHANGED <<builds, manifest>>
    BY <1>5 DEF ChooseName, storeVars
  <2>2. /\ pc'[p] = "write" /\ cand' = cand
        /\ name'[p] \in Names /\ ~Exists(name'[p])
    BY <1>0, <1>5 DEF ChooseName, FreeName, Goto, TypeOK
  <2>3. RunInv(p)'
    BY <1>0, <1>5, <2>1, <2>2 DEF RunInv, Exists, ChooseName
  <2>4. QED
    BY <2>1, <2>3, QuietInv
<1>6. CASE WriteBuild(p)
  <2>1. /\ name[p] \in Names /\ ~Exists(name[p]) /\ cand[p] \in Passing
        /\ manifest' = manifest /\ name' = name /\ cand' = cand
        /\ pc'[p] = "swap"
    BY <1>0, <1>6 DEF RunInv, WriteBuild, Goto, TypeOK
  <2>2. /\ builds'[name[p]] = [content |-> cand[p], mtime |-> writes + 1]
        /\ builds'[name[p]] # None
        /\ \A n \in Names \ {name[p]} : builds'[n] = builds[n]
    <3>1. [content |-> cand[p], mtime |-> writes + 1] \in Builds
      BY <1>0, <2>1 DEF TypeOK, Builds
    <3>2. QED
      BY <1>0, <1>6, <2>1, <3>1 DEF WriteBuild, TypeOK
  <2>3. manifest # None => manifest.name \in Names /\ manifest.name # name[p]
    BY <1>0, <2>1 DEF ActiveResolvable, TypeOK, Manifests
  <2>4. BuildsValidated'
    BY <1>0, <2>1, <2>2 DEF BuildsValidated, Exists
  <2>5. ActiveResolvable'
    BY <1>0, <2>1, <2>2, <2>3 DEF ActiveResolvable, Exists
  <2>6. RunInv(p)'
    BY <2>1, <2>2, <2>3 DEF RunInv, Exists
  <2>7. QED
    BY <1>0, <1>1, <2>4, <2>5, <2>6, OthersIdle DEF IInv
<1>7. CASE SwapManifest(p)
  <2>1. /\ builds' = builds /\ name' = name /\ cand' = cand
        /\ pc'[p] = "list"
        /\ manifest' = [name |-> name[p], content |-> cand[p]]
        /\ name[p] \in Names /\ Exists(name[p]) /\ cand[p] \in Passing
        /\ builds[name[p]].content = cand[p]
    BY <1>0, <1>7 DEF RunInv, SwapManifest, Goto, TypeOK
  <2>2. manifest' # None
    BY <1>0, <2>1 DEF Manifests, TypeOK
  <2>3. BuildsValidated'
    BY <1>0, <2>1 DEF BuildsValidated, Exists
  <2>4. ActiveResolvable'
    BY <2>1 DEF ActiveResolvable, Exists
  <2>5. RunInv(p)'
    BY <2>1, <2>2 DEF RunInv
  <2>6. QED
    BY <1>0, <1>1, <2>3, <2>4, <2>5, OthersIdle DEF IInv
<1>8. CASE ListBuilds(p)
  <2>1. /\ UNCHANGED <<builds, manifest>> /\ cand' = cand /\ pc'[p] = "unlink"
        /\ manifest # None /\ name[p] = manifest.name
        /\ doomed'[p] = Prunable(name[p])
    BY <1>0, <1>8 DEF RunInv, ListBuilds, Goto, TypeOK, storeVars
  <2>2. manifest.name \notin Prunable(name[p])
    BY <2>1 DEF Prunable
  <2>3. RunInv(p)'
    BY <1>0, <1>8, <2>1, <2>2 DEF RunInv, ListBuilds
  <2>4. QED
    BY <2>1, <2>3, QuietInv
<1>9. CASE UnlinkOne(p)
  <2>1. PICK n \in doomed[p] :
          /\ builds' = [builds EXCEPT ![n] = None]
          /\ \/ doomed' = [doomed EXCEPT ![p] = @ \ {n}] /\ UNCHANGED <<pc, cand, cur, name>>
             \/ Finish(p)
    BY <1>9 DEF UnlinkOne
  <2>2. /\ manifest' = manifest /\ manifest # None
        /\ n \in Names /\ n # manifest.name
        /\ manifest.name \in Names
    BY <1>0, <1>9, <2>1 DEF RunInv, UnlinkOne, TypeOK, Manifests
  <2>3. \A m \in Names : builds'[m] = IF m = n THEN None ELSE builds[m]
    BY <1>0, <2>1, <2>2 DEF TypeOK
  <2>4. BuildsValidated' /\ ActiveResolvable'
    BY <1>0, <2>2, <2>3 DEF BuildsValidated, ActiveResolvable, Exists
  <2>5. RunInv(p)'
    BY <1>0, <1>9, <2>1, <2>2 DEF RunInv, Finish, UnlinkOne, TypeOK
  <2>6. QED
    BY <1>0, <1>1, <2>4, <2>5, OthersIdle DEF IInv
<1>10. QED
  BY <1>2, <1>3, <1>4, <1>5, <1>6, <1>7, <1>8, <1>9 DEF Step

LEMMA InvStep == IInv /\ [SerialNext]_vars => IInv'
<1> SUFFICES ASSUME IInv, [SerialNext]_vars PROVE IInv'
  OBVIOUS
<1>1. CASE \E p \in Procs, c \in Contents : Alone(p) /\ Start(p, c)
  BY <1>1, StartInv
<1>2. CASE Advance
  BY <1>2, StepInv DEF Advance
<1>3. CASE ReaderStep
  BY <1>3, ReaderInv
<1>4. CASE UNCHANGED vars
  BY <1>4 DEF vars, storeVars, runVars, readerVars, clockVars, IInv, TypeOK, OneRun,
              BuildsValidated, ActiveResolvable, RunInv, Exists
<1>5. QED
  BY <1>1, <1>2, <1>3, <1>4 DEF SerialNext

THEOREM Inductive == SerialSpec => []IInv
<1>1. QED
  BY InitInv, InvStep, PTL DEF SerialSpec

(* Every variable keeps its type, whatever the constants.                  *)
THEOREM TypeCorrect == SerialSpec => []TypeOK
<1>1. IInv => TypeOK
  BY DEF IInv
<1>2. QED
  BY <1>1, Inductive, PTL

(* ADR 0002: at every instant, crashes included, a promoted manifest names *)
(* an existing build that holds the validated content it was written for.  *)
THEOREM AlwaysResolvable == SerialSpec => []ActiveResolvable
<1>1. IInv => ActiveResolvable
  BY DEF IInv
<1>2. QED
  BY <1>1, Inductive, PTL

(* promotion.py: no step of a run edits or replaces a build that exists;   *)
(* the only thing that ever happens to one is its removal.                 *)
Untouched == \A n \in Names : Exists(n) => builds'[n] \in {builds[n], None}

LEMMA UntouchedStep == IInv /\ [SerialNext]_vars => [Untouched]_builds
<1> SUFFICES ASSUME IInv, [SerialNext]_vars PROVE Untouched \/ builds' = builds
  BY DEF Untouched
<1>1. CASE UNCHANGED vars
  BY <1>1 DEF vars, storeVars
<1>2. CASE ReaderStep
  BY <1>2 DEF ReaderStep, Resolve, Open, Close, storeVars
<1>3. CASE \E p \in Procs, c \in Contents : Start(p, c)
  BY <1>3 DEF Start, storeVars
<1>4. ASSUME NEW p \in Procs, Step(p) \/ Crash(p)
      PROVE  Untouched \/ builds' = builds
  <2>1. CASE WriteBuild(p)
    BY <2>1 DEF WriteBuild, IInv, RunInv, TypeOK, Untouched, Exists
  <2>2. CASE UnlinkOne(p)
    <3>1. PICK n \in Names : builds' = [builds EXCEPT ![n] = None]
      BY <2>2 DEF UnlinkOne, IInv, TypeOK
    <3>2. QED
      BY <3>1 DEF IInv, TypeOK, Untouched
  <2>3. CASE ~WriteBuild(p) /\ ~UnlinkOne(p)
    BY <1>4, <2>3 DEF Step, ReadCurrent, Noop, Proceed, ChooseName, SwapManifest,
                      ListBuilds, Promoted, Crash, storeVars
  <2>4. QED
    BY <2>1, <2>2, <2>3
<1>5. QED
  BY <1>1, <1>2, <1>3, <1>4 DEF SerialNext, Advance

THEOREM NeverReplaced == SerialSpec => BuildsImmutable
<1>1. [Untouched]_builds => [\A n \in Names : Exists(n) => builds'[n] \in {builds[n], None}]_builds
  BY DEF Untouched
<1>2. QED
  BY <1>1, UntouchedStep, Inductive, PTL DEF SerialSpec, BuildsImmutable
-------------------------------------------------------------------------------

(* What the clocks say of the directory: no build is stamped after the     *)
(* last write or named after this second, no two are stamped alike, and a  *)
(* build stamped later was named later.                                    *)
Stamped ==
  /\ \A n \in Names : Exists(n) => builds[n].mtime <= writes /\ n[1] <= now
  /\ \A m, n \in Names : Exists(m) /\ Exists(n) /\ m # n => builds[m].mtime # builds[n].mtime
  /\ \A m, n \in Names : Exists(m) /\ Exists(n) /\ Newer(m, n) => n[1] <= m[1]

(* Every build of this second, and the one about to be written, took a     *)
(* name in it.                                                             *)
OfNow   == {n \in OnDisk : n[1] = now}
Writing == \E p \in Procs : pc[p] = "write"
Filled  == Cardinality(OfNow) + (IF Writing THEN 1 ELSE 0) <= burst

Latest(n) == Exists(n) /\ builds[n].mtime = writes

(* With no build written since a prune, the active one is the newest. *)
ActiveLatest == unpruned = 0 /\ manifest # None => Latest(manifest.name)

(* A run alone works on the manifest it read, and the build it wrote stays *)
(* the newest until it ends.                                               *)
RunStamp(p) ==
  /\ pc[p] \in {"compare", "name", "write", "swap"} => cur[p] = manifest
  /\ pc[p] = "write" => name[p][1] = now
  /\ pc[p] \in {"swap", "list", "unlink"} =>
       name[p] \in Names /\ Latest(name[p]) /\ unpruned > 0
  /\ pc[p] \in {"swap", "list"} /\ unpruned = 1 /\ cur[p] # None =>
       /\ Exists(cur[p].name) /\ cur[p].name # name[p]
       /\ builds[cur[p].name].mtime + 1 = writes
  /\ pc[p] = "unlink" =>
       /\ manifest # None /\ name[p] = manifest.name
       /\ Cardinality(OnDisk \ doomed[p]) <= Kept
       /\ \A n \in doomed[p] : n[1] = now => burst > Kept
       /\ cur[p] # None /\ Kept >= 2 /\ unpruned = 1 =>
            Exists(cur[p].name) /\ cur[p].name \notin doomed[p]

StampInv ==
  /\ Stamped
  /\ Filled
  /\ ActiveLatest
  /\ RetentionBound
  /\ \A p \in Procs : RunStamp(p)

(* What an unconnected reader resolved is on disk, or its name is spent. *)
Spent(n) == ~Exists(n) /\ n[1] <= now /\ (n[1] = now => burst >= MaxPerSecond)
PathKept ==
  \A r \in Readers : path[r] # None =>
    /\ conn[r] = None
    /\ IF Exists(path[r].name) THEN builds[path[r].name].content = path[r].content
       ELSE Spent(path[r].name) /\ \A p \in Procs : pc[p] = "write" => name[p] # path[r].name

LEMMA InitStamp == Init => StampInv
<1> SUFFICES ASSUME Init PROVE StampInv
  OBVIOUS
<1>1. OnDisk = {} /\ OfNow = {}
  BY DEF Init, OnDisk, OfNow, Exists
<1>2. Stamped /\ ActiveLatest /\ \A p \in Procs : RunStamp(p)
  BY DEF Init, Stamped, ActiveLatest, RunStamp, Exists
<1>3. ~Writing
  BY DEF Init, Writing
<1>4. Filled /\ RetentionBound
  BY <1>1, <1>3, FS_EmptySet, BuildStoreAssumption DEF Init, Filled, RetentionBound, Kept
<1>5. QED
  BY <1>2, <1>4 DEF StampInv

LEMMA DiskFinite ==
  ASSUME NEW S \in SUBSET Names
  PROVE  IsFiniteSet(S) /\ Cardinality(S) \in Nat
<1>1. IsFiniteSet(0..MaxSecond) /\ IsFiniteSet(1..(MaxWrites + 1))
  BY FS_Interval, BuildStoreAssumption
<1>2. IsFiniteSet(Names)
  BY <1>1, FS_Product DEF Names
<1>3. QED
  BY <1>2, FS_Subset, FS_CardinalityType

LEMMA KeptType == Kept \in Nat /\ Kept >= 1 /\ Kept - 1 \in Nat
  BY BuildStoreAssumption DEF Kept

(* Of builds that are all stamped differently, at most k have fewer than k *)
(* newer ones: the ranking is an injection into 0..(k - 1).                 *)
LEMMA TopBound ==
  ASSUME NEW S, IsFiniteSet(S), NEW f \in [S -> Nat],
         \A a, b \in S : a # b => f[a] # f[b],
         NEW k \in Nat
  PROVE  Cardinality({n \in S : Cardinality({m \in S : f[m] > f[n]}) < k}) <= k
<1> DEFINE Above(n) == {m \in S : f[m] > f[n]}
           T == {n \in S : Cardinality(Above(n)) < k}
           rank == [n \in T |-> Cardinality(Above(n))]
<1>1. ASSUME NEW n \in S
      PROVE  IsFiniteSet(Above(n)) /\ Cardinality(Above(n)) \in Nat
  <2>1. Above(n) \in SUBSET S
    OBVIOUS
  <2>2. IsFiniteSet(Above(n))
    BY <2>1, FS_Subset
  <2>3. QED
    BY <2>2, FS_CardinalityType
<1>2. rank \in [T -> 0..(k - 1)]
  <2>1. ASSUME NEW n \in T PROVE Cardinality(Above(n)) \in 0..(k - 1)
    <3>1. n \in S /\ Cardinality(Above(n)) < k
      OBVIOUS
    <3>2. Cardinality(Above(n)) \in Nat
      BY <1>1, <3>1
    <3> HIDE DEF Above
    <3>3. QED
      BY <3>1, <3>2
  <2> HIDE DEF T, Above
  <2>2. QED
    BY <2>1
<1>3. ASSUME NEW a \in T, NEW b \in T, f[a] > f[b]
      PROVE  rank[a] # rank[b]
  <2>1. a \in S /\ b \in S
    OBVIOUS
  <2>2. Above(a) \in SUBSET Above(b) /\ a \in Above(b) /\ a \notin Above(a)
    BY <1>3, <2>1
  <2>3. Above(a) # Above(b)
    BY <2>2
  <2>4. Cardinality(Above(a)) # Cardinality(Above(b))
    <3>1. IsFiniteSet(Above(b))
      BY <1>1, <2>1
    <3> HIDE DEF Above, T
    <3>2. QED
      BY <2>2, <2>3, <3>1, FS_Subset
  <2>5. QED
    BY <2>4
<1>4. \A a, b \in T : a # b => rank[a] # rank[b]
  <2>1. ASSUME NEW a \in T, NEW b \in T, a # b PROVE rank[a] # rank[b]
    <3>1. a \in S /\ b \in S /\ f[a] \in Nat /\ f[b] \in Nat /\ f[a] # f[b]
      BY <2>1
    <3>2. f[a] > f[b] \/ f[b] > f[a]
      BY <3>1
    <3> HIDE DEF rank, T
    <3>3. QED
      BY <3>2, <1>3
  <2>2. QED
    BY <2>1
<1>5. rank \in Injection(T, 0..(k - 1))
  <2> HIDE DEF rank, T
  <2>1. QED
    BY <1>2, <1>4 DEF Injection, IsInjective
<1>6. IsFiniteSet(0..(k - 1)) /\ Cardinality(0..(k - 1)) = k
  BY FS_Interval
<1>7. Cardinality(T) <= Cardinality(0..(k - 1))
  <2> HIDE DEF rank, T
  <2>1. QED
    BY <1>5, <1>6, FS_Injection
<1>8. QED
  BY <1>6, <1>7

(* A prune keeps as many as it should: its own build, and Kept - 1 more.   *)
LEMMA PruneKeeps ==
  ASSUME TypeOK, Stamped, NEW keep \in OnDisk
  PROVE  Cardinality(OnDisk \ Prunable(keep)) <= Kept
<1> DEFINE others == OnDisk \ {keep}
           mtime == [n \in others |-> builds[n].mtime]
           spared == {n \in others : Cardinality({m \in others : mtime[m] > mtime[n]}) < Kept - 1}
<1>0. others \in SUBSET Names /\ IsFiniteSet(others)
  <2>1. others \in SUBSET Names
    BY DEF OnDisk
  <2>2. QED
    BY <2>1, DiskFinite
<1>1. mtime \in [others -> Nat] /\ \A a, b \in others : a # b => mtime[a] # mtime[b]
  <2>1. \A n \in others : n \in Names /\ Exists(n) /\ builds[n] \in Builds
    BY DEF TypeOK, OnDisk, Exists
  <2>2. QED
    BY <2>1 DEF Builds, Stamped
<1>2. Cardinality(spared) <= Kept - 1
  <2> HIDE DEF others, mtime
  <2>1. QED
    BY <1>0, <1>1, KeptType, TopBound
<1>3. \A n \in others : {m \in others : mtime[m] > mtime[n]} = {m \in others : Newer(m, n)}
  BY DEF Newer
<1>4. OnDisk \ Prunable(keep) \subseteq spared \cup {keep}
  <2>1. ASSUME NEW n \in OnDisk, n # keep, n \notin Prunable(keep)
        PROVE  n \in spared
    <3>1. n \in others /\ ~(Cardinality({m \in others : Newer(m, n)}) >= Kept - 1)
      BY <2>1 DEF Prunable
    <3>2. Cardinality({m \in others : mtime[m] > mtime[n]}) < Kept - 1
      <4>1. {m \in others : Newer(m, n)} \in SUBSET Names
        BY <1>0
      <4>2. Cardinality({m \in others : Newer(m, n)}) \in Nat
        BY <4>1, DiskFinite
      <4>3. Cardinality({m \in others : Newer(m, n)}) < Kept - 1
        BY <3>1, <4>2, KeptType
      <4>4. {m \in others : mtime[m] > mtime[n]} = {m \in others : Newer(m, n)}
        BY <1>3, <3>1
      <4> HIDE DEF others, mtime
      <4>5. QED
        BY <4>3, <4>4
    <3>3. QED
      BY <3>1, <3>2
  <2>2. QED
    BY <2>1
<1>5. spared \in SUBSET Names /\ keep \notin spared
  BY <1>0
<1>6. IsFiniteSet(spared) /\ Cardinality(spared) \in Nat
  BY <1>5, DiskFinite
<1>7. IsFiniteSet(spared \cup {keep}) /\ Cardinality(spared \cup {keep}) = Cardinality(spared) + 1
  <2> HIDE DEF spared
  <2>1. QED
    BY <1>5, <1>6, FS_AddElement
<1>8. Cardinality(OnDisk \ Prunable(keep)) <= Cardinality(spared \cup {keep})
  <2> HIDE DEF spared
  <2>1. QED
    BY <1>4, <1>7, FS_Subset
<1>9. OnDisk \ Prunable(keep) \in SUBSET Names
  BY DEF OnDisk
<1>10. QED
  BY <1>2, <1>6, <1>7, <1>8, <1>9, DiskFinite, KeptType

(***************************************************************************)
(* The steps that touch no build.                                          *)
(***************************************************************************)
LEMMA SameDisk ==
  ASSUME StampInv, UNCHANGED <<builds, now, writes>>
  PROVE  /\ Stamped' /\ OnDisk' = OnDisk /\ OfNow' = OfNow /\ Kept' = Kept
         /\ \A n : Exists(n)' = Exists(n) /\ Latest(n)' = Latest(n)
  BY DEF StampInv, Stamped, OnDisk, OfNow, Exists, Latest, Newer, Kept

LEMMA OthersStamped ==
  ASSUME IInv, NEW p \in Procs, Step(p) \/ Crash(p)
  PROVE  \A q \in Procs \ {p} : RunStamp(q)'
  BY OthersIdle DEF RunStamp

(* p was not writing, so the others being idle, nobody was. *)
LEMMA WritingIsMine ==
  ASSUME IInv, NEW p \in Procs, Step(p) \/ Crash(p)
  PROVE  /\ Writing => pc[p] = "write"
         /\ Writing' => pc'[p] = "write"
  BY OthersIdle DEF Writing

LEMMA ReaderStamp ==
  ASSUME StampInv, ReaderStep
  PROVE  StampInv'
<1>1. UNCHANGED <<builds, manifest, pc, cand, cur, name, doomed, now, writes, burst, unpruned>>
  BY DEF ReaderStep, Resolve, Open, Close, storeVars, runVars, clockVars
<1>2. Stamped' /\ Filled' /\ ActiveLatest' /\ RetentionBound'
  BY <1>1, SameDisk DEF StampInv, Filled, Writing, ActiveLatest, RetentionBound
<1>3. \A p \in Procs : RunStamp(p)'
  BY <1>1, SameDisk DEF StampInv, RunStamp
<1>4. QED
  BY <1>2, <1>3 DEF StampInv

LEMMA StartStamp ==
  ASSUME IInv, StampInv, NEW p \in Procs, NEW c \in Contents, Alone(p), Start(p, c)
  PROVE  StampInv'
<1>1. /\ UNCHANGED <<builds, manifest, cur, name, doomed, now, writes, burst, unpruned>>
      /\ pc[p] = "idle" /\ pc' = [pc EXCEPT ![p] = "read"]
  BY DEF Start, Goto, storeVars, clockVars
<1>2. \A q \in Procs : pc[q] = "idle" /\ pc'[q] \in {"idle", "read"}
  BY <1>1 DEF Alone, IInv, TypeOK
<1>3. ~Writing /\ ~Writing'
  BY <1>2 DEF Writing
<1>4. Stamped' /\ Filled' /\ ActiveLatest' /\ RetentionBound'
  BY <1>1, <1>3, SameDisk DEF StampInv, Filled, ActiveLatest, RetentionBound
<1>5. \A q \in Procs : RunStamp(q)'
  BY <1>2 DEF RunStamp
<1>6. QED
  BY <1>4, <1>5 DEF StampInv

(* Steps of a run that leave directory, manifest and clocks alone. *)
LEMMA QuietStamp ==
  ASSUME IInv, StampInv, NEW p \in Procs, Step(p) \/ Crash(p),
         UNCHANGED <<builds, manifest, now, writes, burst>>,
         pc'[p] # "write",
         unpruned' = unpruned \/ (unpruned' = 0 /\ Latest(manifest.name) /\ Cardinality(OnDisk) <= Kept),
         RunStamp(p)'
  PROVE  StampInv'
<1>1. Stamped'
  BY SameDisk
<1>2. Filled'
  <2>1. Cardinality(OfNow) \in Nat
    BY DiskFinite DEF OfNow, OnDisk
  <2>2. ~Writing'
    BY WritingIsMine
  <2>3. Cardinality(OfNow) <= burst
    BY <2>1 DEF StampInv, Filled, IInv, TypeOK
  <2>4. QED
    BY <2>1, <2>2, <2>3, SameDisk DEF Filled
<1>3. ActiveLatest'
  BY SameDisk DEF StampInv, ActiveLatest
<1>4. RetentionBound'
  BY SameDisk, KeptType DEF StampInv, RetentionBound
<1>5. QED
  BY <1>1, <1>2, <1>3, <1>4, OthersStamped DEF StampInv

LEMMA EndStamp ==
  ASSUME IInv, StampInv, NEW p \in Procs, Noop(p) \/ Promoted(p) \/ Crash(p)
  PROVE  StampInv'
<1>1. /\ UNCHANGED <<builds, manifest, now, writes, burst>>
      /\ pc'[p] = "idle"
  BY DEF Noop, Promoted, Crash, Finish, storeVars, clockVars, IInv, TypeOK
<1>2. RunStamp(p)'
  BY <1>1 DEF RunStamp
<1>3. unpruned' = unpruned \/ (unpruned' = 0 /\ Latest(manifest.name) /\ Cardinality(OnDisk) <= Kept)
  <2>1. CASE Promoted(p)
    <3>1. pc[p] = "unlink" /\ doomed[p] = {} /\ unpruned' = 0
      BY <2>1 DEF Promoted
    <3>2. Latest(manifest.name) /\ Cardinality(OnDisk \ {}) <= Kept
      BY <3>1 DEF StampInv, RunStamp
    <3>3. OnDisk \ {} = OnDisk
      OBVIOUS
    <3>4. QED
      BY <3>1, <3>2, <3>3
  <2>2. CASE Noop(p) \/ Crash(p)
    BY <2>2 DEF Noop, Crash
  <2>3. QED
    BY <2>1, <2>2
<1>4. QED
  BY <1>1, <1>2, <1>3, QuietStamp DEF Step

LEMMA ReadStamp ==
  ASSUME IInv, StampInv, NEW p \in Procs, ReadCurrent(p) \/ Proceed(p)
  PROVE  StampInv'
<1>1. /\ UNCHANGED <<builds, manifest, now, writes, burst, unpruned>>
      /\ pc'[p] \in {"compare", "name"} /\ cur'[p] = manifest
  BY DEF ReadCurrent, Proceed, Goto, storeVars, clockVars, IInv, TypeOK, StampInv, RunStamp
<1>2. RunStamp(p)'
  BY <1>1 DEF RunStamp
<1>3. QED
  BY <1>1, <1>2, QuietStamp DEF Step

LEMMA SwapStamp ==
  ASSUME IInv, StampInv, NEW p \in Procs, SwapManifest(p)
  PROVE  StampInv'
<1>1. /\ UNCHANGED <<builds, now, writes, burst, unpruned, name, cur>>
      /\ pc[p] = "swap" /\ pc'[p] = "list"
  BY DEF SwapManifest, Goto, clockVars, IInv, TypeOK
<1>2. /\ name[p] \in Names /\ Latest(name[p]) /\ unpruned > 0
      /\ unpruned = 1 /\ cur[p] # None =>
           /\ Exists(cur[p].name) /\ cur[p].name # name[p]
           /\ builds[cur[p].name].mtime + 1 = writes
  BY <1>1 DEF StampInv, RunStamp
<1>3. RunStamp(p)'
  BY <1>1, <1>2, SameDisk DEF RunStamp
<1>4. Stamped'
  BY <1>1, SameDisk
<1>5. Filled'
  BY <1>1, SameDisk, WritingIsMine DEF Step, StampInv, Filled, Writing
<1>6. ActiveLatest'
  BY <1>1, <1>2 DEF ActiveLatest, IInv, TypeOK
<1>7. RetentionBound'
  BY <1>1, SameDisk DEF StampInv, RetentionBound
<1>8. QED
  BY <1>3, <1>4, <1>5, <1>6, <1>7, OthersStamped DEF StampInv, Step

(***************************************************************************)
(* The steps that move the clocks or the directory.                        *)
(***************************************************************************)
LEMMA NameStamp ==
  ASSUME IInv, StampInv, NEW p \in Procs, ChooseName(p)
  PROVE  StampInv'
<1>1. PICK n \in Names :
        /\ FreeName(n) /\ n[1] >= now
        /\ name' = [name EXCEPT ![p] = n]
        /\ now' = n[1]
        /\ burst' = IF n[1] = now THEN burst + 1 ELSE 1
  BY DEF ChooseName
<1>2. /\ UNCHANGED <<builds, manifest, writes, unpruned, cur>>
      /\ pc[p] = "name" /\ pc'[p] = "write"
      /\ name'[p] = n /\ now' >= now /\ now' \in Nat
      /\ now \in Nat /\ n[1] \in Nat /\ burst \in Nat
  BY <1>1 DEF ChooseName, Goto, storeVars, IInv, TypeOK, Names
<1>3. OnDisk' = OnDisk /\ \A m : Exists(m)' = Exists(m) /\ Latest(m)' = Latest(m)
  BY <1>2 DEF OnDisk, Exists, Latest
<1>4. RunStamp(p)'
  BY <1>1, <1>2 DEF RunStamp, StampInv
<1>5. Stamped'
  <2>1. \A m \in Names : Exists(m) => m[1] \in Nat /\ m[1] <= now
    BY DEF StampInv, Stamped, Names
  <2>2. \A m \in Names : Exists(m) => m[1] <= now'
    BY <1>2, <2>1
  <2>3. QED
    BY <1>2, <1>3, <2>2 DEF StampInv, Stamped, Newer
<1>6. Filled'
  <2>1. ~Writing /\ Writing'
    BY <1>2, WritingIsMine DEF Step, Writing
  <2>2. Cardinality(OfNow) \in Nat
    BY DiskFinite DEF OfNow, OnDisk
  <2>3. CASE n[1] = now
    BY <1>1, <1>2, <1>3, <2>1, <2>2, <2>3 DEF StampInv, Filled, OfNow
  <2>4. CASE n[1] # now
    <3>1. OfNow' = {}
      BY <1>1, <1>2, <1>3, <2>4 DEF OfNow, OnDisk, StampInv, Stamped, Names
    <3>2. QED
      BY <1>1, <2>1, <2>4, <3>1, FS_EmptySet DEF Filled
  <2>5. QED
    BY <2>3, <2>4
<1>7. ActiveLatest' /\ RetentionBound'
  BY <1>2, <1>3 DEF StampInv, ActiveLatest, RetentionBound, Kept
<1>8. QED
  BY <1>4, <1>5, <1>6, <1>7, OthersStamped DEF StampInv, Step

LEMMA WriteStamp ==
  ASSUME IInv, StampInv, NEW p \in Procs, WriteBuild(p)
  PROVE  StampInv'
<1> DEFINE n == name[p]
           b == [content |-> cand[p], mtime |-> writes + 1]
<1>1. /\ n \in Names /\ ~Exists(n) /\ n[1] = now /\ cur[p] = manifest
      /\ cand[p] \in Passing
      /\ pc[p] = "write" /\ pc'[p] = "swap"
      /\ UNCHANGED <<manifest, cur, name, now, burst>>
      /\ writes' = writes + 1 /\ unpruned' = unpruned + 1
      /\ writes \in Nat /\ unpruned \in Nat /\ burst \in Nat
  BY DEF WriteBuild, Goto, IInv, TypeOK, RunInv, StampInv, RunStamp
<1>2. b \in Builds /\ b # None
  BY <1>1, BuildStoreAssumption DEF Builds
<1>3. /\ builds' = [builds EXCEPT ![n] = b]
      /\ builds'[n] = b
      /\ \A m \in Names \ {n} : builds'[m] = builds[m]
  BY <1>1 DEF WriteBuild, IInv, TypeOK
<1> HIDE DEF b
<1>4. /\ Exists(n)' /\ Latest(n)' /\ builds'[n].mtime = writes + 1
      /\ \A m \in Names \ {n} : Exists(m)' = Exists(m)
  BY <1>1, <1>2, <1>3 DEF Exists, Latest, b
<1>5. \A m \in Names : Exists(m) =>
        /\ m # n /\ builds'[m].mtime = builds[m].mtime
        /\ builds[m].mtime \in Nat /\ builds[m].mtime <= writes /\ m[1] <= now
  BY <1>1, <1>3 DEF StampInv, Stamped, IInv, TypeOK, Builds, Exists
<1>6. Stamped'
  <2>1. \A m \in Names : Exists(m)' => builds'[m].mtime <= writes' /\ m[1] <= now'
    BY <1>1, <1>4, <1>5 DEF Names
  <2>2. ASSUME NEW k \in Names, NEW m \in Names, Exists(k)', Exists(m)', k # m
        PROVE  builds'[k].mtime # builds'[m].mtime
    BY <1>1, <1>4, <1>5, <2>2 DEF StampInv, Stamped
  <2>3. ASSUME NEW k \in Names, NEW m \in Names, Exists(k)', Exists(m)', Newer(k, m)'
        PROVE  m[1] <= k[1]
    <3>1. CASE k = n
      BY <1>1, <1>4, <1>5, <2>3, <3>1 DEF Names
    <3>2. CASE k # n /\ m = n
      BY <1>1, <1>4, <1>5, <2>3, <3>2 DEF Newer
    <3>3. CASE k # n /\ m # n
      BY <1>1, <1>4, <1>5, <2>3, <3>3 DEF Newer, StampInv, Stamped
    <3>4. QED
      BY <3>1, <3>2, <3>3
  <2>4. QED
    BY <1>1, <2>1, <2>2, <2>3 DEF Stamped
<1>7. OnDisk' = OnDisk \cup {n} /\ n \notin OnDisk
  BY <1>1, <1>4 DEF OnDisk
<1>8. OfNow' = OfNow \cup {n} /\ n \notin OfNow
  BY <1>1, <1>7 DEF OfNow
<1>9. /\ IsFiniteSet(OnDisk) /\ Cardinality(OnDisk) \in Nat
      /\ IsFiniteSet(OfNow) /\ Cardinality(OfNow) \in Nat
  BY DiskFinite DEF OfNow, OnDisk
<1>10. /\ Cardinality(OnDisk') = Cardinality(OnDisk) + 1
       /\ Cardinality(OfNow') = Cardinality(OfNow) + 1
  BY <1>7, <1>8, <1>9, FS_AddElement
<1>11. Filled'
  <2>1. Writing /\ ~Writing'
    BY <1>1, WritingIsMine DEF Step, Writing
  <2>2. QED
    BY <1>1, <1>9, <1>10, <2>1 DEF StampInv, Filled
<1>12. RetentionBound'
  BY <1>1, <1>9, <1>10, KeptType DEF StampInv, RetentionBound, Kept
<1>13. ActiveLatest'
  BY <1>1 DEF ActiveLatest
<1>14. RunStamp(p)'
  <2>1. ASSUME unpruned' = 1, cur'[p] # None
        PROVE  /\ Exists(cur[p].name)' /\ cur[p].name # n
               /\ builds'[cur[p].name].mtime + 1 = writes'
    <3>1. unpruned = 0 /\ manifest # None /\ cur[p] = manifest
      BY <1>1, <2>1
    <3>2. Exists(manifest.name) /\ builds[manifest.name].mtime = writes
      BY <3>1 DEF StampInv, ActiveLatest, Latest
    <3>3. manifest.name \in Names
      BY <3>1 DEF IInv, TypeOK, Manifests
    <3>4. QED
      BY <1>1, <1>4, <1>5, <3>1, <3>2, <3>3
  <2>2. QED
    BY <1>1, <1>4, <2>1 DEF RunStamp
<1>15. QED
  BY <1>6, <1>11, <1>12, <1>13, <1>14, OthersStamped DEF StampInv, Step

(* The prune of the run that wrote the newest build. *)
LEMMA ListStamp ==
  ASSUME IInv, StampInv, NEW p \in Procs, ListBuilds(p)
  PROVE  StampInv'
<1> DEFINE keep == name[p]
<1>1. /\ UNCHANGED <<builds, manifest, now, writes, burst, unpruned, name, cur>>
      /\ pc[p] = "list" /\ pc'[p] = "unlink"
      /\ doomed'[p] = Prunable(keep)
      /\ manifest # None /\ keep = manifest.name
      /\ keep \in Names /\ Latest(keep) /\ unpruned > 0
  BY DEF ListBuilds, Goto, storeVars, clockVars, IInv, TypeOK, RunInv, StampInv, RunStamp
<1>2. TypeOK /\ Stamped /\ keep \in OnDisk
  BY <1>1 DEF IInv, StampInv, OnDisk, Latest
<1>3. \A m \in OnDisk : m \in Names /\ builds[m].mtime \in Nat /\ builds[m].mtime <= writes
                        /\ m[1] \in Nat /\ m[1] <= now /\ writes \in Nat
  BY <1>2 DEF OnDisk, Exists, TypeOK, Builds, Stamped, Names
<1>4. \A m \in OnDisk \ {keep} : Newer(keep, m)
  <2>1. \A m \in OnDisk \ {keep} : builds[m].mtime # builds[keep].mtime
    BY <1>1, <1>2 DEF Stamped, OnDisk
  <2>2. QED
    BY <1>1, <1>3, <2>1 DEF Newer, Latest
<1>5. ASSUME NEW n \in Prunable(keep), n[1] = now
      PROVE  burst > Kept
  <2> DEFINE newer == {m \in OnDisk \ {keep} : Newer(m, n)}
  <2>1. n \in OnDisk \ {keep} /\ Cardinality(newer) >= Kept - 1
    BY DEF Prunable
  <2>2. \A m \in newer \cup {keep} : m \in OnDisk /\ m[1] = now
    BY <1>2, <1>3, <1>4, <1>5, <2>1 DEF Stamped, OnDisk
  <2>3. n \notin newer /\ keep \notin newer /\ n # keep
    BY <1>3, <2>1 DEF Newer
  <2>4. newer \in SUBSET Names /\ OfNow \in SUBSET Names
    BY DEF OnDisk, OfNow
  <2>5. /\ IsFiniteSet(newer) /\ Cardinality(newer) \in Nat
        /\ IsFiniteSet(OfNow) /\ Cardinality(OfNow) \in Nat
    BY <2>4, DiskFinite
  <2>6. newer \cup {keep} \cup {n} \subseteq OfNow
    BY <1>5, <2>1, <2>2 DEF OfNow
  <2> HIDE DEF newer
  <2>7. Cardinality(newer \cup {keep} \cup {n}) = Cardinality(newer) + 2
    <3>1. /\ IsFiniteSet(newer \cup {keep})
          /\ Cardinality(newer \cup {keep}) = Cardinality(newer) + 1
      BY <2>3, <2>5, FS_AddElement
    <3>2. n \notin newer \cup {keep}
      BY <2>3
    <3>3. Cardinality(newer \cup {keep} \cup {n}) = Cardinality(newer \cup {keep}) + 1
      BY <3>1, <3>2, FS_AddElement
    <3>4. QED
      BY <2>5, <3>1, <3>3
  <2>8. Cardinality(newer) + 2 <= Cardinality(OfNow)
    BY <2>5, <2>6, <2>7, FS_Subset
  <2>9. Cardinality(OfNow) <= burst /\ burst \in Nat
    BY <2>5 DEF StampInv, Filled, IInv, TypeOK
  <2>10. QED
    BY <2>1, <2>5, <2>8, <2>9, KeptType
<1>6. ASSUME cur[p] # None, Kept >= 2, unpruned = 1
      PROVE  Exists(cur[p].name) /\ cur[p].name \notin Prunable(keep)
  <2> DEFINE c == cur[p].name
             newer == {m \in OnDisk \ {keep} : Newer(m, c)}
  <2>1. Exists(c) /\ c # keep /\ builds[c].mtime + 1 = writes
    BY <1>1, <1>6 DEF StampInv, RunStamp
  <2>2. c \in Names
    BY <1>6 DEF IInv, TypeOK, Manifests
  <2>3. newer = {}
    <3>1. ASSUME NEW m \in OnDisk, m # keep, Newer(m, c) PROVE FALSE
      <4>1. builds[m].mtime = writes
        BY <1>3, <2>1, <2>2, <3>1 DEF Newer, OnDisk
      <4>2. QED
        BY <1>1, <1>2, <3>1, <4>1 DEF Stamped, Latest, OnDisk
    <3>2. QED
      BY <3>1
  <2>4. Cardinality(newer) = 0
    BY <2>3, FS_EmptySet
  <2>5. c \in Prunable(keep) => Cardinality(newer) >= Kept - 1
    BY DEF Prunable
  <2> HIDE DEF newer
  <2>6. QED
    BY <1>6, <2>1, <2>4, <2>5, KeptType
<1>7. Cardinality(OnDisk \ Prunable(keep)) <= Kept
  BY <1>2, PruneKeeps
<1>8. RunStamp(p)'
  <2>1. OnDisk' = OnDisk /\ Kept' = Kept /\ \A m : Exists(m)' = Exists(m) /\ Latest(m)' = Latest(m)
    BY <1>1, SameDisk
  <2> HIDE DEF keep
  <2>2. keep = name[p]
    BY DEF keep
  <2>3. QED
    BY <1>1, <1>5, <1>6, <1>7, <2>1, <2>2 DEF RunStamp
<1>9. QED
  BY <1>1, <1>8, QuietStamp DEF Step

LEMMA UnlinkStamp ==
  ASSUME IInv, StampInv, NEW p \in Procs, UnlinkOne(p)
  PROVE  StampInv'
<1>1. PICK n \in doomed[p] :
        /\ builds' = [builds EXCEPT ![n] = None]
        /\ IF Exists(n)
           THEN doomed' = [doomed EXCEPT ![p] = @ \ {n}] /\ UNCHANGED <<pc, cand, cur, name>>
           ELSE Finish(p)
  BY DEF UnlinkOne
<1>2. /\ UNCHANGED <<manifest, now, writes, burst, unpruned>>
      /\ pc[p] = "unlink" /\ n \in Names
      /\ manifest # None /\ manifest.name \in Names /\ n # manifest.name
  BY <1>1 DEF UnlinkOne, clockVars, IInv, TypeOK, RunInv, Manifests
<1>3. /\ ~Exists(n)'
      /\ \A m \in Names \ {n} : builds'[m] = builds[m] /\ Exists(m)' = Exists(m)
  BY <1>1, <1>2 DEF IInv, TypeOK, Exists
<1>4. OnDisk' = OnDisk \ {n} /\ OfNow' = OfNow \ {n}
  BY <1>2, <1>3 DEF OnDisk, OfNow
<1>5. Stamped'
  BY <1>2, <1>3 DEF StampInv, Stamped, Newer
<1>6. /\ IsFiniteSet(OnDisk) /\ Cardinality(OnDisk) \in Nat
      /\ IsFiniteSet(OfNow) /\ Cardinality(OfNow) \in Nat
  BY DiskFinite DEF OfNow, OnDisk
<1>7. /\ Cardinality(OnDisk') <= Cardinality(OnDisk) /\ Cardinality(OnDisk') \in Nat
      /\ Cardinality(OfNow') <= Cardinality(OfNow) /\ Cardinality(OfNow') \in Nat
  <2>1. OnDisk' \subseteq OnDisk /\ OfNow' \subseteq OfNow
    BY <1>4
  <2>2. QED
    BY <1>6, <2>1, FS_Subset, FS_CardinalityType
<1>8. Filled'
  <2>1. ~Writing'
    BY <1>1, <1>2, WritingIsMine DEF Step, Finish, IInv, TypeOK
  <2>2. Cardinality(OfNow) <= burst
    BY <1>6 DEF StampInv, Filled, IInv, TypeOK
  <2>3. QED
    BY <1>2, <1>6, <1>7, <2>1, <2>2 DEF Filled, IInv, TypeOK
<1>9. RetentionBound'
  BY <1>2, <1>6, <1>7, KeptType DEF StampInv, RetentionBound, Kept, IInv, TypeOK
<1>10. ActiveLatest'
  BY <1>2, <1>3 DEF StampInv, ActiveLatest, Latest
<1>11. RunStamp(p)'
  <2>1. CASE ~Exists(n)
    BY <1>1, <2>1 DEF RunStamp, Finish, IInv, TypeOK
  <2>2. CASE Exists(n)
    <3>1. /\ pc'[p] = "unlink" /\ cur' = cur /\ name' = name
          /\ doomed'[p] = doomed[p] \ {n}
      BY <1>1, <1>2, <2>2 DEF IInv, TypeOK
    <3>2. OnDisk' \ doomed'[p] = OnDisk \ doomed[p]
      BY <1>1, <1>4, <3>1
    <3>3. /\ name[p] = manifest.name /\ Latest(name[p]) /\ unpruned > 0
          /\ Cardinality(OnDisk \ doomed[p]) <= Kept
          /\ \A m \in doomed[p] : m[1] = now => burst > Kept
          /\ cur[p] # None /\ Kept >= 2 /\ unpruned = 1 =>
               Exists(cur[p].name) /\ cur[p].name \notin doomed[p]
      BY <1>2 DEF StampInv, RunStamp
    <3>4. Latest(name[p])'
      BY <1>2, <1>3, <3>1, <3>3 DEF Latest
    <3>5. ASSUME cur[p] # None, Kept >= 2, unpruned = 1
          PROVE  Exists(cur[p].name)' /\ cur[p].name \notin doomed'[p]
      <4>1. cur[p].name \in Names /\ cur[p].name # n
        BY <1>1, <3>3, <3>5 DEF IInv, TypeOK, Manifests
      <4>2. QED
        BY <1>3, <3>1, <3>3, <3>5, <4>1
    <3>6. Cardinality(OnDisk' \ doomed'[p]) <= Kept /\ Kept' = Kept
      BY <3>2, <3>3 DEF Kept
    <3>7. \A m \in doomed'[p] : m[1] = now' => burst' > Kept
      BY <1>2, <3>1, <3>3
    <3>8. QED
      BY <1>2, <3>1, <3>3, <3>4, <3>5, <3>6, <3>7 DEF RunStamp
  <2>3. QED
    BY <2>1, <2>2
<1>12. QED
  BY <1>5, <1>8, <1>9, <1>10, <1>11, OthersStamped DEF StampInv, Step

LEMMA StampStep == IInv /\ StampInv /\ [SerialNext]_vars => StampInv'
<1> SUFFICES ASSUME IInv, StampInv, [SerialNext]_vars PROVE StampInv'
  OBVIOUS
<1>1. CASE \E p \in Procs, c \in Contents : Alone(p) /\ Start(p, c)
  BY <1>1, StartStamp
<1>2. ASSUME NEW p \in Procs, Step(p) \/ Crash(p) PROVE StampInv'
  BY <1>2, EndStamp, ReadStamp, SwapStamp, NameStamp, WriteStamp, ListStamp, UnlinkStamp DEF Step
<1>3. CASE ReaderStep
  BY <1>3, ReaderStamp
<1>4. CASE UNCHANGED vars
  <2>1. UNCHANGED <<builds, manifest, now, writes, burst, unpruned, pc, cur, name, doomed>>
    BY <1>4 DEF vars, storeVars, runVars, clockVars
  <2>2. Stamped' /\ Filled' /\ ActiveLatest' /\ RetentionBound'
    BY <2>1, SameDisk DEF StampInv, Filled, Writing, ActiveLatest, RetentionBound
  <2>3. \A p \in Procs : RunStamp(p)'
    BY <2>1, SameDisk DEF StampInv, RunStamp
  <2>4. QED
    BY <2>2, <2>3 DEF StampInv
<1>5. QED
  BY <1>1, <1>2, <1>3, <1>4 DEF SerialNext, Advance

LEMMA StampInductive == SerialSpec => [](IInv /\ StampInv)
<1>1. Init => IInv /\ StampInv
  BY InitInv, InitStamp
<1>2. (IInv /\ StampInv) /\ [SerialNext]_vars => (IInv /\ StampInv)'
  BY InvStep, StampStep
<1>3. QED
  BY <1>1, <1>2, PTL DEF SerialSpec

(* However many runs crash, the directory never holds more than the        *)
(* retained builds and those written since a prune last completed: a prune *)
(* keeps its own build and the Kept - 1 newest others.                     *)
THEOREM RetentionBounded == SerialSpec => []RetentionBound
<1>1. StampInv => RetentionBound
  BY DEF StampInv
<1>2. QED
  BY <1>1, StampInductive, PTL

(* ADR 0002: a prune spares the build that was active when its run began,  *)
(* because that build is the newest after the run's own.                   *)
THEOREM RollbackSpared == SerialSpec => []RollbackKept
<1>1. StampInv => RollbackKept
  BY DEF StampInv, RunStamp, RollbackKept
<1>2. QED
  BY <1>1, StampInductive, PTL

-------------------------------------------------------------------------------

(***************************************************************************)
(* The refinement of ActiveBuild.  A reader may open what it resolved long *)
(* after; it finds the same content there because a name is not taken a    *)
(* second time.  It would be if the builds of one second were so many that *)
(* the prune reached one of them: its name would be free again within the  *)
(* second.  Hence the assumption that no more than Kept + 1 runs take a    *)
(* name in any one second.                                                 *)
(***************************************************************************)
LEMMA PathReader ==
  ASSUME IInv, PathKept, ReaderStep
  PROVE  PathKept'
<1>1. UNCHANGED <<builds, manifest, pc, name, now, burst>>
  BY DEF ReaderStep, Resolve, Open, Close, storeVars, runVars, clockVars
<1>2. PICK r \in Readers : Resolve(r) \/ Open(r) \/ Close(r)
  BY DEF ReaderStep
<1>3. CASE Resolve(r)
  <2>1. /\ path' = [path EXCEPT ![r] = manifest] /\ manifest # None /\ Exists(manifest.name)
        /\ conn[r] = None /\ conn' = conn
    BY <1>3 DEF Resolve, Resolvable
  <2>2. builds[manifest.name].content = manifest.content
    BY <2>1 DEF IInv, ActiveResolvable
  <2>3. path' \in [Readers -> Manifests \cup {None}] /\ path'[r] = manifest
        /\ \A q \in Readers \ {r} : path'[q] = path[q]
    BY <2>1 DEF IInv, TypeOK
  <2>4. ASSUME NEW q \in Readers, path'[q] # None
        PROVE  /\ conn'[q] = None
               /\ IF Exists(path[q].name)' THEN builds'[path'[q].name].content = path'[q].content
                  ELSE Spent(path[q].name)' /\ \A p \in Procs : pc'[p] = "write" => name'[p] # path'[q].name
    <3>1. CASE q = r
      BY <1>1, <2>1, <2>2, <2>3, <3>1 DEF Exists
    <3>2. CASE q # r
      BY <1>1, <2>1, <2>3, <2>4, <3>2 DEF PathKept, Spent, Exists
    <3>3. QED
      BY <3>1, <3>2
  <2>5. QED
    BY <2>4 DEF PathKept
<1>4. CASE Open(r)
  BY <1>1, <1>4 DEF Open, PathKept, Spent, Exists, IInv, TypeOK
<1>5. CASE Close(r)
  BY <1>1, <1>5 DEF Close, PathKept, Spent, Exists
<1>6. QED
  BY <1>2, <1>3, <1>4, <1>5

LEMMA PathRun ==
  ASSUME MaxPerSecond <= Kept + 1, IInv, StampInv, PathKept,
         NEW p \in Procs, Step(p) \/ Crash(p)
  PROVE  PathKept'
<1>0. /\ \A r \in Readers : path[r] # None => path[r].name \in Names
      /\ \A n \in Names : n[1] \in Nat
      /\ now \in Nat /\ burst \in Nat /\ MaxPerSecond \in Nat
  BY BuildStoreAssumption DEF IInv, TypeOK, Manifests, Names
<1>1. \A q \in Procs : pc'[q] = "write" => q = p
  BY OthersIdle
<1>2. CASE \/ ReadCurrent(p) \/ Noop(p) \/ Proceed(p) \/ SwapManifest(p)
           \/ ListBuilds(p) \/ Promoted(p) \/ Crash(p)
  <2>1. UNCHANGED <<builds, path, conn, now, burst>> /\ pc'[p] # "write"
    BY <1>2 DEF ReadCurrent, Noop, Proceed, SwapManifest, ListBuilds, Promoted, Crash,
                Goto, Finish, storeVars, readerVars, clockVars, IInv, TypeOK
  <2>2. QED
    BY <1>1, <2>1 DEF PathKept, Spent, Exists
<1>3. CASE ChooseName(p)
  <2>1. PICK n \in Names :
          /\ n[1] >= now
          /\ n[1] = now => burst < MaxPerSecond
          /\ name' = [name EXCEPT ![p] = n]
          /\ now' = n[1]
          /\ burst' = IF n[1] = now THEN burst + 1 ELSE 1
    BY <1>3 DEF ChooseName
  <2>2. UNCHANGED <<builds, path, conn>> /\ name'[p] = n
    BY <1>3, <2>1 DEF ChooseName, storeVars, readerVars, IInv, TypeOK
  <2>3. ASSUME NEW m \in Names, Spent(m)
        PROVE  Spent(m)' /\ n # m
    BY <1>0, <2>1, <2>2, <2>3 DEF Spent, Exists
  <2>4. QED
    BY <1>0, <1>1, <2>2, <2>3 DEF PathKept, Exists
<1>4. CASE WriteBuild(p)
  <2>1. /\ name[p] \in Names /\ ~Exists(name[p]) /\ pc[p] = "write" /\ pc'[p] # "write"
        /\ UNCHANGED <<path, conn, now, burst>>
        /\ \A m \in Names \ {name[p]} : builds'[m] = builds[m]
    BY <1>4 DEF WriteBuild, IInv, RunInv, TypeOK, Goto, readerVars
  <2>2. \A r \in Readers : path[r] # None => path[r].name # name[p]
    BY <2>1 DEF PathKept
  <2>3. QED
    BY <1>0, <1>1, <2>1, <2>2 DEF PathKept, Spent, Exists
<1>5. CASE UnlinkOne(p)
  <2>1. PICK n \in doomed[p] : builds' = [builds EXCEPT ![n] = None]
    BY <1>5 DEF UnlinkOne
  <2>2. /\ n \in Names /\ pc'[p] # "write" /\ UNCHANGED <<path, conn, now, burst>>
        /\ ~Exists(n)' /\ \A m \in Names \ {n} : builds'[m] = builds[m]
    BY <1>5, <2>1 DEF UnlinkOne, IInv, TypeOK, Finish, readerVars, clockVars, Exists
  <2>3. n[1] = now => burst > Kept
    BY <1>5 DEF UnlinkOne, StampInv, RunStamp
  <2>4. n[1] = now => burst >= MaxPerSecond
    BY <1>0, <2>3, KeptType
  <2>5. Exists(n) => n[1] <= now
    BY <2>2 DEF StampInv, Stamped
  <2>6. Exists(n) => Spent(n)'
    BY <2>2, <2>4, <2>5 DEF Spent
  <2>7. QED
    BY <1>0, <1>1, <2>2, <2>6 DEF PathKept, Spent, Exists
<1>6. QED
  BY <1>2, <1>3, <1>4, <1>5 DEF Step

LEMMA PathStep ==
  ASSUME MaxPerSecond <= Kept + 1
  PROVE  IInv /\ StampInv /\ PathKept /\ [SerialNext]_vars => PathKept'
<1> SUFFICES ASSUME IInv, StampInv, PathKept, [SerialNext]_vars PROVE PathKept'
  OBVIOUS
<1>1. CASE \E p \in Procs, c \in Contents : Alone(p) /\ Start(p, c)
  <2>1. PICK p \in Procs, c \in Contents : Start(p, c)
    BY <1>1
  <2>2. /\ UNCHANGED <<builds, path, conn, now, burst, name>>
        /\ \A q \in Procs : pc'[q] = "write" => pc[q] = "write"
    BY <2>1 DEF Start, Goto, storeVars, readerVars, clockVars, IInv, TypeOK
  <2>3. QED
    BY <2>2 DEF PathKept, Spent, Exists
<1>2. CASE Advance
  BY <1>2, PathRun DEF Advance
<1>3. CASE ReaderStep
  BY <1>3, PathReader
<1>4. CASE UNCHANGED vars
  BY <1>4 DEF vars, storeVars, readerVars, runVars, clockVars, PathKept, Spent, Exists
<1>5. QED
  BY <1>1, <1>2, <1>3, <1>4 DEF SerialNext

LEMMA InitAbstract == Init => Abstract!Init /\ PathKept
  BY DEF Init, Abstract!Init, PathKept

(* What a reader was directed to, in the abstract specification. *)
Directed == [r \in Readers |-> IF path[r] = None THEN None ELSE path[r].content]

LEMMA ReaderAbstract ==
  ASSUME IInv, PathKept, ReaderStep
  PROVE  Abstract!Next
<1> USE BuildStoreAssumption
<1>1. PICK r \in Readers : Resolve(r) \/ Open(r) \/ Close(r)
  BY DEF ReaderStep
<1>2. UNCHANGED manifest /\ path \in [Readers -> Manifests \cup {None}]
  BY <1>1 DEF Resolve, Open, Close, storeVars, IInv, TypeOK
<1>3. CASE Resolve(r)
  <2>1. /\ manifest # None /\ conn[r] = None /\ conn' = conn
        /\ path' = [path EXCEPT ![r] = manifest]
    BY <1>3 DEF Resolve, Resolvable
  <2>2. Directed' = [Directed EXCEPT ![r] = manifest.content]
    BY <1>2, <2>1 DEF Directed
  <2>3. manifest.content # None
    BY <2>1 DEF IInv, TypeOK, Manifests
  <2>4. Abstract!Resolve(r)
    BY <1>2, <2>1, <2>2, <2>3 DEF Abstract!Resolve, Directed
  <2>5. QED
    BY <2>4 DEF Abstract!Next
<1>4. CASE Open(r)
  <2>1. /\ path[r] # None /\ path' = [path EXCEPT ![r] = None]
        /\ conn' = [conn EXCEPT ![r] =
                      IF Exists(path[r].name) THEN builds[path[r].name].content ELSE None]
        /\ conn \in [Readers -> Contents \cup {None}]
    BY <1>4 DEF Open, IInv, TypeOK
  <2>2. Directed' = [Directed EXCEPT ![r] = None]
    BY <1>2, <2>1 DEF Directed
  <2>3. path[r].content # None /\ Directed[r] = path[r].content
    BY <1>2, <2>1 DEF Manifests, Directed
  <2>4. CASE Exists(path[r].name)
    <3>1. conn' = [conn EXCEPT ![r] = Directed[r]]
      BY <2>1, <2>3, <2>4 DEF PathKept
    <3>2. Abstract!Open(r)
      BY <1>2, <2>2, <2>3, <3>1 DEF Abstract!Open, Directed
    <3>3. QED
      BY <3>2 DEF Abstract!Next
  <2>5. CASE ~Exists(path[r].name)
    <3>1. conn' = conn
      BY <2>1, <2>5 DEF PathKept
    <3>2. Abstract!Unavailable(r)
      BY <1>2, <2>2, <3>1 DEF Abstract!Unavailable, Directed
    <3>3. QED
      BY <3>2 DEF Abstract!Next
  <2>6. QED
    BY <2>4, <2>5
<1>5. CASE Close(r)
  <2>1. conn' = [conn EXCEPT ![r] = None] /\ path' = path
    BY <1>5 DEF Close
  <2>2. Abstract!Close(r)
    BY <1>2, <2>1 DEF Abstract!Close
  <2>3. QED
    BY <2>2 DEF Abstract!Next
<1>6. QED
  BY <1>1, <1>3, <1>4, <1>5

(* A run's step is a publication when it swaps the manifest, and invisible *)
(* otherwise.                                                              *)
LEMMA RunAbstract ==
  ASSUME IInv, NEW p \in Procs, Step(p) \/ Crash(p)
  PROVE  [Abstract!Next]_(Abstract!vars)
<1>1. UNCHANGED <<path, conn>>
  BY DEF Step, ReadCurrent, Noop, Proceed, ChooseName, WriteBuild, SwapManifest,
         ListBuilds, UnlinkOne, Promoted, Crash, readerVars
<1>2. CASE SwapManifest(p)
  <2>1. /\ manifest' = [name |-> name[p], content |-> cand[p]]
        /\ name[p] \in Names /\ cand[p] \in Passing
    BY <1>2 DEF SwapManifest, IInv, RunInv
  <2>2. manifest' # None /\ manifest'.content \in Passing
    <3>1. manifest' \in Manifests
      BY <2>1, BuildStoreAssumption DEF Manifests
    <3>2. QED
      BY <2>1, <3>1, BuildStoreAssumption
  <2>3. Abstract!Publish
    BY <1>1, <2>2 DEF Abstract!Publish
  <2>4. QED
    BY <2>3 DEF Abstract!Next
<1>3. CASE ~SwapManifest(p)
  <2>1. manifest' = manifest
    BY <1>3 DEF Step, ReadCurrent, Noop, Proceed, ChooseName, WriteBuild,
                ListBuilds, UnlinkOne, Promoted, Crash, storeVars
  <2>2. QED
    BY <1>1, <2>1 DEF Abstract!vars
<1>4. QED
  BY <1>2, <1>3

LEMMA AbstractStep == IInv /\ PathKept /\ [SerialNext]_vars => [Abstract!Next]_(Abstract!vars)
<1> SUFFICES ASSUME IInv, PathKept, [SerialNext]_vars PROVE [Abstract!Next]_(Abstract!vars)
  OBVIOUS
<1>1. CASE \E p \in Procs, c \in Contents : Alone(p) /\ Start(p, c)
  BY <1>1 DEF Start, storeVars, readerVars, Abstract!vars
<1>2. CASE Advance
  BY <1>2, RunAbstract DEF Advance
<1>3. CASE ReaderStep
  BY <1>3, ReaderAbstract
<1>4. CASE UNCHANGED vars
  BY <1>4 DEF vars, storeVars, readerVars, Abstract!vars
<1>5. QED
  BY <1>1, <1>2, <1>3, <1>4 DEF SerialNext

(* The files, the manifest, the prune and the crashes together are one     *)
(* register that is switched atomically: a server connects to the content  *)
(* that was active when it resolved, or to nothing.                        *)
THEOREM StoreImplementsActiveBuild ==
  ASSUME MaxPerSecond <= Kept + 1
  PROVE  SerialSpec => ImplementsActiveBuild
<1>1. Init => IInv /\ StampInv /\ PathKept /\ Abstract!Init
  BY InitInv, InitStamp, InitAbstract
<1>2. (IInv /\ StampInv /\ PathKept) /\ [SerialNext]_vars => (IInv /\ StampInv /\ PathKept)'
  BY InvStep, StampStep, PathStep
<1>3. IInv /\ PathKept /\ [SerialNext]_vars => [Abstract!Next]_(Abstract!vars)
  BY AbstractStep
<1>4. QED
  BY <1>1, <1>2, <1>3, PTL DEF SerialSpec, ImplementsActiveBuild, Abstract!Spec
================================================================================
