------------------------------ MODULE BuildStore ------------------------------
(***************************************************************************)
(* The immutable builds of data/builds/ and the manifest data/current.json *)
(* (db/promotion.py), the readers that serve from them                     *)
(* (app.ActiveDatabaseProvider, db/connection.py), and the crash of a      *)
(* promoting process between any two of its file-system operations.        *)
(*                                                                         *)
(* A promoting process is one run of `sync`, `import` or                   *)
(* `source purge --rebuild`.  No lock is taken anywhere, so Spec lets runs *)
(* overlap; SerialSpec is the operator who starts a run only when no other *)
(* is under way.  One action is one operation on the shared directory.     *)
(*                                                                         *)
(* Abstractions.  A build is its logical content (what _content_hash       *)
(* tells apart); a file name is the second its run took and the            *)
(* disambiguating suffix; mtimes are a count of writes.  A temp file is    *)
(* invisible to every step (its name does not end in .sqlite), so          *)
(* atomic_write_bytes is the one step its os.replace makes visible.        *)
(***************************************************************************)
EXTENDS Naturals, FiniteSets

CONSTANTS Procs,         \* the runs that promote
          Readers,       \* the server processes
          Contents,      \* logical contents a candidate can have
          Passing,       \* the contents validate_database passes
          Retain,        \* sync.retain_versions
          MaxSecond,     \* bound: the last second the clock reaches
          MaxPerSecond,  \* bound: runs that take a file name in one second
          MaxWrites,     \* bound: builds written in a behaviour
          None           \* no build, no manifest, no connection

Names     == (0..MaxSecond) \X (1..(MaxWrites + 1))
Builds    == [content : Contents, mtime : Nat]
Manifests == [name : Names, content : Contents]

ASSUME BuildStoreAssumption ==
  /\ Passing \subseteq Contents
  /\ Retain \in Nat
  /\ MaxSecond \in Nat
  /\ MaxPerSecond \in Nat
  /\ MaxWrites \in Nat
  /\ None \notin Contents /\ None \notin Names
  /\ None \notin Builds /\ None \notin Manifests

VARIABLES builds,    \* data/builds/: name -> build, or None
          manifest,  \* data/current.json
          now,       \* the wall clock, in seconds
          writes,    \* builds written so far; stamps mtime
          pc,        \* per run: the next operation
          cand,      \* per run: the content of its candidate
          cur,       \* per run: the manifest it read
          name,      \* per run: the file name it took
          doomed,    \* per run: names its prune still has to unlink
          path,      \* per reader: the manifest it resolved and has not opened
          conn,      \* per reader: the content of its open connection
          burst,     \* history: names taken in the current second
          unpruned   \* history: builds written since a prune last completed

storeVars  == <<builds, manifest>>
runVars    == <<pc, cand, cur, name, doomed>>
readerVars == <<path, conn>>
clockVars  == <<now, writes, burst>>
vars == <<storeVars, runVars, readerVars, clockVars, unpruned>>

Phases == {"idle", "read", "compare", "name", "write", "swap", "list", "unlink"}

TypeOK ==
  /\ builds \in [Names -> Builds \cup {None}]
  /\ manifest \in Manifests \cup {None}
  /\ now \in 0..MaxSecond
  /\ writes \in Nat
  /\ pc \in [Procs -> Phases]
  /\ cand \in [Procs -> Contents \cup {None}]
  /\ cur \in [Procs -> Manifests \cup {None}]
  /\ name \in [Procs -> Names \cup {None}]
  /\ doomed \in [Procs -> SUBSET Names]
  /\ path \in [Readers -> Manifests \cup {None}]
  /\ conn \in [Readers -> Contents \cup {None}]
  /\ burst \in Nat
  /\ unpruned \in Nat

Init ==
  /\ builds = [n \in Names |-> None]
  /\ manifest = None
  /\ now = 0
  /\ writes = 0
  /\ pc = [p \in Procs |-> "idle"]
  /\ cand = [p \in Procs |-> None]
  /\ cur = [p \in Procs |-> None]
  /\ name = [p \in Procs |-> None]
  /\ doomed = [p \in Procs |-> {}]
  /\ path = [r \in Readers |-> None]
  /\ conn = [r \in Readers |-> None]
  /\ burst = 0
  /\ unpruned = 0

Exists(n) == builds[n] # None
OnDisk    == {n \in Names : Exists(n)}

(***************************************************************************)
(* promote_candidate                                                       *)
(***************************************************************************)
Goto(p, phase) == pc' = [pc EXCEPT ![p] = phase]

(* The run is over: it returned, raised, or its process died. *)
Finish(p) ==
  /\ pc' = [pc EXCEPT ![p] = "idle"]
  /\ cand' = [cand EXCEPT ![p] = None]
  /\ cur' = [cur EXCEPT ![p] = None]
  /\ name' = [name EXCEPT ![p] = None]
  /\ doomed' = [doomed EXCEPT ![p] = {}]

(* A candidate that did not pass validation raises before any file is read. *)
Admissible(c) == c \in Passing

Start(p, c) ==
  /\ pc[p] = "idle"
  /\ writes < MaxWrites
  /\ Admissible(c)
  /\ cand' = [cand EXCEPT ![p] = c]
  /\ Goto(p, "read")
  /\ UNCHANGED <<storeVars, cur, name, doomed, readerVars, clockVars, unpruned>>

ReadCurrent(p) ==
  /\ pc[p] = "read"
  /\ cur' = [cur EXCEPT ![p] = manifest]
  /\ Goto(p, "compare")
  /\ UNCHANGED <<storeVars, cand, name, doomed, readerVars, clockVars, unpruned>>

(* "Unchanged": same logical content and the active file is still there. *)
Unchanged(p) ==
  /\ cur[p] # None
  /\ cur[p].content = cand[p]
  /\ Exists(cur[p].name)

Noop(p) ==
  /\ pc[p] = "compare"
  /\ Unchanged(p)
  /\ Finish(p)
  /\ UNCHANGED <<storeVars, readerVars, clockVars, unpruned>>

Proceed(p) ==
  /\ pc[p] = "compare"
  /\ ~Unchanged(p)
  /\ Goto(p, "name")
  /\ UNCHANGED <<storeVars, cand, cur, name, doomed, readerVars, clockVars, unpruned>>

(* Slip: the name is the second alone, whatever file already bears it. *)
FreeNameUnchecked(n) == n[2] = 1

(* The first suffix of this second that no file bears. *)
FreeName(n) ==
  /\ ~Exists(n)
  /\ \A k \in 1..(n[2] - 1) : Exists(<<n[1], k>>)

(* Slip: the suffix is counted from zero. *)
ChooseNameFromZero(p) ==
  /\ pc[p] = "name"
  /\ name' = [name EXCEPT ![p] = <<now, 0>>]
  /\ Goto(p, "write")
  /\ UNCHANGED <<storeVars, cand, cur, doomed, readerVars, clockVars, unpruned>>

ChooseName(p) ==
  /\ pc[p] = "name"
  /\ \E n \in Names :
       /\ FreeName(n)
       /\ n[1] >= now
       /\ n[1] = now => burst < MaxPerSecond
       /\ name' = [name EXCEPT ![p] = n]
       /\ now' = n[1]
       /\ burst' = IF n[1] = now THEN burst + 1 ELSE 1
  /\ Goto(p, "write")
  /\ UNCHANGED <<storeVars, cand, cur, doomed, readerVars, writes, unpruned>>

(* Slip: the new bytes replace the file that is active. *)
WriteBuildInPlace(p) ==
  /\ pc[p] = "write"
  /\ LET n == IF manifest = None THEN name[p] ELSE manifest.name
     IN  builds' = [builds EXCEPT ![n] = [content |-> cand[p], mtime |-> writes + 1]]
  /\ writes' = writes + 1
  /\ unpruned' = unpruned + 1
  /\ Goto(p, "swap")
  /\ UNCHANGED <<manifest, cand, cur, name, doomed, readerVars, now, burst>>

(* os.replace of the finished temp file: overwrites whatever bears the name. *)
WriteBuild(p) ==
  /\ pc[p] = "write"
  /\ builds' = [builds EXCEPT ![name[p]] = [content |-> cand[p], mtime |-> writes + 1]]
  /\ writes' = writes + 1
  /\ unpruned' = unpruned + 1
  /\ Goto(p, "swap")
  /\ UNCHANGED <<manifest, cand, cur, name, doomed, readerVars, now, burst>>

SwapManifest(p) ==
  /\ pc[p] = "swap"
  /\ manifest' = [name |-> name[p], content |-> cand[p]]
  /\ Goto(p, "list")
  /\ UNCHANGED <<builds, cand, cur, name, doomed, readerVars, clockVars, unpruned>>

(* max(1, retain_versions) *)
Kept == IF Retain = 0 THEN 1 ELSE Retain

(* Slip: the order of the names, in which a suffixed name precedes the bare *)
(* one of the same second.                                                  *)
NewerByName(m, n) == m[1] > n[1] \/ (m[1] = n[1] /\ m[2] < n[2])

Newer(m, n) == builds[m].mtime > builds[n].mtime

(* Slip: the run's own build is not exempt, and names order the rest. *)
PrunableByName(keep) ==
  {n \in OnDisk : Cardinality({m \in OnDisk : NewerByName(m, n)}) >= Kept}

(* Slip: the run's own build is not counted among the retained ones. *)
PrunableOneMore(keep) ==
  LET others == OnDisk \ {keep}
  IN  {n \in others : Cardinality({m \in others : Newer(m, n)}) >= Kept}

(* Every build but the run's own and the newest of the others. *)
Prunable(keep) ==
  LET others == OnDisk \ {keep}
  IN  {n \in others : Cardinality({m \in others : Newer(m, n)}) >= Kept - 1}

ListBuilds(p) ==
  /\ pc[p] = "list"
  /\ doomed' = [doomed EXCEPT ![p] = Prunable(name[p])]
  /\ Goto(p, "unlink")
  /\ UNCHANGED <<storeVars, cand, cur, name, readerVars, clockVars, unpruned>>

(* The doomed builds go newest first.  One that another run has already    *)
(* removed makes Path.unlink raise, which ends the run.                    *)
UnlinkOne(p) ==
  /\ pc[p] = "unlink"
  /\ \E n \in doomed[p] :
       /\ \A m \in doomed[p] : Exists(m) /\ Exists(n) => ~Newer(m, n)
       /\ builds' = [builds EXCEPT ![n] = None]
       /\ IF Exists(n)
          THEN /\ doomed' = [doomed EXCEPT ![p] = @ \ {n}]
               /\ UNCHANGED <<pc, cand, cur, name>>
          ELSE Finish(p)
  /\ UNCHANGED <<manifest, readerVars, clockVars, unpruned>>

Promoted(p) ==
  /\ pc[p] = "unlink"
  /\ doomed[p] = {}
  /\ unpruned' = 0
  /\ Finish(p)
  /\ UNCHANGED <<storeVars, readerVars, clockVars>>

(* The process dies: locals are gone, files stay as they are. *)
Crash(p) ==
  /\ pc[p] # "idle"
  /\ Finish(p)
  /\ UNCHANGED <<storeVars, readerVars, clockVars, unpruned>>

Step(p) ==
  \/ ReadCurrent(p) \/ Noop(p) \/ Proceed(p) \/ ChooseName(p)
  \/ WriteBuild(p) \/ SwapManifest(p)
  \/ ListBuilds(p) \/ UnlinkOne(p) \/ Promoted(p)

(***************************************************************************)
(* ActiveDatabaseProvider: resolve current.json once, then open what it    *)
(* named and hold the connection (an open descriptor survives an unlink).  *)
(* path keeps the whole manifest; its content field is history only.       *)
(***************************************************************************)
Resolvable == manifest # None /\ Exists(manifest.name)

Resolve(r) ==
  /\ conn[r] = None
  /\ path[r] = None
  /\ Resolvable
  /\ path' = [path EXCEPT ![r] = manifest]
  /\ UNCHANGED <<storeVars, runVars, conn, clockVars, unpruned>>

(* Slip: a path that turns out to be gone stays cached. *)
OpenCachesPath(r) ==
  /\ path[r] # None
  /\ Exists(path[r].name)
  /\ conn' = [conn EXCEPT ![r] = builds[path[r].name].content]
  /\ path' = [path EXCEPT ![r] = None]
  /\ UNCHANGED <<storeVars, runVars, clockVars, unpruned>>

(* A file pruned since it was resolved raises DatabaseUnavailable, and the *)
(* next tool call resolves again.                                          *)
Open(r) ==
  /\ path[r] # None
  /\ conn' = [conn EXCEPT ![r] =
                IF Exists(path[r].name) THEN builds[path[r].name].content ELSE None]
  /\ path' = [path EXCEPT ![r] = None]
  /\ UNCHANGED <<storeVars, runVars, clockVars, unpruned>>

(* Shutdown closes the connection; a restarted server starts unresolved. *)
Close(r) ==
  /\ conn[r] # None
  /\ conn' = [conn EXCEPT ![r] = None]
  /\ UNCHANGED <<storeVars, runVars, path, clockVars, unpruned>>

ReaderStep == \E r \in Readers : Resolve(r) \/ Open(r) \/ Close(r)

(***************************************************************************)
(* Runs that may overlap, and runs one at a time.                          *)
(***************************************************************************)
Alone(p) == \A q \in Procs \ {p} : pc[q] = "idle"

Advance == \E p \in Procs : Step(p) \/ Crash(p)

Next ==
  \/ \E p \in Procs, c \in Contents : Start(p, c)
  \/ Advance
  \/ ReaderStep

SerialNext ==
  \/ \E p \in Procs, c \in Contents : Alone(p) /\ Start(p, c)
  \/ Advance
  \/ ReaderStep

Spec       == Init /\ [][Next]_vars
SerialSpec == Init /\ [][SerialNext]_vars

(* A client keeps calling tools, so a server that is not connected keeps   *)
(* resolving and opening; nothing is assumed of the runs.                  *)
FairSerialSpec ==
  SerialSpec /\ \A r \in Readers : WF_vars(Resolve(r)) /\ WF_vars(Open(r))

(***************************************************************************)
(* Properties                                                              *)
(***************************************************************************)

(* ADR 0002: whatever instant a server starts at, including after a crash  *)
(* in the middle of a run, a promoted manifest names a build that is on    *)
(* disk and holds the validated content the manifest was written for.      *)
ActiveResolvable ==
  manifest # None =>
    /\ Exists(manifest.name)
    /\ builds[manifest.name].content = manifest.content
    /\ manifest.content \in Passing

(* promotion.py: a build is only ever removed, never edited or replaced -  *)
(* not even by a run that takes its name in the same second.               *)
BuildsImmutable ==
  [][\A n \in Names : Exists(n) => builds'[n] \in {builds[n], None}]_builds

(* Retention: however many runs crash, the directory never holds more than *)
(* the retained builds and those written since a prune last completed.     *)
RetentionBound == Cardinality(OnDisk) <= Kept + unpruned

(* ADR 0002, "Rollback = repoint current.json": when two or more versions  *)
(* are retained, a prune spares the build that was active when its run     *)
(* began - unless a run that died after writing its build left that build  *)
(* behind, which the prune counts as a newer version.                      *)
RollbackKept ==
  \A p \in Procs :
    (pc[p] = "unlink" /\ cur[p] # None /\ Kept >= 2 /\ unpruned = 1)
      => Exists(cur[p].name) /\ cur[p].name \notin doomed[p]

(* Readers see the store as one register that is switched atomically.      *)
Abstract == INSTANCE ActiveBuild WITH
  active   <- IF manifest = None THEN None ELSE manifest.content,
  resolved <- [r \in Readers |-> IF path[r] = None THEN None ELSE path[r].content],
  conn     <- conn
ImplementsActiveBuild == Abstract!Spec

(* Once anything has been promoted, a server that is asked again and again *)
(* connects, although a prune can unlink the build between its resolution  *)
(* and its open.                                                           *)
ReaderConnects ==
  \A r \in Readers : (manifest # None /\ conn[r] = None) ~> (conn[r] # None)
===============================================================================
