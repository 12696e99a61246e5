----------------------------- MODULE SourceAdmin -----------------------------
(***************************************************************************)
(* The administration of data sources: `source enable`, `source disable`   *)
(* and `source purge --rebuild` (cli/source.py, db/purge.py), the `sync`   *)
(* and `import` runs that bring rows in (cli/sync.py, cli/import_.py,      *)
(* cli/_shared.py), and the three files they share: the machine registry   *)
(* with its kill switches, the policy-event journal, and the active build. *)
(*                                                                         *)
(* An action is one operation on a shared file, with the local work up to  *)
(* the next one.  A process may die between any two.  No lock is taken, so *)
(* Next lets runs overlap; SerialSpec is the operator who runs one command *)
(* at a time.                                                              *)
(*                                                                         *)
(* Abstractions.  A build is the version each source's rows were taken     *)
(* from (0: no rows) and its source_policy_events table; an event is its   *)
(* source and type.  Promotion is one step: BuildStore has its file-system *)
(* operations.  A candidate that fails its build, its ride-alongs' core or *)
(* its validation ends the run; which one did is not told apart.           *)
(***************************************************************************)
EXTENDS Naturals, FiniteSets, Sequences

CONSTANTS Procs,          \* command-line runs
          GameSources,    \* sources of game data: the primary one, the local one
          DropSources,    \* sources of drop rates, which ride along with a sync
          NoticeSources,  \* sources of announcements, which ride along too
          Primary,        \* the source `sync` stages
          Local,          \* the source `import` reads
          MaxVersion,     \* bound: versions of a source's upstream data
          MaxEvents,      \* bound: events journaled
          None            \* no build, no command

Sources == GameSources \cup DropSources \cup NoticeSources

ASSUME SourceAdminAssumption ==
  /\ Primary \in GameSources /\ Local \in GameSources
  /\ GameSources \cap DropSources = {}
  /\ NoticeSources \cap (GameSources \cup DropSources) = {}
  /\ MaxVersion \in Nat /\ MaxEvents \in Nat
  /\ None \notin Sources

Events == [source : Sources, type : {"enable", "disable", "purge"}]
Builds == [snaps : [Sources -> 0..MaxVersion], events : Seq(Events)]
Ops    == {"enable", "disable", "purge", "sync", "import"}

ASSUME NoneIsNoBuild == None \notin Builds

VARIABLES enabled,  \* the machine registry: each source's kill switch
          journal,  \* data/policy_events.jsonl
          active,   \* the build current.json names
          pc,       \* per run: the next operation
          op,       \* per run: its command
          target,   \* per run: the source it names
          loaded,   \* per run: the registry it loaded when it started
          text,     \* per run: the registry file as set_source_enabled read it
          base,     \* per run: the active build a purge resolved
          history,  \* per run: the events it will materialize
          cand,     \* per run: its validated candidate
          torn      \* history: per source, the flips since its last event whose
                    \* runs died before they journaled them: none, odd or even

filesVars == <<enabled, journal, active>>
localVars == <<op, target, loaded, text, base, history, cand>>
vars == <<filesVars, pc, localVars, torn>>

Phases == {"idle", "edit", "flip", "record", "history", "build", "promote", "journal"}

TypeOK ==
  /\ enabled \in [Sources -> BOOLEAN]
  /\ journal \in Seq(Events)
  /\ active \in Builds \cup {None}
  /\ pc \in [Procs -> Phases]
  /\ op \in [Procs -> Ops \cup {None}]
  /\ target \in [Procs -> Sources \cup {None}]
  /\ loaded \in [Procs -> [Sources -> BOOLEAN]]
  /\ text \in [Procs -> [Sources -> BOOLEAN]]
  /\ base \in [Procs -> Builds \cup {None}]
  /\ history \in [Procs -> Seq(Events)]
  /\ cand \in [Procs -> Builds \cup {None}]
  /\ torn \in [Sources -> {"none", "odd", "even"}]

AllOff == [s \in Sources |-> FALSE]

Init ==
  /\ enabled \in [Sources -> BOOLEAN]
  /\ journal = <<>>
  /\ active = None
  /\ pc = [p \in Procs |-> "idle"]
  /\ op = [p \in Procs |-> None]
  /\ target = [p \in Procs |-> None]
  /\ loaded = [p \in Procs |-> AllOff]
  /\ text = [p \in Procs |-> AllOff]
  /\ base = [p \in Procs |-> None]
  /\ history = [p \in Procs |-> <<>>]
  /\ cand = [p \in Procs |-> None]
  /\ torn = [s \in Sources |-> "none"]

Goto(p, phase) == pc' = [pc EXCEPT ![p] = phase]

(* The command is over: locals are gone. *)
Finish(p) ==
  /\ Goto(p, "idle")
  /\ op' = [op EXCEPT ![p] = None]
  /\ target' = [target EXCEPT ![p] = None]
  /\ loaded' = [loaded EXCEPT ![p] = AllOff]
  /\ text' = [text EXCEPT ![p] = AllOff]
  /\ base' = [base EXCEPT ![p] = None]
  /\ history' = [history EXCEPT ![p] = <<>>]
  /\ cand' = [cand EXCEPT ![p] = None]

Rows(b) == IF b = None THEN {} ELSE {s \in Sources : b.snaps[s] > 0}

(***************************************************************************)
(* Starting a command                                                      *)
(***************************************************************************)
Launch(p, o, s, phase) ==
  /\ pc[p] = "idle"
  /\ op' = [op EXCEPT ![p] = o]
  /\ target' = [target EXCEPT ![p] = s]
  /\ loaded' = [loaded EXCEPT ![p] = enabled]
  /\ Goto(p, phase)
  /\ UNCHANGED <<filesVars, text, history, cand, torn>>

StartToggle(p, s) ==
  /\ \E o \in {"enable", "disable"} : Launch(p, o, s, "edit")
  /\ UNCHANGED base

(* A purge resolves the active build before it touches the registry. *)
StartPurge(p, s) ==
  /\ active # None
  /\ Launch(p, "purge", s, "edit")
  /\ base' = [base EXCEPT ![p] = active]

StartBuild(p) ==
  /\ \/ enabled[Primary] /\ Launch(p, "sync", Primary, "history")
     \/ enabled[Local] /\ Launch(p, "import", Local, "history")
  /\ UNCHANGED base

(***************************************************************************)
(* set_source_enabled and append_event                                     *)
(***************************************************************************)
Wanted(p) == op[p] = "enable"

(* The file is read whole.  A switch already in position needs no edit and *)
(* leaves no event; a toggle is then over.                                 *)
ReadRegistry(p) ==
  /\ pc[p] = "edit"
  /\ \/ /\ enabled[target[p]] # Wanted(p)
        /\ text' = [text EXCEPT ![p] = enabled]
        /\ Goto(p, "flip")
        /\ UNCHANGED <<op, target, loaded, base, history, cand>>
     \/ /\ enabled[target[p]] = Wanted(p)
        /\ op[p] = "purge"
        /\ Goto(p, "history")
        /\ UNCHANGED localVars
     \/ /\ enabled[target[p]] = Wanted(p)
        /\ op[p] # "purge"
        /\ Finish(p)
  /\ UNCHANGED <<filesVars, torn>>

(* The file is replaced whole, with the one line edited. *)
FlipSwitch(p) ==
  /\ pc[p] = "flip"
  /\ enabled' = [text[p] EXCEPT ![target[p]] = Wanted(p)]
  /\ Goto(p, "record")
  /\ UNCHANGED <<journal, active, localVars, torn>>

(* Slip: a takedown is journaled under a type the event table refuses. *)
EventOfTakedown(s, t) ==
  [source |-> s, type |-> IF t = "purge" THEN "takedown" ELSE t]

EventOf(s, t) == [source |-> s, type |-> t]

(* Slip: the takedown's own disable is not journaled. *)
RecordToggleOnly(p) ==
  /\ pc[p] = "record"
  /\ Len(journal) < MaxEvents
  /\ IF op[p] = "purge"
     THEN /\ Goto(p, "history")
          /\ UNCHANGED <<journal, localVars>>
     ELSE /\ journal' = Append(journal, EventOf(target[p], op[p]))
          /\ Finish(p)
  /\ torn' = [torn EXCEPT ![target[p]] = "none"]
  /\ UNCHANGED <<enabled, active>>

RecordToggle(p) ==
  /\ pc[p] = "record"
  /\ Len(journal) < MaxEvents
  /\ IF op[p] = "purge"
     THEN /\ journal' = Append(journal, EventOf(target[p], "disable"))
          /\ Goto(p, "history")
          /\ UNCHANGED localVars
     ELSE /\ journal' = Append(journal, EventOf(target[p], op[p]))
          /\ Finish(p)
  /\ torn' = [torn EXCEPT ![target[p]] = "none"]
  /\ UNCHANGED <<enabled, active>>

(***************************************************************************)
(* Building a candidate                                                    *)
(***************************************************************************)
(* The events to materialize: the journal, and for a purge its own event,  *)
(* which is journaled only once the rebuild is promoted.                   *)
ReadHistory(p) ==
  /\ pc[p] = "history"
  /\ history' = [history EXCEPT ![p] =
                   IF op[p] = "purge"
                   THEN Append(journal, EventOf(target[p], "purge")) ELSE journal]
  /\ Goto(p, "build")
  /\ UNCHANGED <<filesVars, op, target, loaded, text, base, cand, torn>>

(* Slip: the rows inherited from the copied build stay in the table. *)
MaterializedOnto(b, events) == (IF b = None THEN <<>> ELSE b.events) \o events

(* materialize_policy_events clears the table first. *)
Materialized(b, events) == events

(* Slip: a ride-along source is imported whatever its switch says. *)
RidesUngated(p) == DropSources \cup NoticeSources

(* The ride-along sources that were enabled when the run loaded the        *)
(* registry; each is imported or, failing open, left out.                  *)
Rides(p) == {s \in DropSources \cup NoticeSources : loaded[p][s]}

BuildCandidate(p) ==
  /\ pc[p] = "build"
  /\ op[p] # "purge"
  /\ \E snaps \in [Sources -> 0..MaxVersion] :
       /\ snaps[target[p]] > 0
       /\ \A s \in Sources \ {target[p]} :
            snaps[s] > 0 => op[p] = "sync" /\ s \in Rides(p)
       /\ cand' = [cand EXCEPT ![p] =
                     [snaps |-> snaps, events |-> Materialized(None, history[p])]]
  /\ Goto(p, "promote")
  /\ UNCHANGED <<filesVars, op, target, loaded, text, base, history, torn>>

(* What each kind of source feeds (migrations 0002-0021), what the cascade *)
(* of _purge_source_rows deletes, and the one reference that crosses       *)
(* sources: a drop refers to the stage it was observed on.                 *)
Tables(s) ==
  CASE s \in GameSources -> {"enemies", "zones", "stages", "operators", "skills",
                             "modules", "banners", "operator_skins", "base_skills", "ranges"}
    [] s \in DropSources -> {"items", "stage_drops"}
    [] OTHER             -> {"announcements"}

Cascade == {"enemies", "zones", "stages", "operators", "skills", "modules",
            "banners", "operator_skins", "base_skills", "ranges"}

(* Rows of another source refer to rows of s in b. *)
Shared(b, s) == s \in GameSources /\ \E d \in DropSources : b.snaps[d] > 0

(* Some row still refers to one the cascade deletes: to the provenance of  *)
(* s from a table the cascade leaves out, or from another source.          *)
ForeignKeyFails(b, s) ==
  b.snaps[s] > 0 /\ (~(Tables(s) \subseteq Cascade) \/ Shared(b, s))

(* Slip: a delete is skipped, not refused, when another row refers to it. *)
PurgeCopyKeepsShared(p) ==
  /\ pc[p] = "build"
  /\ op[p] = "purge"
  /\ cand' = [cand EXCEPT ![p] =
                [snaps  |-> IF ForeignKeyFails(base[p], target[p]) THEN base[p].snaps
                            ELSE [base[p].snaps EXCEPT ![target[p]] = 0],
                 events |-> Materialized(base[p], history[p])]]
  /\ Goto(p, "promote")
  /\ UNCHANGED <<filesVars, op, target, loaded, text, base, history, torn>>

PurgeCopy(p) ==
  /\ pc[p] = "build"
  /\ op[p] = "purge"
  /\ ~ForeignKeyFails(base[p], target[p])
  /\ cand' = [cand EXCEPT ![p] =
                [snaps  |-> [base[p].snaps EXCEPT ![target[p]] = 0],
                 events |-> Materialized(base[p], history[p])]]
  /\ Goto(p, "promote")
  /\ UNCHANGED <<filesVars, op, target, loaded, text, base, history, torn>>

(* Slip: a candidate that failed is reported as if it had been promoted. *)
BuildFailsQuietly(p) ==
  /\ pc[p] = "build"
  /\ IF op[p] = "purge"
     THEN Goto(p, "journal") /\ UNCHANGED localVars
     ELSE Finish(p)
  /\ UNCHANGED <<filesVars, torn>>

(* Staging, the build, the copy (its file may have been pruned), the       *)
(* deletes or the validation failed: the active build stays.               *)
BuildFails(p) ==
  /\ pc[p] = "build"
  /\ Finish(p)
  /\ UNCHANGED <<filesVars, torn>>

(***************************************************************************)
(* promote_candidate, and what a purge does after it                       *)
(***************************************************************************)
(* _content_hash: the snapshots, not the policy events. *)
SameContent(b, c) == b # None /\ b.snaps = c.snaps

Promote(p) ==
  /\ pc[p] = "promote"
  /\ active' = IF SameContent(active, cand[p]) THEN active ELSE cand[p]
  /\ IF op[p] = "purge"
     THEN Goto(p, "journal") /\ UNCHANGED localVars
     ELSE Finish(p)
  /\ UNCHANGED <<enabled, journal, torn>>

JournalPurge(p) ==
  /\ pc[p] = "journal"
  /\ Len(journal) < MaxEvents
  /\ journal' = Append(journal, EventOf(target[p], "purge"))
  /\ torn' = [torn EXCEPT ![target[p]] = "none"]
  /\ Finish(p)
  /\ UNCHANGED <<enabled, active>>

OneMore(flips) == IF flips = "odd" THEN "even" ELSE "odd"

(* The process dies, or an operation on a file raises. *)
Crash(p) ==
  /\ pc[p] # "idle"
  /\ torn' = IF pc[p] = "record" THEN [torn EXCEPT ![target[p]] = OneMore(@)] ELSE torn
  /\ Finish(p)
  /\ UNCHANGED filesVars

Start(p) == StartBuild(p) \/ \E s \in Sources : StartToggle(p, s) \/ StartPurge(p, s)

Step(p) ==
  \/ ReadRegistry(p) \/ FlipSwitch(p) \/ RecordToggle(p) \/ ReadHistory(p)
  \/ BuildCandidate(p) \/ PurgeCopy(p) \/ BuildFails(p)
  \/ Promote(p) \/ JournalPurge(p) \/ Crash(p)

Alone(p) == \A q \in Procs \ {p} : pc[q] = "idle"

Next       == \E p \in Procs : Start(p) \/ Step(p)
SerialNext == \E p \in Procs : (Alone(p) /\ Start(p)) \/ Step(p)

Spec       == Init /\ [][Next]_vars
SerialSpec == Init /\ [][SerialNext]_vars

(***************************************************************************)
(* Properties                                                              *)
(***************************************************************************)
LastEvent(s, t) ==
  \E i \in 1..Len(journal) :
    /\ journal[i] = EventOf(s, t)
    /\ \A j \in (i + 1)..Len(journal) : journal[j].source # s

(* A run has flipped the switch of s and has yet to journal it. *)
Flipping(s) == \E p \in Procs : pc[p] = "record" /\ target[p] = s

(* The flips of s since its last event that have none of their own.        *)
Unjournaled(s) == IF Flipping(s) THEN OneMore(torn[s]) ELSE torn[s]

(* cli/source.py: a command flips the switch, then journals it.  A run that *)
(* dies between the two loses its event for good, since repeating it finds *)
(* the switch in position; but it loses that one event and no more.  So    *)
(* the last event of a source, turned over once for every flip since that  *)
(* has no event, always says where the switch is, and the next action that *)
(* completes sets the journal right.                                       *)
JournalAgrees ==
  \A s \in Sources : LET turned == Unjournaled(s) = "odd" IN
    /\ LastEvent(s, "enable") => enabled[s] = ~turned
    /\ LastEvent(s, "disable") \/ LastEvent(s, "purge") => enabled[s] = turned

(* M5, "must not leave a phantom purge in the operational journal": a purge *)
(* is journaled only when the active build holds no row of the source,     *)
(* whether its rebuild was promoted or found nothing to change.            *)
NoPhantomPurge ==
  [][\A s \in Sources :
       journal' = Append(journal, EventOf(s, "purge")) => s \notin Rows(active)]_journal

(* M6, "so a later `sync` cannot repopulate the purged source": rows of a  *)
(* source enter the active build only while its switch is on.              *)
NoRowsWhileDisabled ==
  [][\A s \in Sources : s \in Rows(active') \ Rows(active) => enabled[s]]_active

(* A takedown holds: from its purge event to the next flip of its switch,  *)
(* the active build holds no row of the source, whatever is synced,        *)
(* imported, purged or cut short meanwhile.                                *)
TakedownHolds ==
  \A s \in Sources :
    LastEvent(s, "purge") /\ Unjournaled(s) = "none" => s \notin Rows(active)

Prefix(s, t) == Len(s) <= Len(t) /\ \A i \in 1..Len(s) : s[i] = t[i]

(* policy_events.py: the event table of the active build is the journal as *)
(* it stood when the build was made, plus the event of the purge that made *)
(* it; nothing is duplicated from the build it was copied from, and an     *)
(* event that only the build knows (the run died before journaling it) is  *)
(* a purge that did happen.                                                *)
BuildHistory ==
  active # None =>
    LET e == active.events
        n == Len(e)
    IN  \/ Prefix(e, journal)
        \/ /\ n > 0 /\ e[n].type = "purge" /\ e[n].source \notin Rows(active)
           /\ Prefix(SubSeq(e, 1, n - 1), journal)

(* TAKEDOWN_POLICY.md: every action is recorded as a source_policy_events  *)
(* row.  When a purge completes, the build it leaves active holds its event *)
(* - and it does not when the rebuild changed nothing, for promotion then  *)
(* discards the candidate, event table included.                           *)
PurgeRecorded ==
  [][\A s \in Sources :
       journal' = Append(journal, EventOf(s, "purge"))
         => \E i \in 1..Len(active.events) : active.events[i] = EventOf(s, "purge")]_journal

(* THREAT_MODEL.md P3, "`purge --rebuild` cascade-deletes attributable     *)
(* rows across all domains": a source whose rows no other source refers to *)
(* can be purged.                                                          *)
CascadeComplete ==
  \A p \in Procs :
    (pc[p] = "build" /\ op[p] = "purge" /\ ~Shared(base[p], target[p]))
      => ~ForeignKeyFails(base[p], target[p])
==============================================================================
