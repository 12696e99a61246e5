--------------------------- MODULE SourceAdmin_proofs ---------------------------
(***************************************************************************)
(* Theorems about SourceAdmin for every set of sources, every number of    *)
(* versions and every bound on events.  Types and the history of the       *)
(* active build hold however runs overlap; the others are about            *)
(* SerialSpec, one command at a time, each of which may die between any    *)
(* two of its operations.                                                  *)
(***************************************************************************)
EXTENDS SourceAdmin, TLAPS

(* What a run has set by the time it reaches each phase. *)
Holds(p) ==
  /\ pc[p] # "idle" => target[p] \in Sources /\ op[p] \in Ops
  /\ pc[p] \in {"edit", "flip", "record"} => op[p] \in {"enable", "disable", "purge"}
  /\ pc[p] = "journal" => op[p] = "purge"
  /\ pc[p] # "idle" /\ op[p] = "purge" => base[p] \in Builds
  /\ pc[p] = "promote" => cand[p] \in Builds

TypeInv == TypeOK /\ \A p \in Procs : Holds(p)

-------------------------------------------------------------------------------

LEMMA AllOffType == AllOff \in [Sources -> BOOLEAN]
  BY DEF AllOff

LEMMA EventType ==
  ASSUME NEW s \in Sources, NEW t \in {"enable", "disable", "purge"}
  PROVE  EventOf(s, t) \in Events
  BY DEF EventOf, Events

LEMMA FinishType ==
  ASSUME TypeInv, NEW p \in Procs, Finish(p),
         journal' \in Seq(Events), active' \in Builds \cup {None},
         enabled' \in [Sources -> BOOLEAN], torn' \in [Sources -> {"none", "odd", "even"}]
  PROVE  TypeInv'
<1>1. TypeOK'
  BY AllOffType DEF TypeInv, TypeOK, Finish, Goto, Phases
<1>2. ASSUME NEW q \in Procs PROVE Holds(q)'
  BY DEF TypeInv, TypeOK, Holds, Finish, Goto
<1>3. QED
  BY <1>1, <1>2 DEF TypeInv

LEMMA LaunchType ==
  ASSUME TypeInv, NEW p \in Procs, NEW s \in Sources, NEW o \in Ops,
         NEW ph \in {"edit", "history"}, Launch(p, o, s, ph),
         ph = "edit" => o \in {"enable", "disable", "purge"},
         base' \in [Procs -> Builds \cup {None}], o = "purge" => base'[p] \in Builds,
         \A q \in Procs \ {p} : base'[q] = base[q]
  PROVE  TypeInv'
<1>1. TypeOK'
  BY DEF TypeInv, TypeOK, Launch, Goto, filesVars, Phases
<1>2. ASSUME NEW q \in Procs PROVE Holds(q)'
  <2>1. CASE q = p
    BY <2>1 DEF TypeInv, TypeOK, Holds, Launch, Goto, filesVars
  <2>2. CASE q # p
    BY <2>2 DEF TypeInv, TypeOK, Holds, Launch, Goto, filesVars
  <2>3. QED
    BY <2>1, <2>2
<1>3. QED
  BY <1>1, <1>2 DEF TypeInv

LEMMA StartKeepsType ==
  ASSUME TypeInv, NEW p \in Procs, Start(p)
  PROVE  TypeInv'
<1>1. CASE StartBuild(p)
  <2>1. Primary \in Sources /\ Local \in Sources
    BY SourceAdminAssumption DEF Sources
  <2>2. base' = base
    BY <1>1 DEF StartBuild
  <2>3. CASE Launch(p, "sync", Primary, "history")
    BY <2>1, <2>2, <2>3, LaunchType DEF Ops, TypeInv, TypeOK
  <2>4. CASE Launch(p, "import", Local, "history")
    BY <2>1, <2>2, <2>4, LaunchType DEF Ops, TypeInv, TypeOK
  <2>5. QED
    BY <1>1, <2>3, <2>4 DEF StartBuild
<1>2. ASSUME NEW s \in Sources, StartToggle(p, s) PROVE TypeInv'
  <2>1. PICK o \in {"enable", "disable"} : Launch(p, o, s, "edit")
    BY <1>2 DEF StartToggle
  <2>2. base' = base
    BY <1>2 DEF StartToggle
  <2>3. QED
    BY <2>1, <2>2, LaunchType DEF Ops, TypeInv, TypeOK
<1>3. ASSUME NEW s \in Sources, StartPurge(p, s) PROVE TypeInv'
  <2>1. Launch(p, "purge", s, "edit") /\ base' = [base EXCEPT ![p] = active] /\ active \in Builds
    BY <1>3 DEF StartPurge, TypeInv, TypeOK
  <2>2. /\ base' \in [Procs -> Builds \cup {None}]
        /\ base'[p] \in Builds
        /\ \A q \in Procs \ {p} : base'[q] = base[q]
    BY <2>1 DEF TypeInv, TypeOK
  <2>3. QED
    BY <2>1, <2>2, LaunchType DEF Ops
<1>4. QED
  BY <1>1, <1>2, <1>3 DEF Start

LEMMA StepKeepsType ==
  ASSUME TypeInv, NEW p \in Procs, Step(p)
  PROVE  TypeInv'
<1> USE DEF Goto, filesVars, localVars
<1>0. /\ journal \in Seq(Events) /\ active \in Builds \cup {None}
      /\ enabled \in [Sources -> BOOLEAN] /\ torn \in [Sources -> {"none", "odd", "even"}]
      /\ Holds(p)
  BY DEF TypeInv, TypeOK
<1>1. CASE ReadRegistry(p)
  <2>1. CASE Finish(p)
    BY <1>0, <1>1, <2>1, FinishType DEF ReadRegistry
  <2>2. CASE pc' = [pc EXCEPT ![p] = "flip"] /\ text' = [text EXCEPT ![p] = enabled]
    <3>1. TypeOK'
      BY <1>0, <1>1, <2>2 DEF ReadRegistry, Finish, TypeInv, TypeOK, Phases
    <3>2. ASSUME NEW q \in Procs PROVE Holds(q)'
      BY <1>0, <1>1, <2>2 DEF ReadRegistry, Finish, TypeInv, TypeOK, Holds
    <3>3. QED
      BY <3>1, <3>2 DEF TypeInv
  <2>3. CASE op[p] = "purge" /\ pc' = [pc EXCEPT ![p] = "history"] /\ UNCHANGED localVars
    <3>1. TypeOK'
      BY <1>1, <2>3 DEF ReadRegistry, TypeInv, TypeOK, Phases
    <3>2. ASSUME NEW q \in Procs PROVE Holds(q)'
      BY <1>1, <2>3 DEF ReadRegistry, TypeInv, TypeOK, Holds
    <3>3. QED
      BY <3>1, <3>2 DEF TypeInv
  <2>4. QED
    BY <1>1, <2>1, <2>2, <2>3 DEF ReadRegistry
<1>2. CASE FlipSwitch(p)
  <2>1. enabled' \in [Sources -> BOOLEAN]
    BY <1>0, <1>2 DEF FlipSwitch, TypeInv, TypeOK, Holds, Wanted
  <2>2. TypeOK'
    BY <1>2, <2>1 DEF FlipSwitch, TypeInv, TypeOK, Phases
  <2>3. ASSUME NEW q \in Procs PROVE Holds(q)'
    BY <1>2 DEF FlipSwitch, TypeInv, TypeOK, Holds
  <2>4. QED
    BY <2>2, <2>3 DEF TypeInv
<1>3. CASE RecordToggle(p)
  <2>1. target[p] \in Sources /\ op[p] \in {"enable", "disable", "purge"}
    BY <1>0, <1>3 DEF RecordToggle, Holds
  <2>2. EventOf(target[p], "disable") \in Events /\ EventOf(target[p], op[p]) \in Events
    BY <2>1, EventType
  <2>3. journal' \in Seq(Events)
    BY <1>0, <1>3, <2>2 DEF RecordToggle
  <2>4. CASE op[p] = "purge"
    <3>1. TypeOK'
      BY <1>0, <1>3, <2>3, <2>4 DEF RecordToggle, TypeInv, TypeOK, Phases
    <3>2. ASSUME NEW q \in Procs PROVE Holds(q)'
      BY <1>3, <2>4 DEF RecordToggle, TypeInv, TypeOK, Holds
    <3>3. QED
      BY <3>1, <3>2 DEF TypeInv
  <2>5. CASE op[p] # "purge"
    BY <1>0, <1>3, <2>3, <2>5, FinishType DEF RecordToggle
  <2>6. QED
    BY <2>4, <2>5
<1>4. CASE ReadHistory(p)
  <2>1. op[p] = "purge" => Append(journal, EventOf(target[p], "purge")) \in Seq(Events)
    BY <1>0, <1>4, EventType DEF ReadHistory, Holds
  <2>2. history' \in [Procs -> Seq(Events)]
    BY <1>0, <1>4, <2>1 DEF ReadHistory, TypeInv, TypeOK
  <2>3. TypeOK'
    BY <1>4, <2>2 DEF ReadHistory, TypeInv, TypeOK, Phases
  <2>4. ASSUME NEW q \in Procs PROVE Holds(q)'
    BY <1>4 DEF ReadHistory, TypeInv, TypeOK, Holds
  <2>5. QED
    BY <2>3, <2>4 DEF TypeInv
<1>5. CASE BuildCandidate(p)
  <2>1. PICK snaps \in [Sources -> 0..MaxVersion] :
          cand' = [cand EXCEPT ![p] = [snaps |-> snaps, events |-> history[p]]]
    BY <1>5 DEF BuildCandidate, Materialized
  <2>2. [snaps |-> snaps, events |-> history[p]] \in Builds
    BY DEF Builds, TypeInv, TypeOK
  <2>3. TypeOK' /\ cand'[p] \in Builds
    BY <1>5, <2>1, <2>2 DEF BuildCandidate, TypeInv, TypeOK, Phases
  <2>4. ASSUME NEW q \in Procs PROVE Holds(q)'
    BY <1>5, <2>1, <2>3 DEF BuildCandidate, TypeInv, TypeOK, Holds
  <2>5. QED
    BY <2>3, <2>4 DEF TypeInv
<1>6. CASE PurgeCopy(p)
  <2>1. base[p] \in Builds /\ target[p] \in Sources
    BY <1>0, <1>6 DEF PurgeCopy, Holds
  <2>2. [base[p].snaps EXCEPT ![target[p]] = 0] \in [Sources -> 0..MaxVersion]
    BY <2>1, SourceAdminAssumption DEF Builds
  <2>3. [snaps |-> [base[p].snaps EXCEPT ![target[p]] = 0], events |-> history[p]] \in Builds
    BY <2>2 DEF Builds, TypeInv, TypeOK
  <2>4. TypeOK' /\ cand'[p] \in Builds
    BY <1>6, <2>3 DEF PurgeCopy, Materialized, TypeInv, TypeOK, Phases
  <2>5. ASSUME NEW q \in Procs PROVE Holds(q)'
    BY <1>6, <2>4 DEF PurgeCopy, TypeInv, TypeOK, Holds
  <2>6. QED
    BY <2>4, <2>5 DEF TypeInv
<1>7. CASE BuildFails(p)
  BY <1>0, <1>7, FinishType DEF BuildFails
<1>8. CASE Promote(p)
  <2>1. active' \in Builds \cup {None}
    BY <1>0, <1>8 DEF Promote, Holds
  <2>2. CASE op[p] = "purge"
    <3>1. TypeOK'
      BY <1>8, <2>1, <2>2 DEF Promote, TypeInv, TypeOK, Phases
    <3>2. ASSUME NEW q \in Procs PROVE Holds(q)'
      BY <1>8, <2>2 DEF Promote, TypeInv, TypeOK, Holds
    <3>3. QED
      BY <3>1, <3>2 DEF TypeInv
  <2>3. CASE op[p] # "purge"
    BY <1>0, <1>8, <2>1, <2>3, FinishType DEF Promote
  <2>4. QED
    BY <2>2, <2>3
<1>9. CASE JournalPurge(p)
  <2>1. journal' \in Seq(Events)
    BY <1>0, <1>9, EventType DEF JournalPurge, Holds
  <2>2. QED
    BY <1>0, <1>9, <2>1, FinishType DEF JournalPurge
<1>10. CASE Crash(p)
  <2>1. \A flips : OneMore(flips) \in {"none", "odd", "even"}
    BY DEF OneMore
  <2>2. torn' \in [Sources -> {"none", "odd", "even"}]
    BY <1>0, <1>10, <2>1 DEF Crash
  <2>3. QED
    BY <1>0, <1>10, <2>2, FinishType DEF Crash
<1>11. QED
  BY <1>1, <1>2, <1>3, <1>4, <1>5, <1>6, <1>7, <1>8, <1>9, <1>10 DEF Step

LEMMA TypeStep == TypeInv /\ [Next]_vars => TypeInv'
<1> SUFFICES ASSUME TypeInv, [Next]_vars PROVE TypeInv'
  OBVIOUS
<1>1. CASE UNCHANGED vars
  BY <1>1 DEF vars, filesVars, localVars, TypeInv, TypeOK, Holds
<1>2. CASE Next
  BY <1>2, StartKeepsType, StepKeepsType DEF Next
<1>3. QED
  BY <1>1, <1>2

LEMMA InitType == Init => TypeInv
  BY AllOffType DEF Init, TypeInv, TypeOK, Holds, Phases, AllOff

(* Every variable keeps its type, however many runs overlap. *)
THEOREM TypeCorrect == Spec => []TypeOK
<1>1. TypeInv => TypeOK
  BY DEF TypeInv
<1>2. QED
  BY <1>1, InitType, TypeStep, PTL DEF Spec

-------------------------------------------------------------------------------

(* Commands do not overlap. *)
OneRun == \A p, q \in Procs : pc[p] # "idle" /\ pc[q] # "idle" => p = q

Building == {"history", "build", "promote", "journal"}

(* What a run knows of the shared files at each phase, no other run having *)
(* touched them since it started.                                          *)
Knows(p) ==
  /\ pc[p] = "flip" => text[p] = enabled /\ enabled[target[p]] # Wanted(p)
  /\ pc[p] = "record" => enabled[target[p]] = Wanted(p)
  /\ pc[p] \in Building => op[p] \in {"purge", "sync", "import"}
  /\ pc[p] \in Building /\ op[p] = "purge" => ~enabled[target[p]]
  /\ pc[p] \notin {"idle", "journal"} /\ op[p] = "purge" => base[p] = active
  /\ pc[p] # "idle" /\ op[p] \in {"sync", "import"} =>
       enabled[target[p]] /\ \A s \in Sources : loaded[p][s] => enabled[s]
  /\ pc[p] = "promote" /\ op[p] = "purge" => Rows(cand[p]) \subseteq Rows(active) \ {target[p]}
  /\ pc[p] = "promote" /\ op[p] # "purge" => \A s \in Rows(cand[p]) : enabled[s]
  /\ pc[p] = "journal" => target[p] \notin Rows(active)

SerialInv == OneRun /\ \A p \in Procs : Knows(p)

LEMMA IdleKnowsNothing ==
  ASSUME NEW q \in Procs, pc'[q] = "idle"
  PROVE  Knows(q)'
  BY DEF Knows, Building

(* Only p acts: the rest were idle and stay so. *)
LEMMA OnlyOneActs ==
  ASSUME NEW p \in Procs, Alone(p), pc \in [Procs -> Phases],
         NEW ph, pc' = [pc EXCEPT ![p] = ph], Knows(p)'
  PROVE  SerialInv'
<1>1. ASSUME NEW q \in Procs, q # p PROVE pc'[q] = "idle"
  BY <1>1 DEF Alone
<1>2. OneRun'
  BY <1>1 DEF OneRun
<1>3. \A q \in Procs : Knows(q)'
  BY <1>1, IdleKnowsNothing
<1>4. QED
  BY <1>2, <1>3 DEF SerialInv

LEMMA StartKnows ==
  ASSUME TypeInv, SerialInv, NEW p \in Procs, Alone(p), Start(p)
  PROVE  SerialInv'
<1> USE DEF Launch, Goto, filesVars
<1>0. pc \in [Procs -> Phases] /\ pc[p] = "idle"
  BY DEF TypeInv, TypeOK, Start, StartBuild, StartToggle, StartPurge
<1>1. CASE StartBuild(p)
  <2>1. pc' = [pc EXCEPT ![p] = "history"] /\ Knows(p)'
    BY <1>0, <1>1 DEF StartBuild, TypeInv, TypeOK, Knows, Building
  <2>2. QED
    BY <1>0, <2>1, OnlyOneActs
<1>2. ASSUME NEW s \in Sources, StartToggle(p, s) PROVE SerialInv'
  <2>1. pc' = [pc EXCEPT ![p] = "edit"] /\ Knows(p)'
    BY <1>0, <1>2 DEF StartToggle, TypeInv, TypeOK, Knows, Building
  <2>2. QED
    BY <1>0, <2>1, OnlyOneActs
<1>3. ASSUME NEW s \in Sources, StartPurge(p, s) PROVE SerialInv'
  <2>1. pc' = [pc EXCEPT ![p] = "edit"] /\ Knows(p)'
    BY <1>0, <1>3 DEF StartPurge, TypeInv, TypeOK, Knows, Building
  <2>2. QED
    BY <1>0, <2>1, OnlyOneActs
<1>4. QED
  BY <1>1, <1>2, <1>3 DEF Start

LEMMA FinishKnows ==
  ASSUME TypeInv, NEW p \in Procs, Alone(p), Finish(p)
  PROVE  SerialInv'
<1>1. pc \in [Procs -> Phases] /\ pc' = [pc EXCEPT ![p] = "idle"]
  BY DEF TypeInv, TypeOK, Finish, Goto
<1>2. Knows(p)'
  BY <1>1, IdleKnowsNothing
<1>3. QED
  BY <1>1, <1>2, OnlyOneActs

(* The copy of a build without the rows of a source. *)
LEMMA RowsOfCopy ==
  ASSUME NEW b \in Builds, NEW t \in Sources, NEW e,
         NEW c, c = [snaps |-> [b.snaps EXCEPT ![t] = 0], events |-> e], c # None
  PROVE  Rows(c) \subseteq Rows(b) \ {t}
<1>1. b # None
  BY NoneIsNoBuild
<1>2. b.snaps \in [Sources -> 0..MaxVersion]
  BY DEF Builds
<1>3. ASSUME NEW s \in Rows(c) PROVE s \in Rows(b) /\ s # t
  <2>1. s \in Sources /\ c.snaps[s] > 0
    BY <1>3 DEF Rows
  <2>2. c.snaps[s] = IF s = t THEN 0 ELSE b.snaps[s]
    BY <1>2, <2>1
  <2>3. QED
    BY <1>1, <2>1, <2>2 DEF Rows
<1>4. QED
  BY <1>3

LEMMA StepKnows ==
  ASSUME TypeInv, TypeInv', SerialInv, NEW p \in Procs, Step(p)
  PROVE  SerialInv'
<1> USE DEF Goto, filesVars, localVars
<1>0. pc[p] # "idle" /\ pc \in [Procs -> Phases] /\ Holds(p) /\ Knows(p)
  BY DEF TypeInv, TypeOK, SerialInv, Step, ReadRegistry, FlipSwitch, RecordToggle,
         ReadHistory, BuildCandidate, PurgeCopy, BuildFails, Promote, JournalPurge, Crash
<1>a. Alone(p)
  BY <1>0 DEF SerialInv, OneRun, Alone
<1>1. CASE ReadRegistry(p)
  <2>1. CASE Finish(p)
    BY <1>a, <2>1, FinishKnows
  <2>2. CASE pc' = [pc EXCEPT ![p] = "flip"] /\ text' = [text EXCEPT ![p] = enabled]
             /\ UNCHANGED <<op, target, loaded, base, history, cand>>
    <3>0. enabled[target[p]] # Wanted(p) /\ UNCHANGED <<enabled, journal, active>>
      BY <1>0, <1>1, <2>2 DEF ReadRegistry, Finish
    <3>1. Knows(p)'
      BY <1>0, <2>2, <3>0 DEF TypeInv, TypeOK, Holds, Knows, Building, Wanted
    <3>2. QED
      BY <1>0, <1>a, <2>2, <3>1, OnlyOneActs
  <2>3. CASE enabled[target[p]] = Wanted(p) /\ op[p] = "purge"
             /\ pc' = [pc EXCEPT ![p] = "history"] /\ UNCHANGED localVars
    <3>1. Knows(p)'
      BY <1>0, <1>1, <2>3 DEF ReadRegistry, TypeInv, TypeOK, Holds, Knows, Building, Wanted
    <3>2. QED
      BY <1>0, <1>a, <2>3, <3>1, OnlyOneActs
  <2>4. QED
    BY <1>1, <2>1, <2>2, <2>3 DEF ReadRegistry
<1>2. CASE FlipSwitch(p)
  <2>1. enabled'[target[p]] = Wanted(p)
    BY <1>0, <1>2 DEF FlipSwitch, TypeInv, TypeOK, Holds
  <2>2. pc' = [pc EXCEPT ![p] = "record"] /\ pc'[p] = "record"
    BY <1>0, <1>2 DEF FlipSwitch
  <2>3. Knows(p)'
    BY <1>0, <1>2, <2>1, <2>2 DEF FlipSwitch, Holds, Knows, Building, Wanted
  <2>4. QED
    BY <1>0, <1>a, <2>2, <2>3, OnlyOneActs
<1>3. CASE RecordToggle(p)
  <2>1. CASE op[p] = "purge"
    <3>1. pc' = [pc EXCEPT ![p] = "history"] /\ Knows(p)'
      BY <1>0, <1>3, <2>1 DEF RecordToggle, Holds, Knows, Building, Wanted
    <3>2. QED
      BY <1>0, <1>a, <3>1, OnlyOneActs
  <2>2. CASE op[p] # "purge"
    BY <1>3, <1>a, <2>2, FinishKnows DEF RecordToggle
  <2>3. QED
    BY <2>1, <2>2
<1>4. CASE ReadHistory(p)
  <2>1. pc' = [pc EXCEPT ![p] = "build"] /\ Knows(p)'
    BY <1>0, <1>4 DEF ReadHistory, Holds, Knows, Building
  <2>2. QED
    BY <1>0, <1>a, <2>1, OnlyOneActs
<1>5. CASE BuildCandidate(p)
  <2>1. PICK snaps \in [Sources -> 0..MaxVersion] :
          /\ \A s \in Sources \ {target[p]} :
               snaps[s] > 0 => op[p] = "sync" /\ s \in Rides(p)
          /\ cand' = [cand EXCEPT ![p] = [snaps |-> snaps, events |-> history[p]]]
    BY <1>5 DEF BuildCandidate, Materialized
  <2>2. cand'[p].snaps = snaps /\ op[p] \in {"sync", "import"} /\ op[p] # "purge"
    BY <1>0, <1>5, <2>1 DEF BuildCandidate, Knows, Building, TypeInv, TypeOK
  <2>3. \A s \in Rows(cand'[p]) : enabled[s]
    BY <1>0, <2>1, <2>2 DEF Rows, Rides, Knows
  <2>4. pc' = [pc EXCEPT ![p] = "promote"] /\ Knows(p)'
    BY <1>0, <1>5, <2>2, <2>3 DEF BuildCandidate, Knows, Building, Rows
  <2>5. QED
    BY <1>0, <1>a, <2>4, OnlyOneActs
<1>6. CASE PurgeCopy(p)
  <2>1. pc[p] = "build" /\ op[p] = "purge" /\ base[p] = active
        /\ target[p] \in Sources /\ active \in Builds
    BY <1>0, <1>6 DEF PurgeCopy, Holds, Knows
  <2>2. cand'[p] = [snaps |-> [active.snaps EXCEPT ![target[p]] = 0], events |-> history[p]]
    BY <1>6, <2>1 DEF PurgeCopy, Materialized, TypeInv, TypeOK
  <2>3. pc' = [pc EXCEPT ![p] = "promote"] /\ pc'[p] = "promote"
    BY <1>0, <1>6 DEF PurgeCopy
  <2>4. cand'[p] # None
    BY <2>3, NoneIsNoBuild DEF TypeInv, Holds
  <2>5. Rows(cand'[p]) \subseteq Rows(active) \ {target[p]}
    BY <2>1, <2>2, <2>4, RowsOfCopy
  <2>6. Rows(cand[p])' = Rows(cand'[p]) /\ Rows(active)' = Rows(active)
    BY <1>6 DEF PurgeCopy, Rows
  <2>7. Knows(p)'
    BY <1>0, <1>6, <2>1, <2>3, <2>5, <2>6 DEF PurgeCopy, Knows, Building
  <2>8. QED
    BY <1>0, <1>a, <2>3, <2>7, OnlyOneActs
<1>7. CASE BuildFails(p)
  BY <1>7, <1>a, FinishKnows DEF BuildFails
<1>8. CASE Promote(p)
  <2>1. CASE op[p] = "purge"
    <3>1. target[p] \in Sources /\ cand[p] \in Builds /\ target[p] \notin Rows(cand[p])
      BY <1>0, <1>8, <2>1 DEF Promote, Holds, Knows
    <3>2. active' # None /\ active'.snaps = cand[p].snaps
      BY <1>8, <3>1, NoneIsNoBuild DEF Promote, SameContent
    <3>3. target[p] \notin Rows(active')
      BY <3>1, <3>2, NoneIsNoBuild DEF Rows
    <3>4. pc' = [pc EXCEPT ![p] = "journal"] /\ pc'[p] = "journal"
      BY <1>0, <1>8, <2>1 DEF Promote
    <3>5. Knows(p)'
      BY <1>0, <1>8, <2>1, <3>3, <3>4 DEF Promote, Knows, Building, Rows
    <3>6. QED
      BY <1>0, <1>a, <3>4, <3>5, OnlyOneActs
  <2>2. CASE op[p] # "purge"
    BY <1>8, <1>a, <2>2, FinishKnows DEF Promote
  <2>3. QED
    BY <2>1, <2>2
<1>9. CASE JournalPurge(p)
  BY <1>9, <1>a, FinishKnows DEF JournalPurge
<1>10. CASE Crash(p)
  BY <1>10, <1>a, FinishKnows DEF Crash
<1>11. QED
  BY <1>1, <1>2, <1>3, <1>4, <1>5, <1>6, <1>7, <1>8, <1>9, <1>10 DEF Step

LEMMA SerialStep == TypeInv /\ SerialInv /\ [SerialNext]_vars => TypeInv' /\ SerialInv'
<1> SUFFICES ASSUME TypeInv, SerialInv, [SerialNext]_vars PROVE TypeInv' /\ SerialInv'
  OBVIOUS
<1>1. TypeInv'
  BY TypeStep DEF SerialNext, Next
<1>2. CASE UNCHANGED vars
  BY <1>1, <1>2 DEF vars, filesVars, localVars, SerialInv, OneRun, Knows, Rows, Wanted
<1>3. CASE SerialNext
  BY <1>1, <1>3, StartKnows, StepKnows DEF SerialNext
<1>4. QED
  BY <1>1, <1>2, <1>3

-------------------------------------------------------------------------------

(* Appending an event of s decides what the last event of s is, and leaves *)
(* the last events of the other sources alone.                             *)
LEMMA LastAfterAppend ==
  ASSUME journal \in Seq(Events), NEW s, NEW t,
         journal' = Append(journal, EventOf(s, t)), NEW r, NEW u
  PROVE  LastEvent(r, u)' <=> IF r = s THEN u = t ELSE LastEvent(r, u)
<1> DEFINE n == Len(journal)
<1>1. /\ n \in Nat /\ Len(journal') = n + 1
      /\ \A i \in 1..n : journal'[i] = journal[i]
      /\ journal'[n + 1] = EventOf(s, t)
  OBVIOUS
<1>2. EventOf(s, t) = EventOf(r, u) <=> s = r /\ t = u
  BY DEF EventOf
<1>3. EventOf(s, t).source = s
  BY DEF EventOf
<1>4. LastEvent(r, u)' <=>
        \E i \in 1..(n + 1) : /\ journal'[i] = EventOf(r, u)
                              /\ \A j \in (i + 1)..(n + 1) : journal'[j].source # r
  BY <1>1 DEF LastEvent
<1>5. CASE r = s
  <2>1. ASSUME LastEvent(r, u)' PROVE u = t
    <3>1. PICK i \in 1..(n + 1) : /\ journal'[i] = EventOf(r, u)
                                  /\ \A j \in (i + 1)..(n + 1) : journal'[j].source # r
      BY <1>4, <2>1
    <3>2. i = n + 1
      <4> SUFFICES ASSUME i < n + 1 PROVE FALSE
        BY <1>1, <3>1
      <4>1. n + 1 \in (i + 1)..(n + 1)
        BY <1>1
      <4>2. QED
        BY <1>1, <1>3, <1>5, <3>1, <4>1
    <3>3. QED
      BY <1>1, <1>2, <3>1, <3>2
  <2>2. ASSUME u = t PROVE LastEvent(r, u)'
    <3>1. n + 1 \in 1..(n + 1) /\ \A j \in (n + 2)..(n + 1) : FALSE
      BY <1>1
    <3>2. QED
      BY <1>1, <1>4, <1>5, <2>2, <3>1
  <2>3. QED
    BY <1>5, <2>1, <2>2
<1>6. CASE r # s
  <2>1. ASSUME LastEvent(r, u)' PROVE LastEvent(r, u)
    <3>1. PICK i \in 1..(n + 1) : /\ journal'[i] = EventOf(r, u)
                                  /\ \A j \in (i + 1)..(n + 1) : journal'[j].source # r
      BY <1>4, <2>1
    <3>2. i \in 1..n
      BY <1>1, <1>2, <1>6, <3>1
    <3>3. \A j \in (i + 1)..n : j \in (i + 1)..(n + 1) /\ j \in 1..n
      BY <1>1, <3>2
    <3>4. \A j \in (i + 1)..n : journal[j].source # r
      BY <1>1, <3>1, <3>3
    <3>5. QED
      BY <1>1, <3>1, <3>2, <3>4 DEF LastEvent
  <2>2. ASSUME LastEvent(r, u) PROVE LastEvent(r, u)'
    <3>1. PICK i \in 1..n : /\ journal[i] = EventOf(r, u)
                            /\ \A j \in (i + 1)..n : journal[j].source # r
      BY <2>2 DEF LastEvent
    <3>2. \A j \in (i + 1)..(n + 1) : j = n + 1 \/ (j \in (i + 1)..n /\ j \in 1..n)
      BY <1>1, <3>1
    <3>3. \A j \in (i + 1)..(n + 1) : journal'[j].source # r
      BY <1>1, <1>3, <1>6, <3>1, <3>2
    <3>4. i \in 1..(n + 1) /\ journal'[i] = EventOf(r, u)
      BY <1>1, <3>1
    <3>5. QED
      BY <1>4, <3>3, <3>4
  <2>3. QED
    BY <1>6, <2>1, <2>2
<1>7. QED
  BY <1>5, <1>6

JournalInv == JournalAgrees /\ TakedownHolds

(* A step that leaves the switches, the journal and what is not journaled  *)
(* alone and brings in no row of a source taken down keeps the journal's   *)
(* word.                                                                   *)
LEMMA QuietStep ==
  ASSUME JournalInv, UNCHANGED <<enabled, journal>>,
         \A s \in Sources : Unjournaled(s)' = Unjournaled(s),
         \A s \in Sources : ~enabled[s] /\ s \in Rows(active') => s \in Rows(active)
  PROVE  JournalInv'
<1>1. \A s \in Sources, t \in {"enable", "disable", "purge"} : LastEvent(s, t)' <=> LastEvent(s, t)
  BY DEF LastEvent
<1>2. JournalAgrees'
  BY <1>1 DEF JournalInv, JournalAgrees
<1>3. ASSUME NEW s \in Sources, LastEvent(s, "purge")', Unjournaled(s)' = "none"
      PROVE  s \notin Rows(active)'
  <2>1. LastEvent(s, "purge") /\ Unjournaled(s) = "none"
    BY <1>1, <1>3
  <2>2. ~enabled[s] /\ s \notin Rows(active)
    BY <2>1 DEF JournalInv, JournalAgrees, TakedownHolds
  <2>3. Rows(active)' = Rows(active')
    BY DEF Rows
  <2>4. QED
    BY <2>1, <2>2, <2>3
<1>4. QED
  BY <1>2, <1>3 DEF JournalInv, TakedownHolds

LEMMA JournalStep == TypeInv /\ SerialInv /\ JournalInv /\ [SerialNext]_vars => JournalInv'
<1> SUFFICES ASSUME TypeInv, SerialInv, JournalInv, [SerialNext]_vars PROVE JournalInv'
  OBVIOUS
<1> USE DEF Goto, filesVars, localVars
<1>1. CASE UNCHANGED vars
  BY <1>1, QuietStep DEF vars, Unjournaled, Flipping
<1>2. ASSUME NEW p \in Procs, Alone(p), Start(p) PROVE JournalInv'
  <2>1. UNCHANGED <<enabled, journal, active, torn>>
    BY <1>2 DEF Start, StartBuild, StartToggle, StartPurge, Launch
  <2>2. \A s \in Sources : Flipping(s)' = Flipping(s)
    <3>1. pc[p] = "idle" /\ pc'[p] # "record" /\ \A q \in Procs : q # p => pc'[q] = pc[q] /\ target'[q] = target[q]
      BY <1>2 DEF Start, StartBuild, StartToggle, StartPurge, Launch, TypeInv, TypeOK
    <3>2. QED
      BY <3>1 DEF Flipping
  <2>3. QED
    BY <2>1, <2>2, QuietStep DEF Unjournaled
<1>3. ASSUME NEW p \in Procs, Step(p) PROVE JournalInv'
  <2>0. pc[p] # "idle" /\ pc \in [Procs -> Phases] /\ Holds(p) /\ Knows(p) /\ Alone(p)
    BY <1>3 DEF TypeInv, TypeOK, SerialInv, OneRun, Alone, Step, ReadRegistry, FlipSwitch, RecordToggle,
           ReadHistory, BuildCandidate, PurgeCopy, BuildFails, Promote, JournalPurge, Crash
  <2>1. \A s \in Sources : Flipping(s) <=> pc[p] = "record" /\ target[p] = s
    BY <2>0 DEF Flipping, Alone
  <2>10. \A s \in Sources : Flipping(s)' <=> pc'[p] = "record" /\ target'[p] = s
    <3>1. \A q \in Procs \ {p} : pc'[q] = "idle"
      BY <1>3, <2>0 DEF Alone, Step, ReadRegistry, FlipSwitch, RecordToggle, ReadHistory,
         BuildCandidate, PurgeCopy, BuildFails, Promote, JournalPurge, Crash, Finish
    <3>2. QED
      BY <3>1 DEF Flipping
  <2>2. CASE ReadRegistry(p) \/ ReadHistory(p) \/ BuildCandidate(p) \/ PurgeCopy(p) \/ BuildFails(p)
    <3>1. UNCHANGED <<enabled, journal, active, torn>> /\ pc[p] # "record" /\ pc'[p] # "record"
      BY <2>0, <2>2 DEF ReadRegistry, ReadHistory, BuildCandidate, PurgeCopy, BuildFails, Finish
    <3>2. QED
      BY <2>1, <2>10, <3>1, QuietStep DEF Unjournaled
  <2>3. CASE Promote(p)
    <3>1. UNCHANGED <<enabled, journal, torn>> /\ pc[p] = "promote" /\ pc'[p] # "record"
      BY <2>0, <2>3 DEF Promote, Finish
    <3>2. ASSUME NEW s \in Sources, ~enabled[s], s \in Rows(active')
          PROVE  s \in Rows(active)
      <4>1. CASE SameContent(active, cand[p])
        BY <2>3, <3>2, <4>1 DEF Promote
      <4>2. CASE ~SameContent(active, cand[p])
        <5>1. s \in Rows(cand[p])
          BY <2>3, <3>2, <4>2 DEF Promote
        <5>2. QED
          BY <2>0, <3>1, <3>2, <5>1 DEF Knows
      <4>3. QED
        BY <4>1, <4>2
    <3>3. QED
      BY <2>1, <2>10, <3>1, <3>2, QuietStep DEF Unjournaled
  <2>4. CASE Crash(p)
    <3>1. UNCHANGED <<enabled, journal, active>> /\ pc'[p] # "record"
      BY <2>0, <2>4 DEF Crash, Finish
    <3>2. ASSUME NEW s \in Sources PROVE Unjournaled(s)' = Unjournaled(s)
      <4>1. ~Flipping(s)'
        BY <2>10, <3>1
      <4>2. torn'[s] = IF Flipping(s) THEN OneMore(torn[s]) ELSE torn[s]
        BY <2>1, <2>4 DEF Crash, TypeInv, TypeOK
      <4>3. QED
        BY <4>1, <4>2 DEF Unjournaled
    <3>3. QED
      BY <3>1, <3>2, QuietStep
  <2>5. CASE FlipSwitch(p)
    <3>1. /\ UNCHANGED <<journal, active, torn, target>> /\ pc[p] = "flip" /\ target[p] \in Sources
          /\ \A s \in Sources : s # target[p] => enabled'[s] = enabled[s]
          /\ enabled'[target[p]] = ~enabled[target[p]]
      <4>1. /\ text[p] = enabled /\ enabled[target[p]] # Wanted(p) /\ pc[p] = "flip" /\ target[p] \in Sources
        BY <2>0, <2>5 DEF FlipSwitch, Knows, Holds
      <4>2. enabled' = [enabled EXCEPT ![target[p]] = Wanted(p)] /\ enabled \in [Sources -> BOOLEAN]
        BY <2>5, <4>1 DEF FlipSwitch, TypeInv, TypeOK
      <4>3. Wanted(p) \in BOOLEAN
        BY DEF Wanted
      <4>4. enabled'[target[p]] = ~enabled[target[p]]
        BY <4>1, <4>2, <4>3
      <4>5. QED
        BY <2>5, <4>1, <4>2, <4>4 DEF FlipSwitch
    <3>2. pc'[p] = "record" /\ pc[p] # "record"
      BY <2>0, <2>5 DEF FlipSwitch
    <3>3. \A s \in Sources, t \in {"enable", "disable", "purge"} : LastEvent(s, t)' <=> LastEvent(s, t)
      BY <3>1 DEF LastEvent
    <3>4. /\ \A s \in Sources : s # target[p] => Unjournaled(s)' = Unjournaled(s)
          /\ \A s \in Sources : s = target[p] => Unjournaled(s)' = OneMore(Unjournaled(s))
      BY <2>1, <2>10, <3>1, <3>2 DEF Unjournaled
    <3>5. \A flips : (OneMore(flips) = "odd" <=> flips # "odd") /\ OneMore(flips) # "none"
      BY DEF OneMore
    <3>6. JournalAgrees'
      <4>1. SUFFICES ASSUME NEW s \in Sources
                     PROVE  /\ LastEvent(s, "enable") => enabled'[s] = (Unjournaled(s)' # "odd")
                            /\ LastEvent(s, "disable") \/ LastEvent(s, "purge") =>
                                 enabled'[s] = (Unjournaled(s)' = "odd")
        BY <3>3 DEF JournalAgrees
      <4>2. /\ LastEvent(s, "enable") => enabled[s] = (Unjournaled(s) # "odd")
            /\ LastEvent(s, "disable") \/ LastEvent(s, "purge") => enabled[s] = (Unjournaled(s) = "odd")
        BY DEF JournalInv, JournalAgrees
      <4>3. CASE s = target[p]
        BY <3>1, <3>4, <3>5, <4>2, <4>3
      <4>4. CASE s # target[p]
        BY <3>1, <3>4, <4>2, <4>4
      <4>5. QED
        BY <4>3, <4>4
    <3>7. TakedownHolds'
      <4>1. \A s \in Sources : Unjournaled(s)' = "none" => s # target[p] /\ Unjournaled(s) = "none"
        BY <3>4, <3>5
      <4>2. QED
        BY <3>1, <3>3, <4>1 DEF JournalInv, TakedownHolds, Rows
    <3>8. QED
      BY <3>6, <3>7 DEF JournalInv
  <2>6. ASSUME NEW t \in {"enable", "disable", "purge"},
               journal' = Append(journal, EventOf(target[p], t)),
               UNCHANGED <<enabled, active>>,
               \A s \in Sources : s = target[p] => Unjournaled(s)' = "none",
               \A s \in Sources : s # target[p] => Unjournaled(s)' = Unjournaled(s),
               enabled[target[p]] <=> t = "enable",
               t = "purge" => target[p] \notin Rows(active)
        PROVE  JournalInv'
    <3>1. journal \in Seq(Events)
      BY DEF TypeInv, TypeOK
    <3>2. \A s \in Sources, u \in {"enable", "disable", "purge"} :
            LastEvent(s, u)' <=> IF s = target[p] THEN u = t ELSE LastEvent(s, u)
      BY <2>6, <3>1, LastAfterAppend
    <3>3. JournalAgrees'
      <4>1. SUFFICES ASSUME NEW s \in Sources
                     PROVE  /\ LastEvent(s, "enable")' => enabled[s] = (Unjournaled(s)' # "odd")
                            /\ LastEvent(s, "disable")' \/ LastEvent(s, "purge")' =>
                                 enabled[s] = (Unjournaled(s)' = "odd")
        BY <2>6 DEF JournalAgrees
      <4>2. enabled[s] \in BOOLEAN
        BY DEF TypeInv, TypeOK
      <4>3. CASE s = target[p]
        BY <2>6, <3>2, <4>2, <4>3
      <4>4. CASE s # target[p]
        <5>1. /\ LastEvent(s, "enable") => enabled[s] = (Unjournaled(s) # "odd")
              /\ LastEvent(s, "disable") \/ LastEvent(s, "purge") => enabled[s] = (Unjournaled(s) = "odd")
          BY DEF JournalInv, JournalAgrees
        <5>2. QED
          BY <2>6, <3>2, <4>4, <5>1
      <4>5. QED
        BY <4>3, <4>4
    <3>4. TakedownHolds'
      BY <2>6, <3>2 DEF JournalInv, TakedownHolds, Rows
    <3>5. QED
      BY <3>3, <3>4 DEF JournalInv
  <2>7. CASE RecordToggle(p)
    <3>1. /\ pc[p] = "record" /\ op[p] \in {"enable", "disable", "purge"} /\ target[p] \in Sources
          /\ torn' = [torn EXCEPT ![target[p]] = "none"] /\ UNCHANGED <<enabled, active>>
          /\ pc'[p] # "record"
      BY <2>0, <2>7 DEF RecordToggle, Holds, Finish
    <3>2. /\ \A s \in Sources : s = target[p] => Unjournaled(s)' = "none"
          /\ \A s \in Sources : s # target[p] => Unjournaled(s)' = Unjournaled(s)
      <4>1. torn'[target[p]] = "none" /\ \A s \in Sources : s # target[p] => torn'[s] = torn[s]
        BY <3>1 DEF TypeInv, TypeOK
      <4>2. \A s \in Sources : ~Flipping(s)' /\ (s # target[p] => ~Flipping(s))
        BY <2>1, <2>10, <3>1
      <4>3. QED
        BY <3>1, <4>1, <4>2 DEF Unjournaled
    <3>3. enabled[target[p]] = (op[p] = "enable")
      BY <2>0, <3>1 DEF Knows, Wanted
    <3>4. CASE op[p] = "purge"
      BY <2>6, <2>7, <3>1, <3>2, <3>3, <3>4 DEF RecordToggle
    <3>5. CASE op[p] # "purge"
      BY <2>6, <2>7, <3>1, <3>2, <3>3, <3>5 DEF RecordToggle
    <3>6. QED
      BY <3>4, <3>5
  <2>8. CASE JournalPurge(p)
    <3>1. /\ pc[p] = "journal" /\ op[p] = "purge" /\ target[p] \in Sources
          /\ torn' = [torn EXCEPT ![target[p]] = "none"] /\ UNCHANGED <<enabled, active>>
          /\ journal' = Append(journal, EventOf(target[p], "purge")) /\ pc'[p] # "record"
      BY <2>0, <2>8 DEF JournalPurge, Holds, Finish
    <3>2. /\ \A s \in Sources : s = target[p] => Unjournaled(s)' = "none"
          /\ \A s \in Sources : s # target[p] => Unjournaled(s)' = Unjournaled(s)
      <4>1. torn'[target[p]] = "none" /\ \A s \in Sources : s # target[p] => torn'[s] = torn[s]
        BY <3>1 DEF TypeInv, TypeOK
      <4>2. \A s \in Sources : ~Flipping(s)' /\ (s # target[p] => ~Flipping(s))
        BY <2>1, <2>10, <3>1
      <4>3. QED
        BY <3>1, <4>1, <4>2 DEF Unjournaled
    <3>3. ~enabled[target[p]] /\ target[p] \notin Rows(active)
      BY <2>0, <3>1 DEF Knows, Building
    <3>4. QED
      BY <2>6, <3>1, <3>2, <3>3
  <2>9. QED
    BY <1>3, <2>2, <2>3, <2>4, <2>5, <2>7, <2>8 DEF Step
<1>4. QED
  BY <1>1, <1>2, <1>3 DEF SerialNext

LEMMA InitAll == Init => TypeInv /\ SerialInv /\ JournalInv
<1>1. Init => SerialInv
  BY DEF Init, SerialInv, OneRun, Knows, Building
<1>2. Init => \A s, t : ~LastEvent(s, t)
  BY DEF Init, LastEvent
<1>3. QED
  BY <1>1, <1>2, InitType DEF JournalInv, JournalAgrees, TakedownHolds

(* The inductive invariant: types, what each run knows, and the journal.   *)
THEOREM Inductive == SerialSpec => [](TypeInv /\ SerialInv /\ JournalInv)
<1>1. TypeInv /\ SerialInv /\ JournalInv /\ [SerialNext]_vars => (TypeInv /\ SerialInv /\ JournalInv)'
  BY SerialStep, JournalStep
<1>2. QED
  BY <1>1, InitAll, PTL DEF SerialSpec

(* cli/source.py: the last event of a source, turned over for each flip    *)
(* since that has no event (yet, or because its run died between the two), *)
(* says where its switch is.                                               *)
THEOREM JournalTrue == SerialSpec => []JournalAgrees
<1>1. TypeInv /\ SerialInv /\ JournalInv => JournalAgrees
  BY DEF JournalInv
<1>2. QED
  BY <1>1, Inductive, PTL

(* From its purge event to the next action on a source, the active build   *)
(* holds no row of it.                                                     *)
THEOREM TakedownStands == SerialSpec => []TakedownHolds
<1>1. TypeInv /\ SerialInv /\ JournalInv => TakedownHolds
  BY DEF JournalInv
<1>2. QED
  BY <1>1, Inductive, PTL

LEMMA StepNoPhantom ==
  ASSUME TypeInv, SerialInv, [SerialNext]_vars, NEW s \in Sources,
         journal' = Append(journal, EventOf(s, "purge"))
  PROVE  s \notin Rows(active)
<1> USE DEF filesVars, localVars
<1>1. journal \in Seq(Events)
  BY DEF TypeInv, TypeOK
<1>2. journal' # journal
  <2>1. Len(journal') = Len(journal) + 1 /\ Len(journal) \in Nat
    BY <1>1
  <2>2. QED
    BY <2>1
<1>3. PICK p \in Procs : RecordToggle(p) \/ JournalPurge(p)
  BY <1>2 DEF SerialNext, Step, Start, StartBuild, StartToggle, StartPurge, Launch, ReadRegistry,
       FlipSwitch, ReadHistory, BuildCandidate, PurgeCopy, BuildFails, Promote, Crash, vars
<1>4. ASSUME NEW t, NEW r, journal' = Append(journal, EventOf(r, t)) PROVE r = s /\ t = "purge"
  <2>1. journal'[Len(journal) + 1] = EventOf(r, t) /\ journal'[Len(journal) + 1] = EventOf(s, "purge")
    BY <1>1, <1>4
  <2>2. QED
    BY <2>1 DEF EventOf
<1>5. Holds(p) /\ Knows(p)
  BY DEF TypeInv, SerialInv
<1>6. CASE RecordToggle(p)
  <2>1. op[p] = "purge" => "disable" = "purge"
    BY <1>4, <1>6 DEF RecordToggle
  <2>2. op[p] # "purge" => op[p] = "purge"
    BY <1>4, <1>6 DEF RecordToggle
  <2>3. QED
    BY <2>1, <2>2
<1>7. CASE JournalPurge(p)
  <2>1. pc[p] = "journal" /\ target[p] = s
    BY <1>4, <1>7 DEF JournalPurge
  <2>2. QED
    BY <1>5, <2>1 DEF Knows
<1>8. QED
  BY <1>3, <1>6, <1>7

(* M5: no purge is journaled that did not leave the active build without   *)
(* rows of its source.                                                     *)
THEOREM NoPhantom == SerialSpec => NoPhantomPurge
<1>1. TypeInv /\ SerialInv /\ JournalInv /\ [SerialNext]_vars
        => [\A s \in Sources :
              journal' = Append(journal, EventOf(s, "purge")) => s \notin Rows(active)]_journal
  BY StepNoPhantom
<1>2. QED
  BY <1>1, Inductive, PTL DEF SerialSpec, NoPhantomPurge

LEMMA StepGated ==
  ASSUME TypeInv, SerialInv, [SerialNext]_vars, NEW s \in Sources,
         s \in Rows(active') \ Rows(active)
  PROVE  enabled[s]
<1> USE DEF filesVars, localVars
<1>1. active' # active
  BY DEF Rows
<1>2. PICK p \in Procs : Promote(p)
  BY <1>1 DEF SerialNext, Step, Start, StartBuild, StartToggle, StartPurge, Launch, ReadRegistry,
       FlipSwitch, RecordToggle, ReadHistory, BuildCandidate, PurgeCopy, BuildFails, JournalPurge,
       Crash, vars
<1>3. pc[p] = "promote" /\ active' = cand[p] /\ Knows(p)
  BY <1>1, <1>2 DEF Promote, SerialInv
<1>4. QED
  BY <1>3 DEF Knows

(* M6: rows of a source enter the active build only while it is enabled.   *)
THEOREM OnlyEnabledEnter == SerialSpec => NoRowsWhileDisabled
<1>1. TypeInv /\ SerialInv /\ JournalInv /\ [SerialNext]_vars
        => [\A s \in Sources : s \in Rows(active') \ Rows(active) => enabled[s]]_active
  BY StepGated
<1>2. QED
  BY <1>1, Inductive, PTL DEF SerialSpec, NoRowsWhileDisabled
-------------------------------------------------------------------------------

(* The event table e of a build with the rows R is the journal j as it     *)
(* once stood, with or without one purge that left no row behind.          *)
Recorded(e, R, j) ==
  \/ Prefix(e, j)
  \/ /\ Len(e) > 0 /\ e[Len(e)].type = "purge" /\ e[Len(e)].source \notin R
     /\ Prefix(SubSeq(e, 1, Len(e) - 1), j)

(* What a run read of the journal it carries to its candidate. *)
Carries(p) ==
  /\ pc[p] = "build" =>
       IF op[p] = "purge"
       THEN /\ Len(history[p]) > 0
            /\ history[p][Len(history[p])] = EventOf(target[p], "purge")
            /\ Prefix(SubSeq(history[p], 1, Len(history[p]) - 1), journal)
       ELSE Prefix(history[p], journal)
  /\ pc[p] = "promote" => Recorded(cand[p].events, Rows(cand[p]), journal)

HistoryInv == BuildHistory /\ \A p \in Procs : Carries(p)

LEMMA PrefixGrows ==
  ASSUME journal \in Seq(Events), NEW s \in Seq(Events), Prefix(s, journal),
         journal' = journal \/ \E e \in Events : journal' = Append(journal, e)
  PROVE  Prefix(s, journal')
<1>1. CASE journal' = journal
  BY <1>1 DEF Prefix
<1>2. ASSUME NEW e \in Events, journal' = Append(journal, e) PROVE Prefix(s, journal')
  <2>1. /\ Len(journal') = Len(journal) + 1 /\ Len(journal) \in Nat /\ Len(s) \in Nat
        /\ \A i \in 1..Len(journal) : journal'[i] = journal[i]
    BY <1>2
  <2>2. QED
    BY <2>1 DEF Prefix
<1>3. QED
  BY <1>1, <1>2

(* All but the last element of a sequence. *)
LEMMA Front ==
  ASSUME NEW s \in Seq(Events), Len(s) > 0
  PROVE  SubSeq(s, 1, Len(s) - 1) \in Seq(Events)
OBVIOUS

LEMMA FrontOfAppend ==
  ASSUME NEW s \in Seq(Events), NEW e \in Events
  PROVE  LET t == Append(s, e) IN
         /\ t \in Seq(Events) /\ Len(t) > 0 /\ t[Len(t)] = e
         /\ SubSeq(t, 1, Len(t) - 1) = s
<1> DEFINE t == Append(s, e)
<1>1. t \in Seq(Events) /\ Len(t) = Len(s) + 1 /\ Len(s) \in Nat /\ t[Len(t)] = e
  OBVIOUS
<1>2. SubSeq(t, 1, Len(t) - 1) = s
  BY <1>1
<1>3. QED
  BY <1>1, <1>2

(* What the journal records of a build it keeps on record. *)
LEMMA RecordedGrows ==
  ASSUME journal \in Seq(Events), NEW e \in Seq(Events), NEW R, Recorded(e, R, journal),
         journal' = journal \/ \E x \in Events : journal' = Append(journal, x)
  PROVE  Recorded(e, R, journal')
<1>1. CASE Prefix(e, journal)
  BY <1>1, PrefixGrows DEF Recorded
<1>2. CASE ~Prefix(e, journal)
  <2>1. /\ Len(e) > 0 /\ e[Len(e)].type = "purge" /\ e[Len(e)].source \notin R
        /\ Prefix(SubSeq(e, 1, Len(e) - 1), journal)
    BY <1>2 DEF Recorded
  <2>2. Prefix(SubSeq(e, 1, Len(e) - 1), journal')
    BY <2>1, Front, PrefixGrows
  <2>3. QED
    BY <2>1, <2>2 DEF Recorded
<1>3. QED
  BY <1>1, <1>2

(* The journal is only ever appended to. *)
LEMMA JournalGrows ==
  ASSUME TypeInv, [Next]_vars
  PROVE  journal' = journal \/ \E e \in Events : journal' = Append(journal, e)
<1>1. CASE UNCHANGED journal
  BY <1>1
<1>2. ASSUME NEW p \in Procs, RecordToggle(p) PROVE \E e \in Events : journal' = Append(journal, e)
  <2>1. target[p] \in Sources /\ op[p] \in {"enable", "disable", "purge"}
    BY <1>2 DEF RecordToggle, TypeInv, Holds
  <2>2. EventOf(target[p], "disable") \in Events /\ EventOf(target[p], op[p]) \in Events
    BY <2>1, EventType
  <2>3. QED
    BY <1>2, <2>2 DEF RecordToggle
<1>3. ASSUME NEW p \in Procs, JournalPurge(p) PROVE \E e \in Events : journal' = Append(journal, e)
  BY <1>3, EventType DEF JournalPurge, TypeInv, Holds
<1>4. ASSUME NEW p \in Procs, ~RecordToggle(p), ~JournalPurge(p), Start(p) \/ Step(p)
      PROVE  UNCHANGED journal
  BY <1>4 DEF Step, Start, StartBuild, StartToggle, StartPurge, Launch, ReadRegistry,
       FlipSwitch, ReadHistory, BuildCandidate, PurgeCopy, BuildFails, Promote, Crash, filesVars
<1>5. QED
  BY <1>1, <1>2, <1>3, <1>4 DEF Next, vars, filesVars

LEMMA ReadCarries ==
  ASSUME TypeInv, NEW p \in Procs, ReadHistory(p)
  PROVE  Carries(p)'
<1>1. /\ target[p] \in Sources /\ journal \in Seq(Events) /\ journal' = journal
      /\ op' = op /\ target' = target /\ pc'[p] = "build"
      /\ history'[p] = IF op[p] = "purge" THEN Append(journal, EventOf(target[p], "purge"))
                       ELSE journal
<2>1. pc \in [Procs -> Phases] /\ history \in [Procs -> Seq(Events)] /\ journal \in Seq(Events)
  BY DEF TypeInv, TypeOK
<2>2. target[p] \in Sources
  BY DEF TypeInv, Holds, ReadHistory
<2>3. journal' = journal /\ op' = op /\ target' = target
  BY DEF ReadHistory, filesVars
<2>4. pc'[p] = "build"
  BY <2>1 DEF ReadHistory, Goto
<2>5. history'[p] = IF op[p] = "purge" THEN Append(journal, EventOf(target[p], "purge")) ELSE journal
  BY <2>1 DEF ReadHistory
<2>6. QED
  BY <2>1, <2>2, <2>3, <2>4, <2>5
<1>2. EventOf(target[p], "purge") \in Events
  BY <1>1, EventType
<1>3. Prefix(journal, journal)
  BY <1>1 DEF Prefix
<1>4. CASE op[p] = "purge"
<2> DEFINE e == EventOf(target[p], "purge")
           t == Append(journal, e)
<2>1. Len(t) > 0 /\ t[Len(t)] = e /\ SubSeq(t, 1, Len(t) - 1) = journal
  BY <1>1, <1>2, FrontOfAppend
<2>2. /\ history'[p] = t /\ EventOf(target[p], "purge")' = e /\ op'[p] = "purge"
      /\ journal' = journal /\ pc'[p] = "build"
  BY <1>1, <1>4 DEF EventOf
<2> HIDE DEF t, e
<2>3. QED
  BY <1>3, <2>1, <2>2 DEF Carries
<1>5. CASE op[p] # "purge"
  BY <1>1, <1>3, <1>5 DEF Carries
<1>6. QED
  BY <1>4, <1>5

LEMMA CandidateCarries ==
  ASSUME TypeInv, TypeInv', HistoryInv, NEW p \in Procs, BuildCandidate(p) \/ PurgeCopy(p)
  PROVE  Carries(p)'
<1>1. /\ pc[p] = "build" /\ pc'[p] = "promote" /\ journal' = journal
      /\ cand'[p].events = history[p] /\ cand'[p] \in Builds
<2>1. pc \in [Procs -> Phases] /\ p \in DOMAIN cand
  BY DEF TypeInv, TypeOK
<2>2. pc[p] = "build" /\ pc' = [pc EXCEPT ![p] = "promote"] /\ journal' = journal
  BY DEF BuildCandidate, PurgeCopy, Goto, filesVars
<2>3. pc'[p] = "promote"
  BY <2>1, <2>2
<2>4. cand'[p] \in Builds
  BY <2>3 DEF TypeInv, Holds
<2>5. cand'[p].events = history[p]
<3>1. CASE BuildCandidate(p)
  BY <2>1, <3>1 DEF BuildCandidate, Materialized
<3>2. CASE PurgeCopy(p)
  BY <2>1, <3>2 DEF PurgeCopy, Materialized
<3>3. QED
  BY <3>1, <3>2
<2>6. QED
  BY <2>2, <2>3, <2>4, <2>5
<1>2. CASE BuildCandidate(p)
  BY <1>1, <1>2 DEF BuildCandidate, HistoryInv, Carries, Recorded
<1>3. CASE PurgeCopy(p)
  <2>1. base[p] \in Builds /\ target[p] \in Sources /\ op[p] = "purge"
    BY <1>3 DEF PurgeCopy, TypeInv, Holds
  <2>2. cand'[p] = [snaps |-> [base[p].snaps EXCEPT ![target[p]] = 0], events |-> history[p]]
    BY <1>3 DEF PurgeCopy, Materialized, TypeInv, TypeOK
  <2>3. target[p] \notin Rows(cand'[p])
    BY <1>1, <2>1, <2>2, NoneIsNoBuild, RowsOfCopy
  <2>4. /\ Len(history[p]) > 0 /\ history[p][Len(history[p])] = EventOf(target[p], "purge")
        /\ Prefix(SubSeq(history[p], 1, Len(history[p]) - 1), journal)
    BY <1>1, <2>1 DEF HistoryInv, Carries
  <2>5. Rows(cand'[p]) = Rows(cand[p])'
    BY DEF Rows
  <2>6. QED
    BY <1>1, <2>3, <2>4, <2>5 DEF Carries, Recorded, EventOf
<1>4. QED
  BY <1>2, <1>3

(* What a run has read stays what it read, and on record. *)
LEMMA SameCarries ==
  ASSUME TypeInv, [Next]_vars, NEW q \in Procs, Carries(q),
         \/ pc'[q] \notin {"build", "promote"}
         \/ <<pc[q], op[q], target[q], history[q], cand[q]>>'
              = <<pc[q], op[q], target[q], history[q], cand[q]>>
  PROVE  Carries(q)'
<1>1. CASE pc'[q] \notin {"build", "promote"}
  BY <1>1 DEF Carries
<1>2. CASE <<pc[q], op[q], target[q], history[q], cand[q]>>'
             = <<pc[q], op[q], target[q], history[q], cand[q]>>
  <2>1. journal \in Seq(Events) /\ history[q] \in Seq(Events)
        /\ (pc[q] = "promote" => cand[q].events \in Seq(Events))
    BY DEF TypeInv, TypeOK, Holds, Builds
  <2>2. Rows(cand[q])' = Rows(cand[q])
    BY <1>2 DEF Rows
  <2>3. pc[q] = "promote" => Recorded(cand[q].events, Rows(cand[q]), journal')
    BY <1>2, <2>1, <2>2, JournalGrows, RecordedGrows DEF Carries, Recorded
  <2>4. Prefix(history[q], journal) => Prefix(history[q], journal')
    BY <2>1, JournalGrows, PrefixGrows
  <2>5. Len(history[q]) > 0 /\ Prefix(SubSeq(history[q], 1, Len(history[q]) - 1), journal)
          => Prefix(SubSeq(history[q], 1, Len(history[q]) - 1), journal')
    BY <2>1, JournalGrows, PrefixGrows, Front
  <2>6. QED
    BY <1>2, <2>3, <2>4, <2>5 DEF Carries
<1>3. QED
  BY <1>1, <1>2

(* A step of one run leaves the locals of another alone. *)
LEMMA OthersKept ==
  ASSUME TypeInv, NEW p \in Procs, NEW q \in Procs, p # q, Start(p) \/ Step(p)
  PROVE  /\ pc'[q] = pc[q] /\ op'[q] = op[q] /\ target'[q] = target[q]
         /\ history'[q] = history[q] /\ cand'[q] = cand[q]
<1> USE DEF Goto, filesVars, localVars
<1>0. \A f : \A e : [f EXCEPT ![p] = e][q] = f[q] \/ q \notin DOMAIN f
  OBVIOUS
<1>1. q \in DOMAIN pc /\ q \in DOMAIN op /\ q \in DOMAIN target /\ q \in DOMAIN history /\ q \in DOMAIN cand
  BY DEF TypeInv, TypeOK
<1>2. CASE Finish(p)
  BY <1>0, <1>1, <1>2 DEF Finish
<1>3. ASSUME NEW o, NEW s, NEW phase, Launch(p, o, s, phase)
      PROVE  /\ pc'[q] = pc[q] /\ op'[q] = op[q] /\ target'[q] = target[q]
             /\ history'[q] = history[q] /\ cand'[q] = cand[q]
  BY <1>0, <1>1, <1>3 DEF Launch
<1>4. CASE Start(p)
  BY <1>3, <1>4 DEF Start, StartBuild, StartToggle, StartPurge
<1>5. CASE ReadRegistry(p)
  BY <1>0, <1>1, <1>2, <1>5 DEF ReadRegistry
<1>6. CASE FlipSwitch(p)
  BY <1>0, <1>1, <1>6 DEF FlipSwitch
<1>7. CASE RecordToggle(p)
  BY <1>0, <1>1, <1>2, <1>7 DEF RecordToggle
<1>8. CASE ReadHistory(p)
  BY <1>0, <1>1, <1>8 DEF ReadHistory
<1>9. CASE BuildCandidate(p)
  BY <1>0, <1>1, <1>9 DEF BuildCandidate
<1>10. CASE PurgeCopy(p)
  BY <1>0, <1>1, <1>10 DEF PurgeCopy
<1>11. CASE BuildFails(p)
  BY <1>2, <1>11 DEF BuildFails
<1>12. CASE Promote(p)
  BY <1>0, <1>1, <1>2, <1>12 DEF Promote
<1>13. CASE JournalPurge(p)
  BY <1>2, <1>13 DEF JournalPurge
<1>14. CASE Crash(p)
  BY <1>2, <1>14 DEF Crash
<1>15. QED
  BY <1>4, <1>5, <1>6, <1>7, <1>8, <1>9, <1>10, <1>11, <1>12, <1>13, <1>14 DEF Step

(* Once a run has neither a candidate to make nor one to promote. *)
LEMMA PhaseLeft ==
  ASSUME TypeInv, NEW p \in Procs, Start(p) \/ Step(p),
         ~ReadHistory(p), ~BuildCandidate(p), ~PurgeCopy(p)
  PROVE  pc'[p] \notin {"build", "promote"}
<1> USE DEF Goto, filesVars, localVars
<1>1. p \in DOMAIN pc
  BY DEF TypeInv, TypeOK
<1>2. \A phase : Goto(p, phase) => pc'[p] = phase
  BY <1>1
<1> HIDE DEF Goto
<1>3. Finish(p) => pc'[p] = "idle"
  BY <1>2 DEF Finish
<1>4. CASE Start(p)
  BY <1>2, <1>4 DEF Start, StartBuild, StartToggle, StartPurge, Launch
<1>5. CASE ReadRegistry(p)
  BY <1>2, <1>3, <1>5 DEF ReadRegistry
<1>6. CASE FlipSwitch(p) \/ RecordToggle(p) \/ Promote(p)
  BY <1>2, <1>3, <1>6 DEF FlipSwitch, RecordToggle, Promote
<1>7. CASE BuildFails(p) \/ JournalPurge(p) \/ Crash(p)
  BY <1>3, <1>7 DEF BuildFails, JournalPurge, Crash
<1>8. QED
  BY <1>4, <1>5, <1>6, <1>7 DEF Step

LEMMA CarriesStep ==
  ASSUME TypeInv, TypeInv', HistoryInv, [Next]_vars, NEW q \in Procs
  PROVE  Carries(q)'
<1> USE DEF Goto, filesVars, localVars
<1>0. Carries(q)
  BY DEF HistoryInv
<1>1. CASE UNCHANGED vars
  BY <1>0, <1>1, SameCarries DEF vars
<1>2. ASSUME NEW p \in Procs, Start(p) \/ Step(p) PROVE Carries(q)'
  <2>1. CASE p = q /\ (ReadHistory(p) \/ BuildCandidate(p) \/ PurgeCopy(p))
    BY <2>1, ReadCarries, CandidateCarries
  <2>2. CASE p = q /\ ~ReadHistory(p) /\ ~BuildCandidate(p) /\ ~PurgeCopy(p)
    BY <1>0, <1>2, <2>2, PhaseLeft, SameCarries
  <2>3. CASE p # q
    BY <1>0, <1>2, <2>3, OthersKept, SameCarries
  <2>4. QED
    BY <2>1, <2>2, <2>3
<1>3. QED
  BY <1>1, <1>2 DEF Next

LEMMA HistoryIsRecorded ==
  BuildHistory <=> (active # None => Recorded(active.events, Rows(active), journal))
  BY DEF BuildHistory, Recorded

LEMMA ActiveRecorded ==
  ASSUME TypeInv, TypeInv', HistoryInv, [Next]_vars, active' # None
  PROVE  Recorded(active'.events, Rows(active'), journal')
<1> USE DEF filesVars
<1>0. journal \in Seq(Events)
  BY DEF TypeInv, TypeOK
<1>1. CASE active' = active
  <2>1. Recorded(active.events, Rows(active), journal) /\ active.events \in Seq(Events)
    BY <1>1, HistoryIsRecorded DEF HistoryInv, TypeInv, TypeOK, Builds
  <2>2. QED
    BY <1>0, <1>1, <2>1, JournalGrows, RecordedGrows
<1>2. CASE active' # active
  <2>1. PICK p \in Procs : Promote(p)
    BY <1>2 DEF Next, Step, Start, StartBuild, StartToggle, StartPurge, Launch, ReadRegistry,
       FlipSwitch, RecordToggle, ReadHistory, BuildCandidate, PurgeCopy, BuildFails, JournalPurge,
       Crash, vars
  <2>2. pc[p] = "promote" /\ active' = cand[p] /\ journal' = journal
    BY <1>2, <2>1 DEF Promote
  <2>3. QED
    BY <2>2 DEF HistoryInv, Carries
<1>3. QED
  BY <1>1, <1>2

(* policy_events.py: however runs overlap and die, the event table of the  *)
(* active build is the journal as some run read it, plus the event of the  *)
(* purge that made the build, whose rows are gone from it.                 *)
THEOREM HistoryAlwaysTrue == Spec => []BuildHistory
<1>1. Init => TypeInv /\ HistoryInv
  BY InitType DEF Init, HistoryInv, BuildHistory, Carries
<1>2. TypeInv /\ HistoryInv /\ [Next]_vars => HistoryInv'
  <2> SUFFICES ASSUME TypeInv, HistoryInv, [Next]_vars PROVE HistoryInv'
    OBVIOUS
  <2>1. TypeInv'
    BY TypeStep
  <2>2. \A q \in Procs : Carries(q)'
    BY <2>1, CarriesStep
  <2>3. BuildHistory'
    BY <2>1, ActiveRecorded DEF BuildHistory, Recorded, Rows
  <2>4. QED
    BY <2>2, <2>3 DEF HistoryInv
<1>3. HistoryInv => BuildHistory
  BY DEF HistoryInv
<1>4. QED
  BY <1>1, <1>2, <1>3, TypeStep, PTL DEF Spec
================================================================================
