------------------------------ MODULE RosterView -------------------------------
(***************************************************************************)
(* The lists of operators: the tools over the synced account (services/    *)
(* account.py, tools/account.py) and find_operators (services/             *)
(* base_skills.py), which join the roster with the operators of the build. *)
(*                                                                         *)
(* w.account is the stored row: None, or its stamp and snapshot with a     *)
(* user of syncData, or with none when it is of another schema version.     *)
(***************************************************************************)
EXTENDS Roster

CONSTANT AccountServer   \* ACCOUNT_SERVER

(***************************************************************************)
(* Operators of the build (db/repositories/operators.py)                   *)
(***************************************************************************)
Builds(w, server, id) == {o \in w.operators : o.server = server /\ o.id = id}
BuildOf(w, server, id) == IF Builds(w, server, id) = {} THEN None ELSE CHOOSE o \in Builds(w, server, id) : TRUE
Rarity(build) == IF build = None \/ build.rarity = None THEN 0 ELSE build.rarity

(* A build from before the base-skill domain answers every filter with nothing. *)
FilterOperators(w, req) ==
  IF ~w.domain THEN <<>>
  ELSE OrderBy(
    {o \in w.operators : /\ o.server = req.server /\ o.obtainable
                         /\ req.room # None => \E s \in o.base : s.room = req.room
                         /\ req.faction # None => \E f \in o.factions : f.faction = req.faction
                         /\ req.collab # None => o.collab = req.collab},
    LAMBDA a, b : Rarity(a) > Rarity(b) \/ (Rarity(a) = Rarity(b) /\ a.id < b.id))

KnownFaction(w, req) ==
  w.domain /\ \E o \in w.operators : o.server = req.server /\ \E f \in o.factions : f.faction = req.faction

Identity(id, build) ==
  [game_id |-> id] ++ (IF build = None THEN Nothing
                       ELSE [display_name |-> build.name, rarity |-> build.rarity, profession |-> build.profession])
FactionEntries(o) ==
  LET fs == OrderBy(o.factions, LAMBDA a, b : (a.main /\ ~b.main) \/ (a.main = b.main /\ a.faction < b.faction))
  IN [i \in DOMAIN fs |-> DropNulls([faction_id |-> fs[i].faction, main |-> IF fs[i].main THEN TRUE ELSE None])]

(***************************************************************************)
(* base_skill_entries                                                      *)
(***************************************************************************)
Reached(s, at) == at[1] > s.phase \/ (at[1] = s.phase /\ at[2] >= s.level)
(* The last reached stage of its slot. *)
InEffect(o, s, at) == Reached(s, at) /\ \A t \in o.base : t.slot = s.slot /\ Reached(t, at) => t.stage <= s.stage

(* Of a room if one is asked for; with progress, a stage that a later one replaced is
   left out. *)
BaseSkillEntries(o, room, at) ==
  LET told == {s \in o.base : /\ room # None => s.room = room
                              /\ at # None => ~Reached(s, at) \/ InEffect(o, s, at)}
      rows == OrderBy(told, LAMBDA a, b : a.slot < b.slot \/ (a.slot = b.slot /\ a.stage < b.stage))
  IN [i \in DOMAIN rows |->
       [slot |-> rows[i].slot, room_type |-> IF room = None THEN rows[i].room ELSE None,
        unlock_elite |-> rows[i].phase, unlock_level |-> rows[i].level,
        in_effect |-> IF at = None THEN None ELSE InEffect(o, rows[i], at)]]

(***************************************************************************)
(* operator_rows_ok                                                        *)
(***************************************************************************)
(* A value that is missing is no field of an identity. *)
EmitsProfession(rows) ==
  \E i \in DOMAIN rows : "profession" \in DOMAIN rows[i] /\ rows[i].profession # None
OperatorRowsOk(rows, data, prov, lims) ==
  Build("ok", data ++ (IF EmitsProfession(rows) THEN [enum_legend |-> <<[profession |-> TRUE]>>] ELSE Nothing),
        prov, lims \cup If(EmitsProfession(rows), {<<"enum_note">>}))

(***************************************************************************)
(* find_operators                                                          *)
(***************************************************************************)
FindOperators(w, req) ==
  LET all  == FilterOperators(w, req)
      page == PageOf(all, req.page, req.size)
      row(o) == Identity(o.id, o) ++ [factions |-> FactionEntries(o), collab |-> o.collab]
                ++ (IF req.room = None THEN Nothing ELSE [base_skills |-> BaseSkillEntries(o, req.room, None)])
      rows == [i \in DOMAIN page |-> row(page[i])]
  IN IF req.faction # None /\ ~KnownFaction(w, req) THEN Error("not_found")
     ELSE OperatorRowsOk(rows,
            [about |-> <<[server |-> req.server, room_type |-> req.room, faction_id |-> req.faction]>>,
             operators |-> rows, page |-> <<SectionPage(req.page, req.size, Len(all))>>],
            {o.snap : o \in ToSet(all)},
            If(all = <<>>, IF w.domain THEN {<<"no_match">>} ELSE {<<"no_domain">>})
              \cup If(req.room # None /\ page # <<>>, {<<"slot_note">>})
              \cup If(req.collab # None, {<<"collab_note">>}))

(***************************************************************************)
(* The account tools                                                       *)
(***************************************************************************)
(* _stored: the reason there is no roster to answer from. *)
Gate(w, req) ==
  IF req.server # AccountServer THEN "unsupported_server"
  ELSE IF w.account = None THEN "account_unavailable"
  ELSE IF w.account.user = None THEN "schema_incompatible" ELSE "ok"
(* _shape, of an outcome that is no answer *)
ShapeFailure(status) ==
  Error(CASE status = "account_unavailable" -> "database_unavailable"
          [] status = "unknown_faction"     -> "not_found"
          [] OTHER                          -> status)

(* The stored user as the sync parsed it. *)
Owned(w) == ParseSyncData(w.account.user)
AccountProvenance(w, builds) == {w.account.snap} \cup {b.snap : b \in builds \ {None}}
Progress(op) == <<op.elite, op.level>>
AccountIdentity(op, build) ==
  Identity(op.char, build) ++ [elite |-> op.elite, level |-> op.level, potential |-> op.potential,
                               skill_level |-> op.rank]

Filtered(req) == req.room # None \/ req.faction # None \/ req.collab # None
(* The owned operators a request asks for; without a build an operator has no rarity
   and matches no filter. *)
Matching(w, req) ==
  LET build(op) == BuildOf(w, req.server, op.char)
  IN {op \in Owned(w).operators :
        /\ req.rarity # None => Rarity(build(op)) >= req.rarity
        /\ req.elite # None => op.elite >= req.elite
        /\ Filtered(req) => build(op) \in ToSet(FilterOperators(w, req))}

RosterOrder(w, req, ops) ==
  LET r(op) == Rarity(BuildOf(w, req.server, op.char))
  IN OrderBy(ops, LAMBDA a, b :
       \/ r(a) > r(b)
       \/ r(a) = r(b) /\ a.elite > b.elite
       \/ r(a) = r(b) /\ a.elite = b.elite /\ a.level > b.level
       \/ r(a) = r(b) /\ a.elite = b.elite /\ a.level = b.level /\ a.char < b.char)

(* Parts of an alternate form are told apart and never named. *)
BaseModules(op) == {m \in op.modules : m.form = op.char}
Typed(build, id) == IF build = None THEN {} ELSE {m \in build.modules : m.id = id}
TheOne(found, field) == IF found = {} THEN None ELSE (CHOOSE m \in found : TRUE)[field]
RosterRow(w, req, op) ==
  LET build == BuildOf(w, req.server, op.char)
  IN AccountIdentity(op, build)
     ++ [masteries |-> {s \in op.skills : s.form = op.char},
         modules |-> {[module_id |-> m.id, module_type |-> TheOne(Typed(build, m.id), "type"), level |-> m.level] :
                        m \in BaseModules(op)},
         equipped_module_id |-> IF op.equipped = NoId THEN None ELSE op.equipped]
     ++ (IF req.room = None \/ build = None THEN Nothing
         ELSE [base_skills |-> BaseSkillEntries(build, req.room, Progress(op))])

Synced(w, req) == [server |-> req.server, synced_at |-> w.account.synced]

GetMyRoster(w, req) ==
  LET all  == RosterOrder(w, req, Matching(w, req))
      page == PageOf(all, req.page, req.size)
      rows == [i \in DOMAIN page |-> RosterRow(w, req, page[i])]
      build(op) == BuildOf(w, req.server, op.char)
  IN IF Gate(w, req) # "ok" THEN ShapeFailure(Gate(w, req))
     ELSE IF req.faction # None /\ ~KnownFaction(w, req) THEN ShapeFailure("unknown_faction")
     ELSE OperatorRowsOk(rows,
            [about |-> <<Synced(w, req) ++ [room_type |-> req.room, faction_id |-> req.faction]>>,
             operators |-> rows, page |-> <<SectionPage(req.page, req.size, Len(all))>>],
            AccountProvenance(w, {build(op) : op \in ToSet(all)}),
            {<<"snapshot_note">>}
              \cup If(\E op \in ToSet(page) : build(op) = None, {<<"unknown_operator">>})
              \cup If(all = <<>>, {<<"no_match">>})
              \cup If(Filtered(req) /\ ~w.domain, {<<"no_domain">>})
              \cup If(\E i \in DOMAIN rows : "base_skills" \in DOMAIN rows[i] /\ rows[i].base_skills # <<>>,
                      {<<"slot_note">>})
              \cup If(req.collab # None, {<<"collab_note">>}))

SkillRow(op, build, s) ==
  LET named == IF build = None \/ s.form # op.char THEN {} ELSE {x \in build.skills : x.id = s.id}
  IN [skill_id |-> s.id, display_name |-> TheOne(named, "name"), mastery |-> s.mastery, unlocked |-> s.unlocked,
      form_id |-> IF s.form = op.char THEN None ELSE s.form]
ModuleRow(op, build, m) ==
  LET named == IF m.form # op.char THEN {} ELSE Typed(build, m.id)
  IN [module_id |-> m.id, display_name |-> TheOne(named, "name"), module_type |-> TheOne(named, "type"),
      level |-> m.level, equipped |-> m.id = op.equipped, form_id |-> IF m.form = op.char THEN None ELSE m.form]

GetMyOperator(w, req) ==
  LET op      == CHOOSE o \in Owned(w).operators : o.char = req.value
      build   == BuildOf(w, req.server, req.value)
      skills  == {SkillRow(op, build, s) : s \in op.skills}
      modules == {ModuleRow(op, build, m) : m \in op.modules}
      skins   == {[skin_id |-> k.id, display_name |-> k.name, alt_form |-> IF k.alternate THEN TRUE ELSE None] :
                    k \in {x \in build.skins : x.id \in Owned(w).skins}}
      row     == AccountIdentity(op, build) ++ [current_skin_id |-> op.skin]
  IN IF Gate(w, req) # "ok" THEN ShapeFailure(Gate(w, req))
     ELSE IF ~\E o \in Owned(w).operators : o.char = req.value THEN ShapeFailure("not_found")
     ELSE OperatorRowsOk(<<row>>,
            [about |-> <<Synced(w, req)>>, operator |-> <<row>>, skills |-> Listed(skills),
             modules |-> Listed(modules)]
            ++ (IF build = None THEN Nothing ELSE [skins |-> Listed(skins)]),
            AccountProvenance(w, {build}),
            {<<"snapshot_note">>, IF build = None THEN <<"unknown_operator">> ELSE <<"skins_note">>}
              \cup If(\E p \in skills \cup modules : p.display_name = None, {<<"unnamed_part">>}))

(* Items in the order of their ids. *)
GetMyInventory(w, req) ==
  LET held  == Owned(w).inventory
      all   == OrderBy(DOMAIN held, LAMBDA a, b : a < b)
      page  == PageOf(all, req.page, req.size)
      named == {i \in w.items : i.server = req.server /\ i.name # None /\ i.id \in ToSet(page)}
      name(id) == TheOne({i \in named : i.id = id}, "name")
      rows  == [i \in DOMAIN page |-> [item_id |-> page[i], display_name |-> name(page[i]), count |-> held[page[i]]]]
  IN IF Gate(w, req) # "ok" THEN ShapeFailure(Gate(w, req))
     ELSE OperatorRowsOk(<<>>,
            [about |-> <<Synced(w, req) ++ [lmd |-> Owned(w).lmd]>>, items |-> rows,
             page |-> <<SectionPage(req.page, req.size, Len(all))>>],
            {w.account.snap} \cup If(named # {}, {s.id : s \in {x \in w.snapshots : x.server = req.server}}),
            {<<"snapshot_note">>} \cup If(all = <<>>, {<<"no_items">>})
              \cup If(\E i \in DOMAIN page : name(page[i]) = None, {<<"unnamed_item">>}))
===============================================================================
