--------------------------- MODULE ImportPipeline ----------------------------
(***************************************************************************)
(* One sync from the staged snapshots to promotion (importers/pipeline.py, *)
(* cli/sync.py, cli/_shared.py, db/validate.py): for each server the       *)
(* mandatory and the optional domains, then the search index, the          *)
(* ride-alongs on the finished candidate, the rebuilt index and the gate.  *)
(*                                                                         *)
(* A file's content is chosen when its importer reads it: Ordinary[d], or, *)
(* at most MaxIrregular times a run, one of Irregular[d].                  *)
(***************************************************************************)
EXTENDS Importers

CONSTANTS ServerOrder,        \* the servers of the run, in order
          Feeds,              \* those with an announcement feed configured
          Ordinary, Irregular,
          MaxIrregular

(* _resolve_servers: one server, or en and then cn. *)
ASSUME PipelineAssumption ==
  /\ ServerOrder \in Seq({"en", "cn"}) /\ ServerOrder # <<>> /\ IsInjective(ServerOrder)
  /\ MaxIrregular \in Nat

(* The levels of an enemy of the database are a list; so are the rows of a level's board, its
   routes, its enemy refs, its waves and a wave's actions; what an action counts is a number. *)
List(s) == s \in Seq(ToSet(s))
LevelFile(lv) ==
  /\ List(lv.grid) /\ List(lv.routes) /\ List(lv.refs) /\ List(lv.waves)
  /\ \A i \in DOMAIN lv.routes : lv.routes[i].start \in Int \X Int
  /\ \A w \in DOMAIN lv.waves :
       /\ List(lv.waves[w])
       /\ \A i \in DOMAIN lv.waves[w] : {lv.waves[w][i].time, lv.waves[w][i].count} \subseteq Int
ASSUME FilesAssumption ==
  /\ \A d \in {"enemies", "stages", "base_skills", "ranges", "penguin", "announcements"} :
       \A raw \in {Ordinary[d]} \cup Irregular[d] :
         raw.shape \in {"absent", "corrupt", "foreign", "ok"}
  /\ \A d \in {"banners", "skins"} : \A raw \in {Ordinary[d]} \cup Irregular[d] :
       raw.shape \in {"absent", "corrupt", "foreign", "bare", "ok"}
  /\ \A raw \in {Ordinary["enemies"]} \cup Irregular["enemies"] :
       raw.shape = "ok" => \A e \in DOMAIN raw.database : List(raw.database[e])
  /\ \A raw \in {Ordinary["stages"]} \cup Irregular["stages"] :
       raw.shape = "ok" => \A f \in DOMAIN raw.files : LevelFile(raw.files[f])

VARIABLES at,         \* the position of the next step
          db,         \* the candidate
          outcome,    \* "building", "failed" or "promoted"
          reported,   \* steps that failed open, and said so
          given,      \* the files read so far (history)
          irregular   \* how many of them were irregular

vars == <<at, db, outcome, reported, given, irregular>>

Servers == ToSet(ServerOrder)

(* The tables an optional domain or a ride-along owns, and its source paths. *)
Owned == [banners       |-> {"banners", "banner_featured_ops"},
          skins         |-> {"operator_skins"},
          base_skills   |-> {"base_skills", "operator_base_skills"},
          ranges        |-> {"ranges"},
          penguin       |-> {"items", "stage_drops"},
          announcements |-> {"announcements"}]

SourcePaths == [banners       |-> {"gacha_table"},
                skins         |-> {"skin_table"},
                base_skills   |-> {"building_data"},
                ranges        |-> {"range_table"},
                penguin       |-> {"items", "result/matrix"},
                announcements |-> {"announcements"}]

Combat == {"enemies", "enemy_levels", "zones", "stages", "stage_maps", "stage_tiles",
           "stage_routes", "stage_enemy_variants", "stage_waves", "stage_spawns",
           "stage_enemies"}
Roster == {"skills", "skill_levels", "operators", "operator_aliases", "operator_phases",
           "operator_skills", "talents", "talent_levels", "operator_factions", "modules",
           "module_levels"}
Tables == Combat \cup Roster \cup (UNION {Owned[d] : d \in DOMAIN Owned})
          \cup {"source_snapshots", "record_provenance", "entity_fts"}

InBuild  == <<"enemies", "stages", "operators", "modules",
              "banners", "skins", "base_skills", "ranges">>
ForEach(steps) ==
  [n \in 1..(Len(ServerOrder) * Len(steps)) |->
     <<ServerOrder[((n - 1) \div Len(steps)) + 1], steps[((n - 1) % Len(steps)) + 1]>>]
Plan == ForEach(InBuild) \o <<<<"all", "index">>>> \o ForEach(<<"penguin">>)
        \o ForEach(<<"announcements">>) \o <<<<"all", "reindex">>, <<"all", "gate">>>>
StepKinds == ToSet(InBuild) \cup {"index", "penguin", "announcements", "reindex", "gate"}

TypeOK ==
  /\ at \in 1..(Len(Plan) + 1)
  /\ DOMAIN db = Tables
  /\ outcome \in {"building", "failed", "promoted"}
  /\ outcome = "promoted" => at = Len(Plan) + 1
  /\ reported \subseteq (Servers \cup {"all"}) \X StepKinds
  /\ DOMAIN given \subseteq Servers \X StepKinds
  /\ irregular \in 0..MaxIrregular

Init ==
  /\ at = 1
  /\ db = [t \in Tables |-> {}]
  /\ outcome = "building"
  /\ reported = {} /\ irregular = 0
  /\ given = [k \in {} |-> {}]

Due(s, step) == outcome = "building" /\ at <= Len(Plan) /\ Plan[at] = <<s, step>>
Done         == at' = at + 1
Insert(rows) == db' = [t \in Tables |-> db[t] \cup RowsOf(rows, t)]

Read(s, d, raw) ==
  /\ given' = [k \in DOMAIN given \cup {<<s, d>>} |-> IF k = <<s, d>> THEN raw ELSE given[k]]
  /\ \/ raw = Ordinary[d] /\ irregular' = irregular
     \/ raw # Ordinary[d] /\ irregular < MaxIrregular /\ irregular' = irregular + 1
Files(d) == {Ordinary[d]} \cup IF irregular < MaxIrregular THEN Irregular[d] ELSE {}

(* The rows enter the candidate; any error discards it. *)
FailClosed(result) ==
  /\ UNCHANGED reported
  /\ IF result.error = "none"
     THEN Insert(result.rows) /\ Done /\ UNCHANGED outcome
     ELSE outcome' = "failed" /\ UNCHANGED <<db, at>>

(* Slip: no savepoint, so the rows before the error stay. *)
ImportOptionalDomainLeaking(s, d, result) ==
  IF result.error = "other" THEN outcome' = "failed" /\ UNCHANGED <<db, at, reported>>
  ELSE /\ Insert(result.rows)
       /\ reported' = IF result.error = "none" THEN reported ELSE reported \cup {<<s, d>>}
       /\ Done /\ UNCHANGED outcome

(* guards.import_optional_domain: an ImporterError rolls back to the savepoint
   and is logged; anything else tears the build down. *)
ImportOptionalDomain(s, d, result) ==
  IF result.error = "other" THEN outcome' = "failed" /\ UNCHANGED <<db, at, reported>>
  ELSE /\ IF result.error = "none" THEN Insert(result.rows) /\ UNCHANGED reported
          ELSE UNCHANGED db /\ reported' = reported \cup {<<s, d>>}
       /\ Done /\ UNCHANGED outcome

(* Slip: only an ImporterError is caught. *)
RideAlongStrict(s, d, result) ==
  IF result.error = "other" THEN outcome' = "failed" /\ UNCHANGED <<db, at, reported>>
  ELSE /\ IF result.error = "none" THEN Insert(result.rows) /\ UNCHANGED reported
          ELSE UNCHANGED db /\ reported' = reported \cup {<<s, d>>}
       /\ Done /\ UNCHANGED outcome

(* cli.sync._ride_along: every error rolls the server's rows back and is printed. *)
RideAlong(s, d, result) ==
  /\ IF result.error = "none" THEN Insert(result.rows) /\ UNCHANGED reported
     ELSE UNCHANGED db /\ reported' = reported \cup {<<s, d>>}
  /\ Done /\ UNCHANGED outcome

(* _import_one opens the server's snapshot and imports the enemies. *)
ImportOneEnemies(s) ==
  /\ Due(s, "enemies")
  /\ \E raw \in Files("enemies") :
       LET result == ImportEnemies(s, raw)
       IN /\ Read(s, "enemies", raw)
          /\ FailClosed([result EXCEPT !.rows =
                           Join(@, InsertSnapshot(s, GameData))])

ImportOneStages(s) ==
  /\ Due(s, "stages")
  /\ \E raw \in Files("stages") :
       Read(s, "stages", raw) /\ FailClosed(ImportStages(s, raw, db))

ImportOneOperators(s) ==
  /\ Due(s, "operators")
  /\ \E raw \in Files("operators") :
       Read(s, "operators", raw) /\ FailClosed(ImportOperators(s, raw))

ImportOneModules(s) ==
  /\ Due(s, "modules")
  /\ \E raw \in Files("modules") :
       Read(s, "modules", raw) /\ FailClosed(ImportModules(s, raw, db))

ImportOneOptional(s, d) ==
  /\ Due(s, d)
  /\ \E raw \in Files(d) :
       /\ Read(s, d, raw)
       /\ ImportOptionalDomain(s, d,
            CASE d = "banners"     -> ImportBanners(s, raw, db)
              [] d = "skins"       -> ImportSkins(s, raw, db)
              [] d = "base_skills" -> ImportBaseSkills(s, raw, db)
              [] d = "ranges"      -> ImportRanges(s, raw))

(* build_candidate's last step, before it commits and closes. *)
IndexBuild ==
  /\ Due("all", "index")
  /\ Insert([entity_fts |-> BuildSearchIndex(db)])
  /\ Done /\ UNCHANGED <<outcome, reported, given, irregular>>

RideAlongPenguin(s) ==
  /\ Due(s, "penguin")
  /\ \E raw \in Files("penguin") :
       Read(s, "penguin", raw) /\ RideAlong(s, "penguin", ImportPenguinDrops(s, raw, db))

(* A server without a feed_url is skipped. *)
RideAlongAnnouncements(s) ==
  /\ Due(s, "announcements")
  /\ IF s \in Feeds
     THEN \E raw \in Files("announcements") :
            /\ Read(s, "announcements", raw)
            /\ RideAlong(s, "announcements", ImportAnnouncements(s, raw))
     ELSE Done /\ UNCHANGED <<db, outcome, reported, given, irregular>>

(* _reindex_after_ride_alongs: rebuilt under a savepoint, or left as it was. *)
Reindex ==
  /\ Due("all", "reindex")
  /\ \/ /\ db' = [db EXCEPT !["entity_fts"] = BuildSearchIndex(db)]
        /\ UNCHANGED reported
     \/ /\ reported' = reported \cup {<<"all", "reindex">>}
        /\ UNCHANGED db
  /\ Done /\ UNCHANGED <<outcome, given, irregular>>

(***************************************************************************)
(* The gate (db/validate.py)                                               *)
(***************************************************************************)
Names(ref) == \E r \in db[ref[1]] : r.key = ref[2]
ForeignKeyCheck == \A t \in Tables : \A r \in db[t] : \A ref \in r.refs : Names(ref)

(* _orphans: the joins whose two servers must agree. *)
RegionChecked == {"stage_enemies", "stage_spawns", "stage_enemy_variants", "operator_skins",
                  "banner_featured_ops", "operator_base_skills"}
Orphans == \E t \in RegionChecked : \E r \in db[t] : \E ref \in r.refs :
             ref[1] \in {"enemies", "operators"} /\ ref[2][1] # r.key[1]

RowCounts == Cardinality(db["source_snapshots"]) >= 1
Golden == \A t \in {"source_snapshots", "enemies", "stages", "zones"} :
            \A r \in db[t] : r.key[1] \in {"en", "cn"}

(* validate_database, then promote_candidate or nothing. *)
Gate ==
  /\ Due("all", "gate")
  /\ outcome' = IF ForeignKeyCheck /\ ~Orphans /\ RowCounts /\ Golden
                THEN "promoted" ELSE "failed"
  /\ Done /\ UNCHANGED <<db, reported, given, irregular>>

(* The command has returned; every other state has a step. *)
Ended == outcome # "building" /\ UNCHANGED vars

Next ==
  \/ \E s \in Servers : \/ ImportOneEnemies(s) \/ ImportOneStages(s)
                        \/ ImportOneOperators(s) \/ ImportOneModules(s)
                        \/ \E d \in {"banners", "skins", "base_skills", "ranges"} :
                             ImportOneOptional(s, d)
                        \/ RideAlongPenguin(s) \/ RideAlongAnnouncements(s)
  \/ IndexBuild \/ Reindex \/ Gate \/ Ended

Spec == Init /\ [][Next]_vars

(***************************************************************************)
(* Properties                                                              *)
(***************************************************************************)
(* Every reference of every row, its provenance too, names a row that is
   there and of the same server, in every table and at every moment: also the
   references _orphans does not join. *)
Resolved ==
  \A t \in Tables \ {"entity_fts"} : \A r \in db[t] :
    /\ \A ref \in r.refs : Names(ref) /\ ref[2][1] = r.key[1]
    /\ r.prov # <<>> => Names(<<"record_provenance", r.prov>>) /\ r.prov[1] = r.key[1]

Has(t, key) == \E r \in db[t] : r.key = key
OwnRows(s, d) ==
  (UNION {{<<t, r.key>> : r \in {x \in db[t] : x.key[1] = s}} : t \in Owned[d]})
  \cup {<<"record_provenance", r.key>> :
          r \in {x \in db["record_provenance"] : x.key[1] = s /\ x.key[3] \in SourcePaths[d]}}

(* The rows a readable file of the domain promises. *)
Whole(s, d, raw) ==
  CASE d = "banners"     -> \A i \in DOMAIN raw.pools : raw.pools[i].id # NoText =>
                              /\ Has("banners", <<s, raw.pools[i].id>>)
                              /\ \A c \in ToSet(FeaturedCharIds(raw.pools[i])) :
                                   Has("banner_featured_ops", <<s, raw.pools[i].id, c>>)
    [] d = "skins"       -> \A i \in DOMAIN raw.skins :
                              LET k == raw.skins[i] IN
                              k.operator /\ k.id # NoText /\ k.portrait
                                => Has("operator_skins", <<s, k.id>>)
    [] d = "base_skills" -> \A i \in DOMAIN raw.buffs :
                              raw.buffs[i].id # NoText /\ raw.buffs[i].room
                                => Has("base_skills", <<s, raw.buffs[i].id>>)
    [] d = "ranges"      -> \A i \in DOMAIN raw.ranges : raw.ranges[i].cells # {}
                                => Has("ranges", <<s, RangeId(raw.ranges[i])>>)
    [] d = "penguin"     -> \A id \in ItemIds(raw) : Has("items", <<s, id>>)
    [] OTHER             -> \A i \in DOMAIN raw.entries : raw.entries[i].id # NoText
                                => Has("announcements", <<s, raw.entries[i].id>>)

(* The file holds entries, and the rows that then must not all be missing. *)
Offered(d, raw) ==
  CASE d = "banners"     -> DOMAIN raw.pools # {} [] d = "skins"  -> OperatorEntries(raw) # {}
    [] d = "base_skills" -> DOMAIN raw.buffs # {} [] d = "ranges" -> DOMAIN raw.ranges # {}
    [] d = "penguin"     -> ParseMatrix(raw) # {} [] OTHER -> DOMAIN raw.entries # {}
Yield(s, d) ==
  CASE d = "penguin"       -> {r \in db["stage_drops"] : r.key[1] = s}
    [] d = "announcements" -> {r \in db["announcements"] : r.key[1] = s /\ r.val}
    [] OTHER               -> OwnRows(s, d)

(* The shapes of a file that leave its domain empty and nobody told: no file of
   a domain that is optional, or one that does not hold the pools or skins. *)
Silent(d) == CASE d \in {"banners", "skins"}      -> {"absent", "bare"}
               [] d \in {"base_skills", "ranges"} -> {"absent"}
               [] OTHER                           -> {}

(* An optional domain or a ride-along is all there, or not there at all, down
   to its provenance, and then either the log says so or its file was of a shape
   that is taken for an empty domain.  A file with entries never leaves a
   silently empty or half-filled domain. *)
AllOrReported ==
  \A k \in DOMAIN given : LET s == k[1] d == k[2] raw == given[k] IN
    d \in DOMAIN Owned /\ outcome # "failed" =>
      IF k \in reported \/ raw.shape \in Silent(d) THEN OwnRows(s, d) = {}
      ELSE /\ raw.shape = "ok"
           /\ Whole(s, d, raw)
           /\ Offered(d, raw) => Yield(s, d) # {}

StagesOf(s) == {r \in db["stages"] : r.key[1] = s}

(* No promoted server whose stages name level files is without combat rows:
   the guard is per server, the gate's counts are not. *)
CombatWhole ==
  outcome = "promoted" => \A s \in Servers :
    (\E r \in StagesOf(s) : r.val # NoText) =>
      \A t \in {"stage_maps", "stage_tiles", "stage_spawns", "stage_enemies", "enemies"} :
        \E r \in db[t] : r.key[1] = s

SpawnsOf(e) == {r \in db["stage_spawns"] : /\ r.key[1] = e.key[1] /\ r.key[2] = e.key[2]
                                           /\ r.val.enemy = e.key[3]
                                           /\ r.val.level = e.key[4]
                                           /\ r.val.variant = e.key[5]}
Stated(numbers) == numbers \ {Unset}
CountAll(sps)   == FoldSet(LAMBDA r, n : n + (IF r.val.count = Unset THEN 0 ELSE r.val.count), 0, sps)

(* The enemy totals a stage shows are those of its spawn rows. *)
Tallied(e) ==
  LET sps   == SpawnsOf(e)
      times == Stated({r.val.time : r \in sps})
  IN /\ sps # {}
     /\ e.val.total = CountAll(sps)
     /\ e.val.routes = Cardinality(Stated({r.val.route : r \in sps}))
     /\ IF times = {} THEN e.val.first = Unset /\ e.val.last = Unset
        ELSE /\ e.val.first \in times /\ e.val.last \in times
             /\ \A t \in times : e.val.first <= t /\ t <= e.val.last

(* Every spawn is counted in one total. *)
Counted(r) == Has("stage_enemies",
                  <<r.key[1], r.key[2], r.val.enemy, r.val.level, r.val.variant>>)

(* The tile under a route's start is the one the file has there, counting
   rows from the bottom: routes and tiles index one board. *)
OnBoard(r) ==
  LET raw  == given[<<r.key[1], "stages">>]
      lv   == raw.files[LevelPath(raw.stages[r.key[2]])]
      rows == Reverse(lv.grid)
  IN \E i \in DOMAIN lv.routes :
       /\ RouteIndex(lv, i) = r.key[3]
       /\ LET row == lv.routes[i].start[1] + 1
              col == lv.routes[i].start[2] + 1
          IN row \in DOMAIN rows /\ col \in 1..Len(lv.grid[1]) /\ rows[row][col] \in DOMAIN lv.defs =>
               \E t \in db["stage_tiles"] :
                 t.key = <<r.key[1], r.key[2], r.val[2], r.val[1]>> /\ t.val = lv.defs[rows[row][col]]

(* A spawn of a level-inline enemy names its variant, whose base is the spawn's
   enemy. *)
Linked(r) ==
  LET raw  == given[<<r.key[1], "stages">>]
      lv   == raw.files[LevelPath(raw.stages[r.key[2]])]
      v    == lv.waves[r.key[3] + 1][r.key[4]].key
  IN /\ r.val.variant # NoText =>
          \E x \in db["stage_enemy_variants"] :
            /\ x.key = <<r.key[1], r.key[2], r.val.variant>>
            /\ <<"enemies", <<r.key[1], r.val.enemy>>>> \in x.refs
     /\ r.val.enemy # v => r.val.variant = v

(* The tables read off one level file tell one story: totals and spawns,
   routes and tiles, and the two readings of the enemy refs, agree. *)
LevelsConsistent ==
  /\ \A e \in db["stage_enemies"] : Tallied(e)
  /\ \A r \in db["stage_spawns"] : Counted(r) /\ Linked(r)
  /\ \A r \in db["stage_routes"] : OnBoard(r)

(* What a database level says of a number: its own answer, or its base's. *)
Answer(l, base) == IF l.range # Unset THEN l.range ELSE base.range
Immune(l, base) == {f \in DOMAIN l.immune \cup DOMAIN base.immune :
                      IF f \in DOMAIN l.immune THEN l.immune[f] ELSE base.immune[f]}

(* A level that denies a range never borrows the base's, a flag it leaves out
   is the base's, and a range and its denial are never both stored. *)
StatsInherited(r) ==
  LET levels == given[<<r.key[1], "enemies">>].database[r.key[2]]
      zero   == {x \in ToSet(levels) : x.level = 0}
      base   == IF zero = {} THEN levels[1] ELSE CHOOSE x \in zero : TRUE
      l      == CHOOSE x \in ToSet(levels) : x.level = r.key[3]
      answer == Answer(l, base)
  IN /\ r.val.none = (answer # Unset /\ answer < 0)
     /\ r.val.range = (IF answer < 0 THEN Unset ELSE answer)
     /\ r.val.immunities = Immune(l, base)

(* Reading a skill's level gives back the name its file had there. *)
NameKept(r) ==
  LET own    == given[<<r.key[1], "operators">>].skills[r.key[2]][r.key[3]]
      shared == CHOOSE k \in db["skills"] : k.key = <<r.key[1], r.key[2]>>
  IN (IF r.val # NoText THEN r.val ELSE shared.val) = own

(* Values stored once for several levels (an enemy's base stats, a skill's one
   name) read back, level by level, as the file had them. *)
ValuesKept ==
  /\ \A r \in db["enemy_levels"] : StatsInherited(r)
  /\ \A r \in db["skill_levels"] : NameKept(r)

Doc(kind, key) == {d \in db["entity_fts"] : d.key = <<kind, key>>}

(* A promoted build finds each entity by its names, a stage by its event's
   title too, and finds nothing that is gone; items only may be missing, and
   then the log says the rebuild failed. *)
Searchable ==
  outcome = "promoted" =>
    /\ \A r \in db["stages"] : \E d \in Doc("stage", r.key) :
         \A z \in db["zones"] : <<"zones", z.key>> \in r.refs =>
           {z.val.subtitle, z.val.title} \subseteq d.val \cup {NoText}
    /\ \A r \in db["enemies"]   : Doc("enemy", r.key) # {}
    /\ \A r \in db["operators"] : Doc("operator", r.key) # {}
    /\ <<"all", "reindex">> \in reported \/ \A r \in db["items"] : Doc("item", r.key) # {}
    /\ \A d \in db["entity_fts"] :
         Has([enemy |-> "enemies", stage |-> "stages", operator |-> "operators",
              item |-> "items"][d.key[1]], d.key[2])

(* Once the game data is committed nothing keeps it from being promoted: no
   ride-along, whatever it raises, no failed rebuild, and no row a ride-along
   added is one the gate would refuse. *)
CommitPromotes ==
  outcome = "failed" => at <= Len(Plan) /\ Plan[at][2] \in ToSet(InBuild)
===============================================================================
