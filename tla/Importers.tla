------------------------------ MODULE Importers -------------------------------
(***************************************************************************)
(* The domain importers (importers/*.py) as operators: what one importer   *)
(* makes of the files of one server, given the rows already there.         *)
(*                                                                         *)
(* A table is a set of rows.  A row has a key (its UNIQUE columns, the     *)
(* server first where the table has one, so that it also stands for the    *)
(* integer primary key), the rows its foreign keys name, its provenance    *)
(* and the columns a property needs (val).  A NULL reference is absent     *)
(* from refs.  Text is a string, NoText where the code has None.           *)
(*                                                                         *)
(* A file is a record with a shape: "absent", "corrupt" (no JSON),         *)
(* "foreign" (JSON of another shape), "bare" (an object without the pools  *)
(* or skins it should hold) or "ok".                                       *)
(***************************************************************************)
EXTENDS Integers, Sequences, FiniteSets, SequencesExt

Unset  == -9      \* a number the source does not state
NoText == ""      \* a text it does not state

GameData   == "arknights_assets_gamedata"
Penguin    == "penguin_statistics"
Announcers == "official_announcements"

Row(key, refs, prov, val) ==
  [key |-> key, refs |-> refs, prov |-> prov, val |-> val]

(* insert_record_provenance: the row and the id other rows carry. *)
Prov(s, source, path, id) == <<s, source, path, id>>
ProvRow(p) == Row(p, {<<"source_snapshots", <<p[1], p[2]>>>>}, <<>>, <<>>)
SnapshotRow(s, source) == Row(<<s, source>>, {}, <<>>, <<>>)

(* Rows by table: a record, whose fields are the tables an importer writes. *)
NoRows == [t \in {} |-> {}]
RowsOf(rows, t) == IF t \in DOMAIN rows THEN rows[t] ELSE {}
JoinAll(parts) == [t \in UNION {DOMAIN p : p \in parts} |-> UNION {RowsOf(p, t) : p \in parts}]
Join(a, b) == [t \in DOMAIN a \cup DOMAIN b |-> RowsOf(a, t) \cup RowsOf(b, t)]
Proved(rows, prov) == Join(rows, [record_provenance |-> {ProvRow(p) : p \in prov}])

(* What an importer returns, or raises with the rows it had inserted. *)
Ok(rows)      == [error |-> "none", rows |-> rows]
Refused(rows) == [error |-> "ImporterError", rows |-> rows]
Torn          == [error |-> "other", rows |-> NoRows]

(* guards.guard_not_silently_empty, of the sets it is given the sizes of. *)
SilentlyEmpty(candidates, produced) == candidates # {} /\ produced = {}

(* The positions of keys that were there before. *)
Repeated(keys) == {i \in DOMAIN keys : \E j \in DOMAIN keys : j < i /\ keys[j] = keys[i]}

(* An entry on its way into the tables: its UNIQUE key, its provenance and its rows. *)
Insertion(key, prov, rows) == [key |-> key, prov |-> prov, rows |-> rows]

(* An insertion loop under integrity_guard, over entries by position: it stops
   at the first that repeats a key, or whose rows break a constraint among
   themselves; its provenance row is already there. *)
InsertEach(entries, broken) ==
  LET bad  == broken \cup Repeated([i \in DOMAIN entries |-> entries[i].key])
      rows == Proved(JoinAll({entries[i].rows : i \in {j \in DOMAIN entries : \A k \in bad : j < k}}),
                     {entries[i].prov : i \in {j \in DOMAIN entries : \A k \in bad : j <= k}})
  IN IF bad = {} THEN Ok(rows) ELSE Refused(rows)

(* Slip: the lookup forgets its WHERE server = ?. *)
PkByGameIdAnywhere(rows, s) ==
  [id \in {r.key[2] : r \in rows} |-> (CHOOSE r \in rows : r.key[2] = id).key]

(* The rows of s by game id: operator_pk_by_game_id and its like. *)
PkByGameId(rows, s) ==
  LET own == {r \in rows : r.key[1] = s}
  IN [id \in {r.key[2] : r \in own} |-> (CHOOSE r \in own : r.key[2] = id).key]

(* A soft reference: NULL when the operator is not there. *)
OperatorRef(known, c) == IF c \in DOMAIN known THEN {<<"operators", known[c]>>} ELSE {}

(***************************************************************************)
(* Enemies (enemies.py, enemy_normalization.py)                            *)
(*                                                                         *)
(* A database level states a number, an attack range (negative: "none")    *)
(* and some immunity flags, or leaves them to the base level.              *)
(***************************************************************************)
BaseLevel(levels) ==
  LET zero == {i \in DOMAIN levels : levels[i].level = 0}
  IN IF zero = {} THEN 1 ELSE CHOOSE i \in zero : \A j \in zero : i <= j

(* The flags a level states itself, and the base's for the others. *)
Inherited(own, base) ==
  [f \in DOMAIN own \cup DOMAIN base |-> IF f \in DOMAIN own THEN own[f] ELSE base[f]]

(* Slip: the sentinel is stripped before the levels inherit. *)
ApplyLevelDeltasStripped(levels) ==
  LET base == levels[BaseLevel(levels)]
  IN [i \in DOMAIN levels |->
        [level  |-> levels[i].level,
         range  |-> IF levels[i].range < 0 THEN base.range ELSE levels[i].range,
         immune |-> Inherited(levels[i].immune, base.immune)]]

ApplyLevelDeltas(levels) ==
  LET base == levels[BaseLevel(levels)]
  IN [i \in DOMAIN levels |->
        [level  |-> levels[i].level,
         range  |-> IF levels[i].range = Unset THEN base.range ELSE levels[i].range,
         immune |-> Inherited(levels[i].immune, base.immune)]]

FinalizeLevel(l) ==
  [range      |-> IF l.range < 0 THEN Unset ELSE l.range,
   none       |-> l.range < 0 /\ l.range # Unset,
   answered   |-> DOMAIN l.immune # {},
   immunities |-> {f \in DOMAIN l.immune : l.immune[f]}]

EnemyLevels(raw, e) ==
  IF e \in DOMAIN raw.database
  THEN LET levels == ApplyLevelDeltas(raw.database[e])
       IN [i \in DOMAIN levels |-> [level |-> levels[i].level, val |-> FinalizeLevel(levels[i])]]
  ELSE <<>>

(* The union of both files; a handbook entry that is no object is skipped. *)
ParseEnemies(raw) == (raw.handbook \cup DOMAIN raw.database) \ raw.broken

ImportEnemies(s, raw) ==
  LET P(e)   == Prov(s, GameData, "enemy_handbook_table", e)
      ids    == ParseEnemies(raw)
      Lv(e)  == EnemyLevels(raw, e)
      rows   == [enemies      |-> {Row(<<s, e>>, {}, P(e), <<>>) : e \in ids},
                 enemy_levels |-> UNION {{Row(<<s, e, Lv(e)[i].level>>,
                                              {<<"enemies", <<s, e>>>>}, <<>>, Lv(e)[i].val) :
                                            i \in DOMAIN Lv(e)} : e \in ids}]
      clash  == \E e \in ids : Repeated([i \in DOMAIN Lv(e) |-> Lv(e)[i].level]) # {}
  IN IF raw.shape \in {"absent", "corrupt"} THEN Torn
     ELSE IF raw.shape = "foreign" \/ clash THEN Refused(NoRows)
     ELSE Ok(Proved(rows, {P(e) : e \in ids}))

(***************************************************************************)
(* A level file (normalization.py, levels.py)                              *)
(***************************************************************************)
(* The enemy a ref resolves to: a level-inline one (useDb false) stands for
   the prefab it derives from and keeps its own id as the variant. *)
Inline(ref) == ~ref.useDb /\ ref.prefab # NoText

EnemyRefMap(refs) ==
  [id \in {refs[i].id : i \in DOMAIN refs} |->
     LET last == CHOOSE i \in DOMAIN refs : refs[i].id = id
                   /\ \A j \in DOMAIN refs : refs[j].id = id => j <= i
         ref  == refs[last]
     IN [enemy   |-> IF Inline(ref) THEN ref.prefab ELSE id,
         variant |-> IF Inline(ref) THEN id ELSE NoText,
         level   |-> ref.level]]

(* Base enemy of each inline variant; the last ref of an id wins. *)
CollectVariants(refs) ==
  [id \in {refs[i].id : i \in {j \in DOMAIN refs : Inline(refs[j])}} |->
     LET own == {i \in DOMAIN refs : refs[i].id = id /\ Inline(refs[i])}
     IN refs[CHOOSE i \in own : \A j \in own : j <= i].prefab]

(* The action is a spawn: its enemy, level and variant. *)
NormalizeAction(a, refs) ==
  LET ref == EnemyRefMap(refs)
  IN IF a.key \in DOMAIN ref
     THEN [enemy |-> ref[a.key].enemy, variant |-> ref[a.key].variant,
           level |-> ref[a.key].level, route |-> a.route, time |-> a.time, count |-> a.count]
     ELSE [enemy |-> a.key, variant |-> NoText, level |-> a.level,
           route |-> a.route, time |-> a.time, count |-> a.count]

(* The spawns of a wave, each at the place of its action. *)
IsSpawn(a) == a.type = "SPAWN" /\ a.key # NoText
Spawns(wave, refs) ==
  [i \in {j \in DOMAIN wave : IsSpawn(wave[j])} |-> NormalizeAction(wave[i], refs)]

(* Upstream counts a route's rows from the bottom, tiles are stored from the top. *)
ToGridFrame(position, height) == <<height - 1 - position[1], position[2]>>

(* The cells of the grid whose index names a tile definition. *)
Tiles(lv) == {c \in (1..Len(lv.grid)) \X (1..Len(lv.grid[1])) :
                lv.grid[c[1]][c[2]] \in DOMAIN lv.defs}

RouteIndex(lv, i) == IF lv.routes[i].index = Unset THEN i - 1 ELSE lv.routes[i].index

(* defaultdict(_SpawnAgg): one bucket per enemy, level and variant, to which the
   spawns of the waves are added in order. *)
Earlier(a, b) == IF a = Unset THEN b ELSE IF b = Unset \/ a < b THEN a ELSE b
Later(a, b)   == IF a = Unset THEN b ELSE IF b = Unset \/ a > b THEN a ELSE b
Bucket(sp)    == <<sp.enemy, sp.level, sp.variant>>
SpawnAgg      == [total |-> 0, first |-> Unset, last |-> Unset, routes |-> {}]
Places(waves) == UNION {{w} \X DOMAIN waves[w] : w \in DOMAIN waves}
At(waves, p)  == waves[p[1]][p[2]]
InBucket(waves, k) == {p \in Places(waves) : Bucket(At(waves, p)) = k}
Latest(places) ==
  CHOOSE p \in places : \A q \in places : q[1] < p[1] \/ (q[1] = p[1] /\ q[2] <= p[2])

(* Slip: a spawn without a time resets the bucket's first time. *)
TallyReset(waves, routes) ==
  LET Add(sp, agg) ==
        [total  |-> agg.total + (IF sp.count = Unset THEN 0 ELSE sp.count),
         first  |-> IF sp.time = Unset THEN Unset ELSE Earlier(agg.first, sp.time),
         last   |-> Later(agg.last, sp.time),
         routes |-> agg.routes \cup ({sp.route} \cap routes)]
  IN [k \in {Bucket(At(waves, p)) : p \in Places(waves)} |->
        MapThenFoldSet(Add, SpawnAgg, LAMBDA p : At(waves, p), Latest, InBucket(waves, k))]

Tally(waves, routes) ==
  LET Add(sp, agg) ==
        [total  |-> agg.total + (IF sp.count = Unset THEN 0 ELSE sp.count),
         first  |-> Earlier(agg.first, sp.time),
         last   |-> Later(agg.last, sp.time),
         routes |-> agg.routes \cup ({sp.route} \cap routes)]
  IN [k \in {Bucket(At(waves, p)) : p \in Places(waves)} |->
        MapThenFoldSet(Add, SpawnAgg, LAMBDA p : At(waves, p), Latest, InBucket(waves, k))]

(* A spawn's route and variant, where the stage has them. *)
Bound(sp, routes, variants) ==
  [sp EXCEPT !.route   = IF @ \in routes THEN @ ELSE Unset,
             !.variant = IF @ \in variants THEN @ ELSE NoText]

RouteIndices(lv) == {RouteIndex(lv, i) : i \in DOMAIN lv.routes}
BoundWaves(lv) ==
  LET variants == DOMAIN CollectVariants(lv.refs)
  IN [w \in DOMAIN lv.waves |->
        LET sps == Spawns(lv.waves[w], lv.refs)
        IN [i \in DOMAIN sps |-> Bound(sps[i], RouteIndices(lv), variants)]]

(* What a spawn or a total of stage g names: stage, enemy, variant and route. *)
EnemyLinks(s, g, enemies, e, v, r) ==
  {<<"stages", <<s, g>>>>, <<"enemies", enemies[e]>>} \cup
  (IF v = NoText THEN {} ELSE {<<"stage_enemy_variants", <<s, g, v>>>>}) \cup
  (IF r = Unset THEN {} ELSE {<<"stage_routes", <<s, g, r>>>>})

(* insert_level for stage g of s, from a normalized file. *)
InsertLevel(s, g, lv, enemies) ==
  LET P        == Prov(s, GameData, "level", g)
      stage    == <<"stages", <<s, g>>>>
      variants == CollectVariants(lv.refs)
      waves    == BoundWaves(lv)
      agg      == Tally(waves, RouteIndices(lv))
      unknown  == \/ \E v \in DOMAIN variants : variants[v] \notin DOMAIN enemies
                  \/ \E w \in DOMAIN waves : \E i \in DOMAIN waves[w] :
                       waves[w][i].enemy \notin DOMAIN enemies
      clash    == Repeated([i \in DOMAIN lv.routes |-> RouteIndex(lv, i)]) # {}
      rows     ==
        [stage_maps   |-> {Row(<<s, g>>, {stage}, P, <<>>)},
         stage_tiles  |-> {Row(<<s, g, c[2] - 1, c[1] - 1>>, {stage}, P,
                               lv.defs[lv.grid[c[1]][c[2]]]) : c \in Tiles(lv)},
         stage_routes |-> {Row(<<s, g, RouteIndex(lv, i)>>, {stage}, P,
                               ToGridFrame(lv.routes[i].start, Len(lv.grid))) :
                             i \in DOMAIN lv.routes},
         stage_enemy_variants |-> {Row(<<s, g, v>>, {stage, <<"enemies", enemies[variants[v]]>>},
                                       P, <<>>) : v \in DOMAIN variants},
         stage_waves  |-> {Row(<<s, g, w - 1>>, {stage}, P, <<>>) : w \in DOMAIN lv.waves},
         stage_spawns |-> UNION {{LET sp == waves[w][i] IN
                                  Row(<<s, g, w - 1, i>>,
                                      EnemyLinks(s, g, enemies, sp.enemy, sp.variant, sp.route)
                                        \cup {<<"stage_waves", <<s, g, w - 1>>>>}, P, sp) :
                                    i \in DOMAIN waves[w]} : w \in DOMAIN waves},
         stage_enemies |-> {Row(<<s, g, k[1], k[2], k[3]>>, EnemyLinks(s, g, enemies, k[1], k[3], Unset), P,
                                [agg[k] EXCEPT !.routes = Cardinality(@)]) : k \in DOMAIN agg}]
  IN IF unknown \/ clash THEN Refused(NoRows) ELSE Ok(Proved(rows, {P}))

(***************************************************************************)
(* Zones, event titles and stages (stages.py)                              *)
(*                                                                         *)
(* zones: id -> subtitle; activity.names: act -> title; activity.zones:    *)
(* zone -> act; stages: id -> zone and level reference; files: the level   *)
(* files of the snapshot by path.                                          *)
(***************************************************************************)
ParseActivityTitles(activity) ==
  [z \in {x \in DOMAIN activity.zones :
            /\ activity.zones[x] \in DOMAIN activity.names
            /\ activity.names[activity.zones[x]] # NoText} |-> activity.zones[z]]

(* The path a stage stores: an unclean one is dropped (is_clean_level_path). *)
LevelPath(st) == IF st.clean THEN st.level ELSE NoText

Referenced(raw) == {g \in DOMAIN raw.stages : LevelPath(raw.stages[g]) # NoText}
Present(raw)    == {g \in Referenced(raw) : LevelPath(raw.stages[g]) \in DOMAIN raw.files}

ZoneRows(s, raw, titles) ==
  LET P(z) == Prov(s, GameData, "zone_table", z)
      A(z) == Prov(s, GameData, "activity_table", titles[z])
      own  == DOMAIN raw.zones
      rows == [zones |-> {Row(<<s, z>>,
                              IF z \in DOMAIN titles THEN {<<"record_provenance", A(z)>>} ELSE {},
                              P(z),
                              [subtitle |-> raw.zones[z],
                               title |-> IF z \in DOMAIN titles
                                         THEN raw.activity.names[titles[z]] ELSE NoText]) : z \in own}]
  IN Proved(rows, {P(z) : z \in own} \cup {A(z) : z \in own \cap DOMAIN titles})

StageRows(s, raw) ==
  LET P(g) == Prov(s, GameData, "stage_table", g)
      Zone(g) == LET z == raw.stages[g].zone
                 IN IF z \in DOMAIN raw.zones THEN {<<"zones", <<s, z>>>>} ELSE {}
  IN Proved([stages |-> {Row(<<s, g>>, Zone(g), P(g), LevelPath(raw.stages[g])) :
                            g \in DOMAIN raw.stages}],
            {P(g) : g \in DOMAIN raw.stages})

(* Slip: a level file that yields nothing counts as present. *)
CombatEmptyByFiles(raw, rows) ==
  SilentlyEmpty(Referenced(raw), Present(raw))

(* pipeline._guard_not_silently_empty, after import_stages. *)
CombatEmpty(raw, rows) ==
  \/ SilentlyEmpty(Referenced(raw), Present(raw))
  \/ /\ Present(raw) # {}
     /\ \E t \in {"stage_tiles", "stage_spawns", "stage_enemies"} : RowsOf(rows, t) = {}

ImportStages(s, raw, db) ==
  LET enemies == PkByGameId(db["enemies"], s)
      titles  == IF raw.activity.shape = "absent" THEN <<>>
                 ELSE ParseActivityTitles(raw.activity)
      levels  == {InsertLevel(s, g, raw.files[LevelPath(raw.stages[g])], enemies) :
                    g \in Present(raw)}
      rows    == JoinAll({ZoneRows(s, raw, titles), StageRows(s, raw)}
                         \cup {l.rows : l \in levels})
  IN IF raw.shape \in {"absent", "corrupt"} \/ raw.activity.shape = "corrupt" THEN Torn
     ELSE IF \/ raw.shape = "foreign" \/ raw.activity.shape = "foreign"
             \/ /\ raw.activity.shape = "ok"
                /\ SilentlyEmpty(DOMAIN raw.activity.names, DOMAIN titles)
             \/ \E l \in levels : l.error # "none"
             \/ CombatEmpty(raw, rows)
     THEN Refused(NoRows)
     ELSE Ok(rows)

(***************************************************************************)
(* Operators and skills (operators.py, skills.py)                          *)
(***************************************************************************)
(* coerce.uniform_str: the value all levels share, else none. *)
UniformStr(names) ==
  IF names # <<>> /\ \A i \in DOMAIN names : names[i] = names[1] THEN names[1] ELSE NoText

(* _level_only: a level stores its own value unless the skill carries it. *)
LevelOnly(shared, own) == IF shared = NoText THEN own ELSE NoText

SkillRows(s, skills) ==
  LET P(k) == Prov(s, GameData, "skill_table", k)
      ids  == DOMAIN skills
      Shared(k) == UniformStr(skills[k])
  IN Proved([skills       |-> {Row(<<s, k>>, {}, P(k), Shared(k)) : k \in ids},
             skill_levels |-> UNION {{Row(<<s, k, i>>, {<<"skills", <<s, k>>>>}, <<>>,
                                          LevelOnly(Shared(k), skills[k][i])) :
                                        i \in DOMAIN skills[k]} : k \in ids}],
            {P(k) : k \in ids})

(* _parse_factions: mainPower, then subPower; the first mention counts. *)
Factions(powers) ==
  {i \in DOMAIN powers : powers[i].id # NoText} \ Repeated([i \in DOMAIN powers |-> powers[i].id])

(* parse_operators skips tokens and traps. *)
ParseOperators(chars) == {c \in DOMAIN chars : chars[c].profession \notin {"TOKEN", "TRAP"}}

Listed(list) == {i \in DOMAIN list : list[i] # NoText}

OperatorRows(s, raw, skillIds) ==
  LET P(c)  == Prov(s, GameData, "character_table", c)
      ids   == ParseOperators(raw.chars)
      O(c)  == <<"operators", <<s, c>>>>
      Links(c) == {i \in Listed(raw.chars[c].skills) : raw.chars[c].skills[i] \in skillIds}
  IN Proved(
      [operators |-> {Row(<<s, c>>, {}, P(c),
                           IF c \in DOMAIN raw.collab THEN raw.collab[c] ELSE NoText) : c \in ids},
       operator_aliases |-> {Row(<<s, c, "name">>, {O(c)}, <<>>, <<>>) : c \in ids},
       operator_phases |-> UNION {{Row(<<s, c, i - 1>>, {O(c)}, <<>>, <<>>) :
                                     i \in Listed(raw.chars[c].phases)} : c \in ids},
       operator_skills |-> UNION {{Row(<<s, c, i>>,
                                        {O(c), <<"skills", <<s, raw.chars[c].skills[i]>>>>},
                                        <<>>, <<>>) : i \in Links(c)} : c \in ids},
       talents |-> UNION {{Row(<<s, c, i - 1>>, {O(c)}, <<>>, <<>>) :
                              i \in DOMAIN raw.chars[c].talents} : c \in ids},
       talent_levels |-> UNION {UNION {{Row(<<s, c, i - 1, v - 1>>,
                                             {<<"talents", <<s, c, i - 1>>>>}, <<>>, <<>>) :
                                           v \in Listed(raw.chars[c].talents[i])} :
                                          i \in DOMAIN raw.chars[c].talents} : c \in ids},
       operator_factions |-> UNION {{Row(<<s, c, raw.chars[c].powers[i].id>>, {O(c)}, <<>>,
                                          raw.chars[c].powers[i].main) :
                                        i \in Factions(raw.chars[c].powers)} : c \in ids}],
       {P(c) : c \in ids})

(* skill_table and the handbook tables are read tolerantly: no entry, no name. *)
ImportOperators(s, raw) ==
  CASE raw.shape = "absent"  -> Ok(NoRows)
    [] raw.shape = "corrupt" -> Torn
    [] raw.shape = "foreign" -> Refused(NoRows)
    [] OTHER -> Ok(Join(SkillRows(s, raw.skills), OperatorRows(s, raw, DOMAIN raw.skills)))

(***************************************************************************)
(* Modules (modules.py): a mandatory domain                                *)
(***************************************************************************)
ParseModules(equip) == {m \in DOMAIN equip : ~equip[m].initial /\ equip[m].char # NoText}

(* battle_equip phases by level or position, merged with the itemCost keys. *)
ModuleLevels(m) ==
  {IF m.phases[i] = Unset THEN i ELSE m.phases[i] : i \in DOMAIN m.phases} \cup m.cost

ImportModules(s, raw, db) ==
  LET P(m)  == Prov(s, GameData, "uniequip_table", m)
      known == PkByGameId(db["operators"], s)
      ids   == {m \in ParseModules(raw.equip) : raw.equip[m].char \in DOMAIN known}
      rows  == [modules |-> {Row(<<s, m>>, OperatorRef(known, raw.equip[m].char), P(m),
                                 <<>>) : m \in ids},
                module_levels |-> UNION {{Row(<<s, m, l>>, {<<"modules", <<s, m>>>>}, <<>>, <<>>) :
                                            l \in ModuleLevels(raw.equip[m])} : m \in ids}]
  IN CASE raw.shape = "corrupt"            -> Torn
       [] raw.shape \in {"absent", "foreign"} -> Ok(NoRows)
       [] OTHER                            -> Ok(Proved(rows, {P(m) : m \in ids}))

(***************************************************************************)
(* The optional domains (banners.py, skins.py, base_skills.py, ranges.py)  *)
(***************************************************************************)
(* The typed featured ids of a pool, by rule type. *)
FeaturedCharIds(p) ==
  CASE p.rule = "LIMITED" /\ p.limited # NoText -> <<p.limited>>
    [] p.rule = "CLASSIC"                   -> p.attain
    [] OTHER                                -> <<>>

ParseBanners(raw) == {i \in DOMAIN raw.pools : raw.pools[i].id # NoText}

InsertBanners(s, pools, parsed, known) ==
  LET P(p)    == Prov(s, GameData, "gacha_table", p.id)
      rows(p) == [banners |-> {Row(<<s, p.id>>, {}, P(p), <<>>)},
                  banner_featured_ops |->
                    {Row(<<s, p.id, c>>, {<<"banners", <<s, p.id>>>>} \cup OperatorRef(known, c),
                         <<>>, c \in DOMAIN known) : c \in ToSet(FeaturedCharIds(p))}]
  IN InsertEach([i \in parsed |-> Insertion(pools[i].id, P(pools[i]), rows(pools[i]))],
                {i \in parsed : ~IsInjective(FeaturedCharIds(pools[i]))})

(* An object without its list of pools is read as having none. *)
ImportBanners(s, raw, db) ==
  CASE raw.shape \in {"absent", "bare"} -> Ok(NoRows)
    [] raw.shape = "corrupt" -> Torn
    [] \/ raw.shape = "foreign"
       \/ SilentlyEmpty(DOMAIN raw.pools, ParseBanners(raw)) -> Refused(NoRows)
    [] OTHER -> InsertBanners(s, raw.pools, ParseBanners(raw), PkByGameId(db["operators"], s))

(* Only charSkins of operators count; one needs an id and an art stem. *)
OperatorEntries(raw) == {i \in DOMAIN raw.skins : raw.skins[i].operator}
ParseSkins(raw) == {i \in OperatorEntries(raw) : raw.skins[i].id # NoText /\ raw.skins[i].portrait}

(* An object without its charSkins is read as having none. *)
ImportSkins(s, raw, db) ==
  LET parsed == ParseSkins(raw)
      known  == PkByGameId(db["operators"], s)
      In(k)  == LET p == Prov(s, GameData, "skin_table", k.id)
                IN Insertion(k.id, p, [operator_skins |-> {Row(<<s, k.id>>, OperatorRef(known, k.char), p, <<>>)}])
  IN CASE raw.shape \in {"absent", "bare"} -> Ok(NoRows)
       [] raw.shape = "corrupt" -> Torn
       [] \/ raw.shape = "foreign"
          \/ SilentlyEmpty(OperatorEntries(raw), parsed) -> Refused(NoRows)
       [] OTHER -> InsertEach([i \in parsed |-> In(raw.skins[i])], {})

(* A buff needs an id and a room; a stage a buff, a phase and a level. *)
ParseBuffs(raw) == {i \in DOMAIN raw.buffs : raw.buffs[i].id # NoText /\ raw.buffs[i].room}
ParseStages(slots) == {i \in DOMAIN slots : slots[i].buff # NoText /\ slots[i].unlock}

(* The links of the present operators, after every buff row is in. *)
BaseLinks(s, chars, buffs, known) ==
  LET P(c) == Prov(s, GameData, "building_data", c)
      Own(c) == {i \in ParseStages(chars[c]) : chars[c][i].buff \in buffs}
  IN Proved([operator_base_skills |->
              UNION {{Row(<<s, c, i>>, OperatorRef(known, c) \cup
                                        {<<"base_skills", <<s, chars[c][i].buff>>>>}, P(c), <<>>) :
                        i \in Own(c)} : c \in DOMAIN chars}],
            {P(c) : c \in DOMAIN chars})

ImportBaseSkills(s, raw, db) ==
  LET known  == PkByGameId(db["operators"], s)
      parsed == ParseBuffs(raw)
      In(b)  == LET p == Prov(s, GameData, "building_data", b.id)
                IN Insertion(b.id, p, [base_skills |-> {Row(<<s, b.id>>, {}, p, <<>>)}])
      buffs  == InsertEach([i \in parsed |-> In(raw.buffs[i])], {})
      here   == {c \in DOMAIN raw.chars : /\ ParseStages(raw.chars[c]) # {}
                                          /\ c \in DOMAIN known}
      links  == BaseLinks(s, [c \in here |-> raw.chars[c]],
                          {raw.buffs[i].id : i \in parsed}, known)
  IN CASE raw.shape = "absent"  -> Ok(NoRows)
       [] raw.shape = "corrupt" -> Torn
       [] \/ raw.shape = "foreign"
          \/ SilentlyEmpty(DOMAIN raw.buffs, parsed) -> Refused(NoRows)
       [] OTHER ->
            IF buffs.error # "none" THEN buffs
            ELSE IF SilentlyEmpty(here, RowsOf(links, "operator_base_skills"))
                 THEN Refused(Join(buffs.rows, links))
                 ELSE Ok(Join(buffs.rows, links))

(* The entry's own id, or its key; an entry without a usable cell is skipped. *)
RangeId(r) == IF r.id # NoText THEN r.id ELSE r.entry
ParseRanges(raw) == {i \in DOMAIN raw.ranges : raw.ranges[i].cells # {}}

ImportRanges(s, raw) ==
  LET parsed == ParseRanges(raw)
      In(r)  == LET p == Prov(s, GameData, "range_table", RangeId(r))
                IN Insertion(RangeId(r), p, [ranges |-> {Row(<<s, RangeId(r)>>, {}, p, r.cells)}])
  IN CASE raw.shape = "absent"  -> Ok(NoRows)
       [] raw.shape = "corrupt" -> Torn
       [] \/ raw.shape = "foreign"
          \/ SilentlyEmpty(DOMAIN raw.ranges, parsed) -> Refused(NoRows)
       [] OTHER -> InsertEach([i \in parsed |-> In(raw.ranges[i])], {})

(***************************************************************************)
(* The ride-alongs (penguin_drops.py, announcements.py)                    *)
(***************************************************************************)
InsertSnapshot(s, source) == [source_snapshots |-> {SnapshotRow(s, source)}]

(* An item without an id, or a drop without either id, is skipped. *)
ParseItems(raw)  == {i \in DOMAIN raw.items : raw.items[i] # NoText}
ParseMatrix(raw) == {i \in DOMAIN raw.matrix : raw.matrix[i].stage # NoText /\ raw.matrix[i].item # NoText}
ItemIds(raw)     == {raw.items[i] : i \in ParseItems(raw)}

InsertItems(s, raw) ==
  LET In(id) == LET p == Prov(s, Penguin, "items", id)
                IN Insertion(id, p, [items |-> {Row(<<s, id>>, {}, p, <<>>)}])
  IN InsertEach([i \in ParseItems(raw) |-> In(raw.items[i])], {})

(* Items, then the drops whose stage and item are there; a failed fetch is no
   ImporterError. *)
ImportPenguinDrops(s, raw, db) ==
  LET items  == InsertItems(s, raw)
      stages == PkByGameId(db["stages"], s)
      known  == {i \in ParseMatrix(raw) : /\ raw.matrix[i].stage \in DOMAIN stages
                                          /\ raw.matrix[i].item \in ItemIds(raw)}
      In(d)  == LET p == Prov(s, Penguin, "result/matrix", d.stage \o "/" \o d.item)
                IN Insertion(d, p, [stage_drops |->
                     {Row(<<s, d.stage, d.item>>,
                          {<<"stages", stages[d.stage]>>, <<"items", <<s, d.item>>>>,
                           <<"source_snapshots", <<s, Penguin>>>>}, p, <<>>)}])
      drops  == InsertEach([i \in known |-> In(raw.matrix[i])], {})
      first  == Join(InsertSnapshot(s, Penguin), items.rows)
  IN CASE raw.shape \in {"absent", "corrupt"} -> Torn
       [] raw.shape = "foreign"               -> Refused(NoRows)
       [] OTHER ->
            IF items.error # "none" THEN Refused(first)
            ELSE IF drops.error # "none"
                    \/ SilentlyEmpty(ParseMatrix(raw), RowsOf(drops.rows, "stage_drops"))
                 THEN Refused(Join(first, drops.rows))
                 ELSE Ok(Join(first, drops.rows))

ParseAnnouncements(raw) == {i \in DOMAIN raw.entries : raw.entries[i].id # NoText}

(* Both guards come before the snapshot: no id parsed, or no date at all. *)
ImportAnnouncements(s, raw) ==
  LET parsed == ParseAnnouncements(raw)
      dated  == {i \in parsed : raw.entries[i].dated}
      In(a)  == LET p == Prov(s, Announcers, "announcements", a.id)
                IN Insertion(a.id, p, [announcements |-> {Row(<<s, a.id>>, {}, p, a.dated)}])
      rows   == InsertEach([i \in parsed |-> In(raw.entries[i])], {})
  IN CASE raw.shape \in {"absent", "corrupt"} -> Torn
       [] \/ raw.shape = "foreign"
          \/ SilentlyEmpty(DOMAIN raw.entries, parsed)
          \/ SilentlyEmpty(parsed, dated) -> Refused(NoRows)
       [] OTHER -> [rows EXCEPT !.rows = Join(@, InsertSnapshot(s, Announcers))]

(***************************************************************************)
(* The search index (search_index.py)                                      *)
(***************************************************************************)
(* Slip: only the subtitle is indexed. *)
StageAliasesSubtitle(st, zones) ==
  UNION {{z.val.subtitle} \ {NoText} : z \in {x \in zones : <<"zones", x.key>> \in st.refs}}

(* A stage is found by its zone's subtitle and its event's title. *)
StageAliases(st, zones) ==
  UNION {{z.val.subtitle, z.val.title} \ {NoText} : z \in {x \in zones : <<"zones", x.key>> \in st.refs}}

BuildSearchIndex(db) ==
  {Row(<<"enemy", r.key>>, {}, <<>>, {}) : r \in db["enemies"]} \cup
  {Row(<<"stage", r.key>>, {}, <<>>, StageAliases(r, db["zones"])) : r \in db["stages"]} \cup
  {Row(<<"operator", r.key>>, {}, <<>>, {}) : r \in db["operators"]} \cup
  {Row(<<"item", r.key>>, {}, <<>>, {}) : r \in db["items"]}
===============================================================================
