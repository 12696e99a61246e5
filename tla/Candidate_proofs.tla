--------------------------- MODULE Candidate_proofs --------------------------
(***************************************************************************)
(* What the importers of ImportPipeline give, for every file: rows whose   *)
(* references all resolve in any candidate that holds them with what the   *)
(* steps before left (the lemmas named ...Fit), within the tables and the  *)
(* provenance paths of their domain; a domain that is whole when nothing   *)
(* was raised (...Whole); an index that finds what is there; values that   *)
(* read back as the file had them.  Nothing here is about the order of     *)
(* the steps: ImportPipeline_proofs adds it.                               *)
(***************************************************************************)
EXTENDS ImportPipeline, FiniteSetTheorems, TLAPS

(* The tables of the game, the search index apart. *)
Game    == Tables \ {"entity_fts"}
(* The sources a snapshot row may be of. *)
Sources == {GameData, Penguin, Announcers}

(* Table t of candidate c has a row of that key. *)
Holds(c, t, key) == \E x \in c[t] : x.key = key
(* A reference of a row of server s: to a row that candidate c holds, of
   the same server. *)
Named(ref, s, c) == ref[1] \in Game /\ ref[2][1] = s /\ Holds(c, ref[1], ref[2])
(* A provenance of server s whose row candidate c holds. *)
Proven(prov, s, c) == prov[1] = s /\ Holds(c, "record_provenance", prov)
(* Row r of table t: its server is s, the rows its references and its
   provenance name are there, and a snapshot is of a known source. *)
Sound(t, r, s, c) ==
  /\ r.key[1] = s
  /\ \A ref \in r.refs : Named(ref, s, c)
  /\ r.prov # <<>> => Proven(r.prov, s, c)
  /\ t = "source_snapshots" => \E x \in Sources : r = SnapshotRow(s, x)
(* Rows of server s that candidate c may hold: each one sound there. *)
Fits(rows, s, c)  == \A t \in DOMAIN rows : t \in Game /\ \A r \in rows[t] : Sound(t, r, s, c)
(* Candidate c holds these rows. *)
Includes(c, rows) == \A t \in DOMAIN rows : rows[t] \subseteq c[t]

(***************************************************************************)
(* Parts, rows and provenance                                              *)
(***************************************************************************)

(* Joining two parts joins them table by table. *)
LEMMA RowsOfJoin ==
  ASSUME NEW a, NEW b, NEW t
  PROVE  RowsOf(Join(a, b), t) = RowsOf(a, t) \cup RowsOf(b, t)
BY DEF Join, RowsOf

(* Parts that fit, join to rows that fit. *)
LEMMA JoinFits ==
  ASSUME NEW a, NEW b, NEW s, NEW c, Fits(a, s, c), Fits(b, s, c)
  PROVE  Fits(Join(a, b), s, c)
BY DEF Fits, Join, RowsOf

(* So do any number of parts. *)
LEMMA JoinAllFits ==
  ASSUME NEW parts, NEW s, NEW c, \A p \in parts : Fits(p, s, c)
  PROVE  Fits(JoinAll(parts), s, c)
BY DEF Fits, JoinAll, RowsOf

(* Who holds the join holds both parts. *)
LEMMA JoinIncluded ==
  ASSUME NEW a, NEW b, NEW c, Includes(c, Join(a, b))
  PROVE  Includes(c, a) /\ Includes(c, b)
BY DEF Includes, Join, RowsOf

(* Who holds the join of many parts holds each. *)
LEMMA JoinAllIncluded ==
  ASSUME NEW parts, NEW c, Includes(c, JoinAll(parts)), NEW p \in parts
  PROVE  Includes(c, p)
<1>1. SUFFICES ASSUME NEW t \in DOMAIN p, NEW r \in p[t] PROVE r \in c[t]
  BY DEF Includes
<1>2. t \in DOMAIN JoinAll(parts) /\ r \in JoinAll(parts)[t]
  BY DEF JoinAll, RowsOf
<1> QED
  BY <1>2 DEF Includes

(* Who holds rows with their provenance holds the rows and a provenance row
   for each. *)
LEMMA ProvedParts ==
  ASSUME NEW rows, NEW prov, NEW c, Includes(c, Proved(rows, prov))
  PROVE  /\ Includes(c, rows)
         /\ \A p \in prov : Holds(c, "record_provenance", p)
<1>1. Includes(c, rows) /\ Includes(c, [record_provenance |-> {ProvRow(p) : p \in prov}])
  BY JoinIncluded DEF Proved
<1>2. \A p \in prov : ProvRow(p) \in c["record_provenance"]
  BY <1>1 DEF Includes
<1> QED
  BY <1>1, <1>2 DEF Holds, ProvRow, Row

(* A reference to a row of this server that is held is a good one. *)
LEMMA RefNamed ==
  ASSUME NEW t \in Game, NEW s, NEW key, NEW c, key[1] = s, Holds(c, t, key)
  PROVE  Named(<<t, key>>, s, c)
BY DEF Named

(* A row of good references is sound. *)
LEMMA RowSound ==
  ASSUME NEW t, NEW s, NEW c, NEW key, NEW refs, NEW prov, NEW val,
         t # "source_snapshots", key[1] = s,
         \A ref \in refs : Named(ref, s, c),
         prov = <<>> \/ Proven(prov, s, c)
  PROVE  Sound(t, Row(key, refs, prov, val), s, c)
BY DEF Sound, Row

(* So is one of a single good reference. *)
LEMMA OneRefSound ==
  ASSUME NEW t, NEW s, NEW c, NEW key, NEW ref, NEW prov, NEW val,
         t # "source_snapshots", key[1] = s, Named(ref, s, c),
         prov = <<>> \/ Proven(prov, s, c)
  PROVE  Sound(t, Row(key, {ref}, prov, val), s, c)
BY RowSound

(* A row in a table is held under its key. *)
LEMMA RowHeld ==
  ASSUME NEW c, NEW t, NEW key, NEW refs, NEW prov, NEW val,
         Row(key, refs, prov, val) \in c[t]
  PROVE  Holds(c, t, key)
BY DEF Holds, Row

(* The tables of the game, named one by one. *)
LEMMA InGame ==
  {"enemies", "enemy_levels", "zones", "stages", "stage_maps", "stage_tiles", "stage_routes",
   "stage_enemy_variants", "stage_waves", "stage_spawns", "stage_enemies", "skills",
   "skill_levels", "operators", "operator_aliases", "operator_phases", "operator_skills",
   "talents", "talent_levels", "operator_factions", "modules", "module_levels",
   "banners", "banner_featured_ops", "operator_skins", "base_skills",
   "operator_base_skills", "ranges", "items", "stage_drops", "announcements",
   "source_snapshots", "record_provenance"} = Game
<1>1. Tables = Game \cup {"entity_fts"} /\ "entity_fts" \notin Game
  BY DEF Tables, Game
<1> QED
  BY DEF Game, Tables, Combat, Roster, Owned

(* Rows that fit, with provenance of a snapshot that is there, fit. *)
LEMMA ProvedFits ==
  ASSUME NEW rows, NEW prov, NEW s, NEW c, Fits(rows, s, c),
         \A p \in prov : p[1] = s /\ Holds(c, "source_snapshots", <<s, p[2]>>)
  PROVE  Fits(Proved(rows, prov), s, c)
<1> DEFINE proofs == [record_provenance |-> {ProvRow(p) : p \in prov}]
<1>1. ASSUME NEW p \in prov PROVE Sound("record_provenance", ProvRow(p), s, c)
<2>1. p[1] = s /\ Holds(c, "source_snapshots", <<s, p[2]>>)
  OBVIOUS
<2>2. Named(<<"source_snapshots", <<s, p[2]>>>>, s, c)
  BY <2>1, InGame, RefNamed
<2>3. ProvRow(p) = Row(p, {<<"source_snapshots", <<s, p[2]>>>>}, <<>>, <<>>)
  BY <2>1 DEF ProvRow
<2> QED
  BY <2>1, <2>2, <2>3, RowSound
<1>2. Fits(proofs, s, c)
  BY <1>1, InGame DEF Fits
<1> QED
  BY <1>2, JoinFits DEF Proved

(* What an insertion loop returns has an error and rows. *)
LEMMA InsertEachShape ==
  ASSUME NEW entries, NEW broken
  PROVE  DOMAIN InsertEach(entries, broken) = {"error", "rows"}
BY DEF InsertEach, Ok, Refused

(* A loop that raised nothing inserted every entry. *)
LEMMA InsertEachRows ==
  ASSUME NEW entries, NEW broken, InsertEach(entries, broken).error = "none"
  PROVE  InsertEach(entries, broken).rows
           = Proved(JoinAll({entries[i].rows : i \in DOMAIN entries}),
                    {entries[i].prov : i \in DOMAIN entries})
BY DEF InsertEach, Ok, Refused

(* If each entry fits, with provenance of a snapshot that is there, the
   loop's rows fit. *)
LEMMA InsertEachFits ==
  ASSUME NEW entries, NEW broken, NEW s, NEW c,
         InsertEach(entries, broken).error = "none",
         \A i \in DOMAIN entries : /\ Fits(entries[i].rows, s, c)
                                   /\ entries[i].prov[1] = s
                                   /\ Holds(c, "source_snapshots", <<s, entries[i].prov[2]>>)
  PROVE  Fits(InsertEach(entries, broken).rows, s, c)
BY InsertEachRows, JoinAllFits, ProvedFits

(* Who holds the rows of a loop that raised nothing holds those of each
   entry, and its provenance. *)
LEMMA InsertEachIncluded ==
  ASSUME NEW entries, NEW broken, NEW c,
         InsertEach(entries, broken).error = "none",
         Includes(c, InsertEach(entries, broken).rows)
  PROVE  \A i \in DOMAIN entries : /\ Includes(c, entries[i].rows)
                                   /\ Holds(c, "record_provenance", entries[i].prov)
<1> DEFINE parts  == {entries[i].rows : i \in DOMAIN entries}
           proofs == {entries[i].prov : i \in DOMAIN entries}
<1>1. Includes(c, Proved(JoinAll(parts), proofs))
  BY InsertEachRows, Zenon
<1>2. \A i \in DOMAIN entries : entries[i].rows \in parts /\ entries[i].prov \in proofs
  OBVIOUS
<1> HIDE DEF parts, proofs
<1>3. Includes(c, JoinAll(parts)) /\ \A p \in proofs : Holds(c, "record_provenance", p)
  BY <1>1, ProvedParts
<1>4. \A p \in parts : Includes(c, p)
  BY <1>3, JoinAllIncluded
<1> QED
  BY <1>2, <1>3, <1>4

(* The two together: it is enough that an entry fits where its own rows and
   provenance are. *)
LEMMA EntriesFit ==
  ASSUME NEW entries, NEW broken, NEW s, NEW c, NEW source,
         InsertEach(entries, broken).error = "none",
         Includes(c, InsertEach(entries, broken).rows),
         Holds(c, "source_snapshots", <<s, source>>),
         \A i \in DOMAIN entries :
           /\ entries[i].prov[1] = s /\ entries[i].prov[2] = source
           /\ Includes(c, entries[i].rows) /\ Proven(entries[i].prov, s, c)
                => Fits(entries[i].rows, s, c)
  PROVE  Fits(InsertEach(entries, broken).rows, s, c)
<1>1. \A i \in DOMAIN entries : Includes(c, entries[i].rows) /\ Proven(entries[i].prov, s, c)
  BY InsertEachIncluded DEF Proven
<1> QED
  BY <1>1, InsertEachFits

(* A key that PkByGameId returns is that of a row of this server: this is
   the WHERE server = ? of operator_pk_by_game_id. *)
LEMMA PkKnown ==
  ASSUME NEW rows, NEW s, NEW id \in DOMAIN PkByGameId(rows, s)
  PROVE  \E x \in rows : x.key = PkByGameId(rows, s)[id] /\ x.key[1] = s
BY DEF PkByGameId

(***************************************************************************)
(* Tables and paths                                                        *)
(***************************************************************************)

(* These rows are of these tables, and their provenance of these paths. *)
Within(rows, tables, paths) ==
  /\ DOMAIN rows \subseteq tables \cup {"record_provenance"}
  /\ \A r \in RowsOf(rows, "record_provenance") : r.key[3] \in paths

(* Joining keeps within tables and paths. *)
LEMMA WithinJoin ==
  ASSUME NEW a, NEW b, NEW tables, NEW paths, Within(a, tables, paths), Within(b, tables, paths)
  PROVE  Within(Join(a, b), tables, paths)
BY RowsOfJoin DEF Within, Join

(* So does joining many parts. *)
LEMMA WithinJoinAll ==
  ASSUME NEW parts, NEW tables, NEW paths, \A p \in parts : Within(p, tables, paths)
  PROVE  Within(JoinAll(parts), tables, paths)
<1>1. DOMAIN JoinAll(parts) = UNION {DOMAIN p : p \in parts}
  BY DEF JoinAll
<1>2. \A r \in RowsOf(JoinAll(parts), "record_provenance") :
        \E p \in parts : r \in RowsOf(p, "record_provenance")
  BY DEF JoinAll, RowsOf
<1> QED
  BY <1>1, <1>2 DEF Within

(* So does adding provenance of these paths. *)
LEMMA WithinProved ==
  ASSUME NEW rows, NEW prov, NEW tables, NEW paths, Within(rows, tables, paths),
         \A p \in prov : p[3] \in paths
  PROVE  Within(Proved(rows, prov), tables, paths)
<1> DEFINE proofs == [record_provenance |-> {ProvRow(p) : p \in prov}]
<1>1. \A p \in prov : ProvRow(p).key = p
  BY DEF ProvRow, Row
<1>2. Within(proofs, tables, paths)
  BY <1>1 DEF Within, RowsOf
<1> HIDE DEF proofs
<1>3. Within(Join(rows, proofs), tables, paths)
  BY <1>2, WithinJoin
<1> QED
  BY <1>3 DEF Proved, proofs

(* So does an insertion loop whose entries do. *)
LEMMA WithinEach ==
  ASSUME NEW entries, NEW broken, NEW tables, NEW paths,
         InsertEach(entries, broken).error = "none",
         \A i \in DOMAIN entries : /\ Within(entries[i].rows, tables, paths)
                                   /\ entries[i].prov[3] \in paths
  PROVE  Within(InsertEach(entries, broken).rows, tables, paths)
<1> DEFINE parts  == {entries[i].rows : i \in DOMAIN entries}
           proofs == {entries[i].prov : i \in DOMAIN entries}
<1>1. InsertEach(entries, broken).rows = Proved(JoinAll(parts), proofs)
  BY InsertEachRows, Zenon
<1>2. (\A p \in parts : Within(p, tables, paths)) /\ \A p \in proofs : p[3] \in paths
  OBVIOUS
<1> HIDE DEF parts, proofs
<1>3. Within(JoinAll(parts), tables, paths)
  BY <1>2, WithinJoinAll
<1>4. Within(Proved(JoinAll(parts), proofs), tables, paths)
  BY <1>2, <1>3, WithinProved
<1> QED
  BY <1>1, <1>4

(* The path of a provenance. *)
LEMMA PathOf ==
  ASSUME NEW s, NEW source, NEW path, NEW id
  PROVE  Prov(s, source, path, id)[3] = path
BY DEF Prov

(* Rows without provenance are within their own tables. *)
LEMMA WithinTables ==
  ASSUME NEW rows, NEW tables, NEW paths, DOMAIN rows \subseteq tables,
         "record_provenance" \notin tables
  PROVE  Within(rows, tables, paths)
BY DEF Within, RowsOf

(***************************************************************************)
(* The importers: sound rows, of their own tables                          *)
(***************************************************************************)

(* The tables an importer fills, and the source paths its provenance names. *)
EnemyTables  == {"enemies", "enemy_levels"}
StageTables  == {"zones", "stages", "stage_maps", "stage_tiles", "stage_routes",
                 "stage_enemy_variants", "stage_waves", "stage_spawns", "stage_enemies"}
StagePaths   == {"zone_table", "activity_table", "stage_table", "level"}
RosterTables == {"skills", "skill_levels", "operators", "operator_aliases", "operator_phases",
                 "operator_skills", "talents", "talent_levels", "operator_factions"}
RosterPaths  == {"skill_table", "character_table"}
ModuleTables == {"modules", "module_levels"}

(* Rows of these tables, with provenance of these paths, are within both. *)
LEMMA ProvedWithin ==
  ASSUME NEW rows, NEW prov, NEW tables, NEW paths, DOMAIN rows \subseteq tables,
         "record_provenance" \notin tables, \A p \in prov : p[3] \in paths
  PROVE  Within(Proved(rows, prov), tables, paths)
BY WithinTables, WithinProved

(* No rows are within anything. *)
LEMMA NoRowsWithin == \A tables, paths : Within(NoRows, tables, paths)
BY DEF Within, NoRows, RowsOf

(* The server and the source of a provenance. *)
LEMMA ProvOf ==
  ASSUME NEW s, NEW source, NEW path, NEW id
  PROVE  Prov(s, source, path, id)[1] = s /\ Prov(s, source, path, id)[2] = source
BY DEF Prov

(* import_enemies: every row it inserts, with what the snapshot before it
   left, is sound; and it keeps to its tables. *)
LEMMA EnemiesFit ==
  ASSUME NEW s, NEW raw, NEW c, ImportEnemies(s, raw).error = "none",
         Includes(c, ImportEnemies(s, raw).rows), Holds(c, "source_snapshots", <<s, GameData>>)
  PROVE  /\ Fits(ImportEnemies(s, raw).rows, s, c)
         /\ Within(ImportEnemies(s, raw).rows, EnemyTables, {"enemy_handbook_table"})
<1> DEFINE P(e)  == Prov(s, GameData, "enemy_handbook_table", e)
           ids   == ParseEnemies(raw)
           Lv(e) == EnemyLevels(raw, e)
           base  == {Row(<<s, e>>, {}, P(e), <<>>) : e \in ids}
           level == UNION {{Row(<<s, e, Lv(e)[i].level>>, {<<"enemies", <<s, e>>>>}, <<>>, Lv(e)[i].val) :
                              i \in DOMAIN Lv(e)} : e \in ids}
           rows  == [enemies |-> base, enemy_levels |-> level]
<1>1. ImportEnemies(s, raw).rows = Proved(rows, {P(e) : e \in ids})
  BY DEF ImportEnemies, Ok, Refused, Torn
<1>2. Includes(c, rows) /\ \A e \in ids : Holds(c, "record_provenance", P(e))
  BY <1>1, ProvedParts
<1>3. \A e \in ids : Proven(P(e), s, c)
  BY <1>2, ProvOf DEF Proven
<1>4. \A e \in ids : Holds(c, "enemies", <<s, e>>)
  BY <1>2, RowHeld DEF Includes
<1>5. ASSUME NEW r \in base PROVE Sound("enemies", r, s, c)
  BY <1>3, RowSound
<1>6. ASSUME NEW r \in level PROVE Sound("enemy_levels", r, s, c)
<2>1. PICK e \in ids : r \in {Row(<<s, e, Lv(e)[i].level>>, {<<"enemies", <<s, e>>>>}, <<>>,
                                  Lv(e)[i].val) : i \in DOMAIN Lv(e)}
  OBVIOUS
<2>2. Named(<<"enemies", <<s, e>>>>, s, c)
  BY <1>4, InGame, RefNamed
<2>3. PICK i \in DOMAIN Lv(e) :
        r = Row(<<s, e, Lv(e)[i].level>>, {<<"enemies", <<s, e>>>>}, <<>>, Lv(e)[i].val)
  BY <2>1
<2> QED
  BY <2>2, <2>3, RowSound
<1>7. Fits(rows, s, c)
<2> HIDE DEF base, level
<2> QED
  BY <1>5, <1>6, InGame DEF Fits
<1>8. Within(Proved(rows, {P(e) : e \in ids}), EnemyTables, {"enemy_handbook_table"})
<2> HIDE DEF base, level
<2> QED
  BY ProvedWithin, PathOf DEF EnemyTables
<1> QED
  BY <1>1, <1>7, <1>8, ProvedFits, ProvOf

(* A spawn names a route its level has and a variant its level collects, or
   none. *)
LEMMA BoundNames ==
  ASSUME NEW a, NEW refs, NEW routes, NEW variants,
         NEW sp, sp = Bound(NormalizeAction(a, refs), routes, variants)
  PROVE  /\ sp.route = Unset \/ sp.route \in routes
         /\ sp.variant = NoText \/ sp.variant \in variants
<1> DEFINE n == NormalizeAction(a, refs)
<1>1. DOMAIN n = {"enemy", "variant", "level", "route", "time", "count"}
  BY DEF NormalizeAction
<1> HIDE DEF n
<1> QED
  BY <1>1 DEF Bound

(* So does each spawn of the waves of a level. *)
LEMMA WavesNamed ==
  ASSUME NEW lv, NEW w \in DOMAIN BoundWaves(lv), NEW i \in DOMAIN BoundWaves(lv)[w],
         NEW sp, sp = BoundWaves(lv)[w][i]
  PROVE  /\ sp.route = Unset \/ sp.route \in RouteIndices(lv)
         /\ sp.variant = NoText \/ sp.variant \in DOMAIN CollectVariants(lv.refs)
<1>1. sp = Bound(NormalizeAction(lv.waves[w][i], lv.refs), RouteIndices(lv), DOMAIN CollectVariants(lv.refs))
  BY DEF BoundWaves, Spawns
<1> QED
  BY <1>1, BoundNames

(* The references of a row of a stage's enemies. *)
LEMMA LinksNamed ==
  ASSUME NEW s, NEW g, NEW enemies, NEW c, NEW e \in DOMAIN enemies, NEW v, NEW r,
         Holds(c, "stages", <<s, g>>),
         enemies[e][1] = s /\ Holds(c, "enemies", enemies[e]),
         v = NoText \/ Holds(c, "stage_enemy_variants", <<s, g, v>>),
         r = Unset \/ Holds(c, "stage_routes", <<s, g, r>>)
  PROVE  \A ref \in EnemyLinks(s, g, enemies, e, v, r) : Named(ref, s, c)
<1>1. Named(<<"stages", <<s, g>>>>, s, c) /\ Named(<<"enemies", enemies[e]>>, s, c)
  BY InGame, RefNamed
<1>2. v # NoText => Named(<<"stage_enemy_variants", <<s, g, v>>>>, s, c)
  BY InGame, RefNamed
<1>3. r # Unset => Named(<<"stage_routes", <<s, g, r>>>>, s, c)
  BY InGame, RefNamed
<1> QED
  BY <1>1, <1>2, <1>3 DEF EnemyLinks

(* One level file: its rows fit where its stage and the enemies are. *)
LEMMA LevelFits ==
  ASSUME NEW s, NEW g, NEW lv, NEW enemies, NEW c,
         InsertLevel(s, g, lv, enemies).error = "none",
         Includes(c, InsertLevel(s, g, lv, enemies).rows),
         Holds(c, "source_snapshots", <<s, GameData>>),
         Holds(c, "stages", <<s, g>>),
         \A e \in DOMAIN enemies : enemies[e][1] = s /\ Holds(c, "enemies", enemies[e])
  PROVE  /\ Fits(InsertLevel(s, g, lv, enemies).rows, s, c)
         /\ Within(InsertLevel(s, g, lv, enemies).rows, StageTables, StagePaths)
<1> DEFINE P        == Prov(s, GameData, "level", g)
           stage    == <<"stages", <<s, g>>>>
           variants == CollectVariants(lv.refs)
           waves    == BoundWaves(lv)
           agg      == Tally(waves, RouteIndices(lv))
           maps   == {Row(<<s, g>>, {stage}, P, <<>>)}
           tiles  == {Row(<<s, g, x[2] - 1, x[1] - 1>>, {stage}, P,
                          lv.defs[lv.grid[x[1]][x[2]]]) : x \in Tiles(lv)}
           lanes  == {Row(<<s, g, RouteIndex(lv, i)>>, {stage}, P,
                          ToGridFrame(lv.routes[i].start, Len(lv.grid))) : i \in DOMAIN lv.routes}
           inline == {Row(<<s, g, v>>, {stage, <<"enemies", enemies[variants[v]]>>}, P, <<>>) :
                        v \in DOMAIN variants}
           tides  == {Row(<<s, g, w - 1>>, {stage}, P, <<>>) : w \in DOMAIN lv.waves}
           spawns == UNION {{LET sp == waves[w][i] IN
                             Row(<<s, g, w - 1, i>>,
                                 EnemyLinks(s, g, enemies, sp.enemy, sp.variant, sp.route)
                                   \cup {<<"stage_waves", <<s, g, w - 1>>>>}, P, sp) :
                               i \in DOMAIN waves[w]} : w \in DOMAIN waves}
           totals == {Row(<<s, g, k[1], k[2], k[3]>>, EnemyLinks(s, g, enemies, k[1], k[3], Unset), P,
                          [agg[k] EXCEPT !.routes = Cardinality(@)]) : k \in DOMAIN agg}
           rows   == [stage_maps |-> maps, stage_tiles |-> tiles, stage_routes |-> lanes,
                      stage_enemy_variants |-> inline, stage_waves |-> tides,
                      stage_spawns |-> spawns, stage_enemies |-> totals]
<1>1. /\ InsertLevel(s, g, lv, enemies).rows = Proved(rows, {P})
      /\ \A v \in DOMAIN variants : variants[v] \in DOMAIN enemies
      /\ \A w \in DOMAIN waves : \A i \in DOMAIN waves[w] : waves[w][i].enemy \in DOMAIN enemies
  BY DEF InsertLevel, Ok, Refused
<1>2. Includes(c, rows) /\ Holds(c, "record_provenance", P)
  BY <1>1, ProvedParts
<1>3. Proven(P, s, c) /\ P[1] = s /\ P[2] = GameData
  BY <1>2, ProvOf DEF Proven
<1>4. /\ lanes \subseteq c["stage_routes"] /\ inline \subseteq c["stage_enemy_variants"]
      /\ tides \subseteq c["stage_waves"]
<2> HIDE DEF lanes, inline, tides, maps, tiles, spawns, totals
<2> QED
  BY <1>2 DEF Includes
<1>5. Named(stage, s, c)
  BY InGame, RefNamed
<1>6. \A r \in RouteIndices(lv) : Holds(c, "stage_routes", <<s, g, r>>)
  BY <1>4, RowHeld DEF RouteIndices
<1>7. \A v \in DOMAIN variants : Holds(c, "stage_enemy_variants", <<s, g, v>>)
  BY <1>4, RowHeld
<1>8. \A w \in DOMAIN waves : Holds(c, "stage_waves", <<s, g, w - 1>>)
  BY <1>4, RowHeld DEF BoundWaves
<1>9. ASSUME NEW w \in DOMAIN waves, NEW i \in DOMAIN waves[w], NEW sp, sp = waves[w][i]
      PROVE  \A ref \in EnemyLinks(s, g, enemies, sp.enemy, sp.variant, sp.route) : Named(ref, s, c)
<2>1. /\ sp.route = Unset \/ sp.route \in RouteIndices(lv)
      /\ sp.variant = NoText \/ sp.variant \in DOMAIN variants
  BY <1>9, WavesNamed
<2>2. sp.enemy \in DOMAIN enemies
  BY <1>1, <1>9
<2> QED
  BY <2>1, <2>2, <1>6, <1>7, LinksNamed
<1>10. \A r \in maps : Sound("stage_maps", r, s, c)
  BY <1>3, <1>5, OneRefSound
<1>11. ASSUME NEW r \in tiles PROVE Sound("stage_tiles", r, s, c)
<2>1. PICK x \in Tiles(lv) : r = Row(<<s, g, x[2] - 1, x[1] - 1>>, {stage}, P,
                                       lv.defs[lv.grid[x[1]][x[2]]])
  OBVIOUS
<2> QED
  BY <2>1, <1>3, <1>5, OneRefSound
<1>12. ASSUME NEW r \in lanes PROVE Sound("stage_routes", r, s, c)
<2>1. PICK i \in DOMAIN lv.routes : r = Row(<<s, g, RouteIndex(lv, i)>>, {stage}, P,
                                             ToGridFrame(lv.routes[i].start, Len(lv.grid)))
  OBVIOUS
<2> QED
  BY <2>1, <1>3, <1>5, OneRefSound
<1>13. ASSUME NEW r \in tides PROVE Sound("stage_waves", r, s, c)
<2>1. PICK w \in DOMAIN lv.waves : r = Row(<<s, g, w - 1>>, {stage}, P, <<>>)
  OBVIOUS
<2> QED
  BY <2>1, <1>3, <1>5, OneRefSound
<1>14. ASSUME NEW r \in inline PROVE Sound("stage_enemy_variants", r, s, c)
<2>1. PICK v \in DOMAIN variants :
        r = Row(<<s, g, v>>, {stage, <<"enemies", enemies[variants[v]]>>}, P, <<>>)
  OBVIOUS
<2>2. Named(<<"enemies", enemies[variants[v]]>>, s, c)
  BY <1>1, InGame, RefNamed
<2> QED
  BY <2>1, <2>2, <1>3, <1>5, RowSound
<1>15. ASSUME NEW r \in spawns PROVE Sound("stage_spawns", r, s, c)
<2> DEFINE refs(w, i) ==
             EnemyLinks(s, g, enemies, waves[w][i].enemy, waves[w][i].variant, waves[w][i].route)
               \cup {<<"stage_waves", <<s, g, w - 1>>>>}
<2>1. PICK w \in DOMAIN waves :
        r \in {Row(<<s, g, w - 1, i>>, refs(w, i), P, waves[w][i]) : i \in DOMAIN waves[w]}
  OBVIOUS
<2>2. PICK i \in DOMAIN waves[w] : r = Row(<<s, g, w - 1, i>>, refs(w, i), P, waves[w][i])
  BY <2>1
<2>3. Named(<<"stage_waves", <<s, g, w - 1>>>>, s, c)
  BY <1>8, InGame, RefNamed
<2>4. \A ref \in refs(w, i) : Named(ref, s, c)
  BY <1>9, <2>3
<2> HIDE DEF refs
<2> QED
  BY <2>2, <2>4, <1>3, RowSound
<1>16. ASSUME NEW r \in totals PROVE Sound("stage_enemies", r, s, c)
<2>1. PICK k \in DOMAIN agg :
        r = Row(<<s, g, k[1], k[2], k[3]>>, EnemyLinks(s, g, enemies, k[1], k[3], Unset), P,
                [agg[k] EXCEPT !.routes = Cardinality(@)])
  OBVIOUS
<2>2. PICK p \in Places(waves) : k = Bucket(At(waves, p))
  BY DEF Tally
<2> DEFINE sp == At(waves, p)
<2>3. k = Bucket(sp)
  BY <2>2
<2>4. PICK w \in DOMAIN waves : p \in {w} \X DOMAIN waves[w]
  BY DEF Places
<2>5. PICK i \in DOMAIN waves[w] : sp = waves[w][i]
  BY <2>4 DEF At
<2> HIDE DEF sp
<2>6. /\ sp.variant = NoText \/ sp.variant \in DOMAIN variants
      /\ sp.enemy \in DOMAIN enemies
  BY <1>1, <2>5, WavesNamed
<2>7. k[1] = sp.enemy /\ k[3] = sp.variant
  BY <2>3 DEF Bucket
<2>8. \A ref \in EnemyLinks(s, g, enemies, k[1], k[3], Unset) : Named(ref, s, c)
  BY <2>6, <2>7, <1>7, LinksNamed
<2> QED
  BY <2>1, <2>8, <1>3, RowSound
<1>17. Fits(rows, s, c)
<2> HIDE DEF maps, tiles, lanes, inline, tides, spawns, totals
<2> QED
  BY <1>10, <1>11, <1>12, <1>13, <1>14, <1>15, <1>16, InGame DEF Fits
<1>18. Within(Proved(rows, {P}), StageTables, StagePaths)
<2>1. P[3] \in StagePaths
  BY PathOf DEF StagePaths
<2> HIDE DEF P, maps, tiles, lanes, inline, tides, spawns, totals
<2> QED
  BY <2>1, ProvedWithin DEF StageTables
<1> QED
  BY <1>1, <1>3, <1>17, <1>18, ProvedFits, ZenonT(30)

(* A key PkByGameId returns of rows that are held is held. *)
LEMMA PkHeld ==
  ASSUME NEW rows, NEW s, NEW c, NEW t, rows \subseteq c[t],
         NEW id \in DOMAIN PkByGameId(rows, s)
  PROVE  PkByGameId(rows, s)[id][1] = s /\ Holds(c, t, PkByGameId(rows, s)[id])
BY PkKnown DEF Holds

(* A soft reference to an operator, NULL when it is not there, never
   dangles. *)
LEMMA OperatorNamed ==
  ASSUME NEW rows, NEW s, NEW c, NEW x, rows \subseteq c["operators"]
  PROVE  \A ref \in OperatorRef(PkByGameId(rows, s), x) : Named(ref, s, c)
<1> DEFINE known == PkByGameId(rows, s)
<1>1. ASSUME x \in DOMAIN known PROVE Named(<<"operators", known[x]>>, s, c)
<2>1. known[x][1] = s /\ Holds(c, "operators", known[x])
  BY <1>1, PkHeld
<2> HIDE DEF known
<2> QED
  BY <2>1, InGame, RefNamed
<1>2. OperatorRef(known, x) = IF x \in DOMAIN known THEN {<<"operators", known[x]>>} ELSE {}
  BY DEF OperatorRef
<1> HIDE DEF known
<1>3. \A ref \in OperatorRef(known, x) : Named(ref, s, c)
  BY <1>1, <1>2
<1> QED
  BY <1>3 DEF known

(* Zones fit, and each zone of the file is then held. *)
LEMMA ZonesFit ==
  ASSUME NEW s, NEW raw, NEW titles, NEW c, Includes(c, ZoneRows(s, raw, titles)),
         Holds(c, "source_snapshots", <<s, GameData>>)
  PROVE  /\ Fits(ZoneRows(s, raw, titles), s, c)
         /\ \A z \in DOMAIN raw.zones : Holds(c, "zones", <<s, z>>)
         /\ Within(ZoneRows(s, raw, titles), StageTables, StagePaths)
<1> DEFINE P(z) == Prov(s, GameData, "zone_table", z)
           A(z) == Prov(s, GameData, "activity_table", titles[z])
           own  == DOMAIN raw.zones
           refs(z) == IF z \in DOMAIN titles THEN {<<"record_provenance", A(z)>>} ELSE {}
           val(z)  == [subtitle |-> raw.zones[z],
                       title |-> IF z \in DOMAIN titles
                                 THEN raw.activity.names[titles[z]] ELSE NoText]
           zones == {Row(<<s, z>>, refs(z), P(z), val(z)) : z \in own}
           rows  == [zones |-> zones]
           prov  == {P(z) : z \in own} \cup {A(z) : z \in own \cap DOMAIN titles}
<1>1. ZoneRows(s, raw, titles) = Proved(rows, prov)
  BY DEF ZoneRows
<1>2. Includes(c, rows) /\ \A p \in prov : Holds(c, "record_provenance", p)
  BY <1>1, ProvedParts
<1>3. \A z \in own : Proven(P(z), s, c)
  BY <1>2, ProvOf DEF Proven
<1>4. ASSUME NEW z \in own PROVE \A ref \in refs(z) : Named(ref, s, c)
<2>1. ASSUME z \in DOMAIN titles PROVE Named(<<"record_provenance", A(z)>>, s, c)
<3>1. A(z) \in prov /\ A(z)[1] = s
  BY <2>1, ProvOf
<3> HIDE DEF A, prov
<3> QED
  BY <3>1, <1>2, InGame, RefNamed
<2> HIDE DEF A
<2> QED
  BY <2>1
<1>5. ASSUME NEW r \in zones PROVE Sound("zones", r, s, c)
<2>1. PICK z \in own : r = Row(<<s, z>>, refs(z), P(z), val(z))
  OBVIOUS
<2> QED
  BY <2>1, <1>3, <1>4, RowSound
<1>6. Fits(rows, s, c) /\ zones \subseteq c["zones"]
<2> HIDE DEF zones
<2> QED
  BY <1>2, <1>5, InGame DEF Fits, Includes
<1>7. \A z \in own : Holds(c, "zones", <<s, z>>)
<2> HIDE DEF refs, val, P
<2> QED
  BY <1>6, RowHeld
<1>8. \A z : P(z)[1] = s /\ P(z)[2] = GameData /\ A(z)[1] = s /\ A(z)[2] = GameData
  BY ProvOf
<1>9. \A p \in prov : p[1] = s /\ p[2] = GameData
<2> HIDE DEF P, A
<2> QED
  BY <1>8
<1>10. Within(Proved(rows, prov), StageTables, StagePaths)
<2>1. \A z : P(z)[3] \in StagePaths /\ A(z)[3] \in StagePaths
  BY PathOf DEF StagePaths
<2>2. \A p \in prov : p[3] \in StagePaths
<3> HIDE DEF P, A
<3> QED
  BY <2>1
<2> HIDE DEF prov, zones
<2> QED
  BY <2>2, ProvedWithin DEF StageTables
<1> QED
  BY <1>1, <1>6, <1>7, <1>9, <1>10, ProvedFits

(* Stages fit where the zones are, and each stage of the file is then held. *)
LEMMA StageRowsFit ==
  ASSUME NEW s, NEW raw, NEW c, Includes(c, StageRows(s, raw)),
         Holds(c, "source_snapshots", <<s, GameData>>),
         \A z \in DOMAIN raw.zones : Holds(c, "zones", <<s, z>>)
  PROVE  /\ Fits(StageRows(s, raw), s, c)
         /\ \A g \in DOMAIN raw.stages : Holds(c, "stages", <<s, g>>)
         /\ Within(StageRows(s, raw), StageTables, StagePaths)
<1> DEFINE P(g)    == Prov(s, GameData, "stage_table", g)
           Zone(g) == LET z == raw.stages[g].zone
                      IN IF z \in DOMAIN raw.zones THEN {<<"zones", <<s, z>>>>} ELSE {}
           stages  == {Row(<<s, g>>, Zone(g), P(g), LevelPath(raw.stages[g])) : g \in DOMAIN raw.stages}
           rows    == [stages |-> stages]
           prov    == {P(g) : g \in DOMAIN raw.stages}
<1>1. StageRows(s, raw) = Proved(rows, prov)
  BY DEF StageRows
<1>2. Includes(c, rows) /\ \A p \in prov : Holds(c, "record_provenance", p)
  BY <1>1, ProvedParts
<1>3. \A g \in DOMAIN raw.stages : Proven(P(g), s, c)
  BY <1>2, ProvOf DEF Proven
<1>4. \A g \in DOMAIN raw.stages : \A ref \in Zone(g) : Named(ref, s, c)
<2>1. \A z \in DOMAIN raw.zones : Named(<<"zones", <<s, z>>>>, s, c)
  BY InGame, RefNamed
<2> QED
  BY <2>1
<1>5. ASSUME NEW r \in stages PROVE Sound("stages", r, s, c)
<2>1. PICK g \in DOMAIN raw.stages : r = Row(<<s, g>>, Zone(g), P(g), LevelPath(raw.stages[g]))
  OBVIOUS
<2> HIDE DEF Zone
<2> QED
  BY <2>1, <1>3, <1>4, RowSound
<1>6. Fits(rows, s, c) /\ stages \subseteq c["stages"]
<2> HIDE DEF stages
<2> QED
  BY <1>2, <1>5, InGame DEF Fits, Includes
<1>7. \A g \in DOMAIN raw.stages : Holds(c, "stages", <<s, g>>)
  BY <1>6, RowHeld
<1>8. \A p \in prov : p[1] = s /\ p[2] = GameData
  BY ProvOf
<1>9. Within(Proved(rows, prov), StageTables, StagePaths)
<2>1. \A p \in prov : p[3] \in StagePaths
  BY PathOf DEF StagePaths
<2> HIDE DEF prov, stages
<2> QED
  BY <2>1, ProvedWithin DEF StageTables
<1> QED
  BY <1>1, <1>6, <1>7, <1>8, <1>9, ProvedFits

(* import_stages, its zones, stages and level files together. *)
LEMMA StagesFit ==
  ASSUME NEW s, NEW raw, NEW b, NEW c, ImportStages(s, raw, b).error = "none",
         Includes(c, ImportStages(s, raw, b).rows), b["enemies"] \subseteq c["enemies"],
         Holds(c, "source_snapshots", <<s, GameData>>)
  PROVE  /\ Fits(ImportStages(s, raw, b).rows, s, c)
         /\ Within(ImportStages(s, raw, b).rows, StageTables, StagePaths)
<1> DEFINE enemies == PkByGameId(b["enemies"], s)
           titles  == IF raw.activity.shape = "absent" THEN <<>>
                      ELSE ParseActivityTitles(raw.activity)
           level(g) == InsertLevel(s, g, raw.files[LevelPath(raw.stages[g])], enemies)
           levels  == {level(g) : g \in Present(raw)}
           parts   == {ZoneRows(s, raw, titles), StageRows(s, raw)} \cup {l.rows : l \in levels}
<1>1. /\ ImportStages(s, raw, b).rows = JoinAll(parts)
      /\ \A l \in levels : l.error = "none"
  BY DEF ImportStages, Ok, Refused, Torn
<1>2. \A p \in parts : Includes(c, p)
<2> HIDE DEF parts
<2> QED
  BY <1>1, JoinAllIncluded
<1>3. /\ Fits(ZoneRows(s, raw, titles), s, c)
      /\ \A z \in DOMAIN raw.zones : Holds(c, "zones", <<s, z>>)
      /\ Within(ZoneRows(s, raw, titles), StageTables, StagePaths)
  BY <1>2, ZonesFit
<1>4. /\ Fits(StageRows(s, raw), s, c)
      /\ \A g \in DOMAIN raw.stages : Holds(c, "stages", <<s, g>>)
      /\ Within(StageRows(s, raw), StageTables, StagePaths)
  BY <1>2, <1>3, StageRowsFit
<1>5. \A e \in DOMAIN enemies : enemies[e][1] = s /\ Holds(c, "enemies", enemies[e])
  BY PkHeld
<1>6. ASSUME NEW l \in levels PROVE Fits(l.rows, s, c) /\ Within(l.rows, StageTables, StagePaths)
<2>1. PICK g \in Present(raw) : l = level(g)
  OBVIOUS
<2>2. g \in DOMAIN raw.stages
  BY DEF Present, Referenced
<2>3. Includes(c, l.rows) /\ l.error = "none"
  BY <1>1, <1>2
<2> HIDE DEF enemies
<2> QED
  BY <2>1, <2>2, <2>3, <1>4, <1>5, LevelFits
<1>7. \A p \in parts : Fits(p, s, c) /\ Within(p, StageTables, StagePaths)
<2> HIDE DEF levels, titles
<2> QED
  BY <1>3, <1>4, <1>6
<1> HIDE DEF parts
<1> QED
  BY <1>1, <1>7, JoinAllFits, WithinJoinAll

(* Skills fit, and each skill of the file is then held. *)
LEMMA SkillRowsFit ==
  ASSUME NEW s, NEW skills, NEW c, Includes(c, SkillRows(s, skills)),
         Holds(c, "source_snapshots", <<s, GameData>>)
  PROVE  /\ Fits(SkillRows(s, skills), s, c)
         /\ \A k \in DOMAIN skills : Holds(c, "skills", <<s, k>>)
         /\ Within(SkillRows(s, skills), RosterTables, RosterPaths)
<1> DEFINE P(k) == Prov(s, GameData, "skill_table", k)
           ids  == DOMAIN skills
           Shared(k) == UniformStr(skills[k])
           base   == {Row(<<s, k>>, {}, P(k), Shared(k)) : k \in ids}
           levels == UNION {{Row(<<s, k, i>>, {<<"skills", <<s, k>>>>}, <<>>,
                                 LevelOnly(Shared(k), skills[k][i])) : i \in DOMAIN skills[k]} : k \in ids}
           rows   == [skills |-> base, skill_levels |-> levels]
           prov   == {P(k) : k \in ids}
<1>1. SkillRows(s, skills) = Proved(rows, prov)
  BY DEF SkillRows
<1>2. Includes(c, rows) /\ \A p \in prov : Holds(c, "record_provenance", p)
  BY <1>1, ProvedParts
<1>3. \A k \in ids : Proven(P(k), s, c)
  BY <1>2, ProvOf DEF Proven
<1>4. base \subseteq c["skills"]
<2> HIDE DEF base, levels
<2> QED
  BY <1>2 DEF Includes
<1>5. \A k \in ids : Holds(c, "skills", <<s, k>>)
<2> HIDE DEF Shared, P
<2> QED
  BY <1>4, RowHeld
<1>6. ASSUME NEW r \in base PROVE Sound("skills", r, s, c)
  BY <1>3, RowSound
<1>7. ASSUME NEW r \in levels PROVE Sound("skill_levels", r, s, c)
<2>1. PICK k \in ids : r \in {Row(<<s, k, i>>, {<<"skills", <<s, k>>>>}, <<>>,
                                  LevelOnly(Shared(k), skills[k][i])) : i \in DOMAIN skills[k]}
  OBVIOUS
<2>2. PICK i \in DOMAIN skills[k] :
        r = Row(<<s, k, i>>, {<<"skills", <<s, k>>>>}, <<>>, LevelOnly(Shared(k), skills[k][i]))
  BY <2>1
<2>3. Named(<<"skills", <<s, k>>>>, s, c)
  BY <1>5, InGame, RefNamed
<2> QED
  BY <2>2, <2>3, OneRefSound
<1>8. Fits(rows, s, c)
<2> HIDE DEF base, levels
<2> QED
  BY <1>6, <1>7, InGame DEF Fits
<1>9. Within(Proved(rows, prov), RosterTables, RosterPaths)
<2>1. \A p \in prov : p[3] \in RosterPaths
  BY PathOf DEF RosterPaths
<2> HIDE DEF prov, base, levels
<2> QED
  BY <2>1, ProvedWithin DEF RosterTables
<1> QED
  BY <1>1, <1>5, <1>8, <1>9, ProvedFits, ProvOf

(* Operators fit where the skills are. *)
LEMMA OperatorRowsFit ==
  ASSUME NEW s, NEW raw, NEW skillIds, NEW c, Includes(c, OperatorRows(s, raw, skillIds)),
         Holds(c, "source_snapshots", <<s, GameData>>),
         \A k \in skillIds : Holds(c, "skills", <<s, k>>)
  PROVE  /\ Fits(OperatorRows(s, raw, skillIds), s, c)
         /\ Within(OperatorRows(s, raw, skillIds), RosterTables, RosterPaths)
<1> DEFINE P(o)  == Prov(s, GameData, "character_table", o)
           ids   == ParseOperators(raw.chars)
           O(o)  == <<"operators", <<s, o>>>>
           char(o)  == raw.chars[o]
           Links(o) == {i \in Listed(char(o).skills) : char(o).skills[i] \in skillIds}
           val(o)   == IF o \in DOMAIN raw.collab THEN raw.collab[o] ELSE NoText
           operators == {Row(<<s, o>>, {}, P(o), val(o)) : o \in ids}
           aliases   == {Row(<<s, o, "name">>, {O(o)}, <<>>, <<>>) : o \in ids}
           phases    == UNION {{Row(<<s, o, i - 1>>, {O(o)}, <<>>, <<>>) :
                                  i \in Listed(char(o).phases)} : o \in ids}
           skills    == UNION {{Row(<<s, o, i>>, {O(o), <<"skills", <<s, char(o).skills[i]>>>>},
                                    <<>>, <<>>) : i \in Links(o)} : o \in ids}
           talents   == UNION {{Row(<<s, o, i - 1>>, {O(o)}, <<>>, <<>>) :
                                  i \in DOMAIN char(o).talents} : o \in ids}
           Levels(o, i) == {Row(<<s, o, i - 1, v - 1>>, {<<"talents", <<s, o, i - 1>>>>}, <<>>, <<>>) :
                              v \in Listed(char(o).talents[i])}
           levels    == UNION {UNION {Levels(o, i) : i \in DOMAIN char(o).talents} : o \in ids}
           factions  == UNION {{Row(<<s, o, char(o).powers[i].id>>, {O(o)}, <<>>,
                                    char(o).powers[i].main) : i \in Factions(char(o).powers)} : o \in ids}
           rows == [operators |-> operators, operator_aliases |-> aliases, operator_phases |-> phases,
                    operator_skills |-> skills, talents |-> talents, talent_levels |-> levels,
                    operator_factions |-> factions]
           prov == {P(o) : o \in ids}
<1>1. OperatorRows(s, raw, skillIds) = Proved(rows, prov)
  BY DEF OperatorRows
<1>2. Includes(c, rows) /\ \A p \in prov : Holds(c, "record_provenance", p)
<2> HIDE DEF rows, prov
<2> QED
  BY <1>1, ProvedParts
<1>3. \A o \in ids : Proven(P(o), s, c)
  BY <1>2, ProvOf DEF Proven
<1>4. operators \subseteq c["operators"] /\ talents \subseteq c["talents"]
<2> HIDE DEF operators, aliases, phases, skills, talents, levels, factions
<2> QED
  BY <1>2 DEF Includes
<1>5. \A o \in ids : Named(O(o), s, c)
<2>1. \A o \in ids : Holds(c, "operators", <<s, o>>)
<3> HIDE DEF P, val
<3> QED
  BY <1>4, RowHeld
<2> QED
  BY <2>1, InGame, RefNamed
<1>6. ASSUME NEW o \in ids, NEW i \in DOMAIN char(o).talents
      PROVE  Named(<<"talents", <<s, o, i - 1>>>>, s, c)
<2> DEFINE Own(x) == {Row(<<s, x, j - 1>>, {O(x)}, <<>>, <<>>) : j \in DOMAIN char(x).talents}
<2>a. Row(<<s, o, i - 1>>, {O(o)}, <<>>, <<>>) \in Own(o) /\ UNION {Own(x) : x \in ids} \subseteq c["talents"]
  BY <1>4
<2>1. Row(<<s, o, i - 1>>, {O(o)}, <<>>, <<>>) \in c["talents"]
<3> HIDE DEF Own
<3> QED
  BY <2>a
<2>2. Holds(c, "talents", <<s, o, i - 1>>)
  BY <2>1, RowHeld
<2> QED
  BY <2>2, InGame, RefNamed
<1>7. \A r \in operators : Sound("operators", r, s, c)
<2> HIDE DEF P, val
<2> QED
  BY <1>3, RowSound
<1>8. ASSUME NEW r \in aliases PROVE Sound("operator_aliases", r, s, c)
<2>1. PICK o \in ids : r = Row(<<s, o, "name">>, {O(o)}, <<>>, <<>>)
  OBVIOUS
<2> QED
  BY <2>1, <1>5, OneRefSound
<1>9. ASSUME NEW r \in phases PROVE Sound("operator_phases", r, s, c)
<2>1. PICK o \in ids : r \in {Row(<<s, o, i - 1>>, {O(o)}, <<>>, <<>>) : i \in Listed(char(o).phases)}
  OBVIOUS
<2>2. PICK i \in Listed(char(o).phases) : r = Row(<<s, o, i - 1>>, {O(o)}, <<>>, <<>>)
  BY <2>1
<2> QED
  BY <2>2, <1>5, OneRefSound
<1>10. ASSUME NEW r \in skills PROVE Sound("operator_skills", r, s, c)
<2>1. PICK o \in ids : r \in {Row(<<s, o, i>>, {O(o), <<"skills", <<s, char(o).skills[i]>>>>},
                                  <<>>, <<>>) : i \in Links(o)}
  OBVIOUS
<2>2. PICK i \in Links(o) : r = Row(<<s, o, i>>, {O(o), <<"skills", <<s, char(o).skills[i]>>>>}, <<>>, <<>>)
  BY <2>1
<2>3. Named(<<"skills", <<s, char(o).skills[i]>>>>, s, c)
  BY <2>2, InGame, RefNamed
<2> QED
  BY <2>2, <2>3, <1>5, RowSound
<1>11. ASSUME NEW r \in talents PROVE Sound("talents", r, s, c)
<2>1. PICK o \in ids : r \in {Row(<<s, o, i - 1>>, {O(o)}, <<>>, <<>>) : i \in DOMAIN char(o).talents}
  OBVIOUS
<2>2. PICK i \in DOMAIN char(o).talents : r = Row(<<s, o, i - 1>>, {O(o)}, <<>>, <<>>)
  BY <2>1
<2> QED
  BY <2>2, <1>5, OneRefSound
<1>12. ASSUME NEW r \in levels PROVE Sound("talent_levels", r, s, c)
<2>1. PICK o \in ids : r \in UNION {Levels(o, i) : i \in DOMAIN char(o).talents}
<3> HIDE DEF Levels
<3> QED
  OBVIOUS
<2>2. PICK i \in DOMAIN char(o).talents : r \in Levels(o, i)
  BY <2>1
<2>3. PICK v \in Listed(char(o).talents[i]) :
        r = Row(<<s, o, i - 1, v - 1>>, {<<"talents", <<s, o, i - 1>>>>}, <<>>, <<>>)
  BY <2>2
<2> QED
  BY <2>3, <1>6, OneRefSound
<1>13. ASSUME NEW r \in factions PROVE Sound("operator_factions", r, s, c)
<2> DEFINE row(o, i) == Row(<<s, o, char(o).powers[i].id>>, {O(o)}, <<>>, char(o).powers[i].main)
<2>1. PICK o \in ids : r \in {row(o, i) : i \in Factions(char(o).powers)}
  OBVIOUS
<2>2. PICK i \in Factions(char(o).powers) : r = row(o, i)
  BY <2>1
<2> QED
  BY <2>2, <1>5, OneRefSound
<1>14. Fits(rows, s, c)
<2> HIDE DEF operators, aliases, phases, skills, talents, levels, factions
<2> QED
  BY <1>7, <1>8, <1>9, <1>10, <1>11, <1>12, <1>13, InGame DEF Fits
<1>15. Within(Proved(rows, prov), RosterTables, RosterPaths)
<2>1. \A p \in prov : p[3] \in RosterPaths
  BY PathOf DEF RosterPaths
<2> HIDE DEF prov, operators, aliases, phases, skills, talents, levels, factions
<2> QED
  BY <2>1, ProvedWithin DEF RosterTables
<1>16. Fits(Proved(rows, prov), s, c)
  BY <1>14, ProvedFits, ProvOf
<1> HIDE DEF rows, prov
<1> QED
  BY <1>1, <1>15, <1>16

(* No rows fit everywhere. *)
LEMMA NoRowsFit == \A s, c : Fits(NoRows, s, c)
BY DEF Fits, NoRows

(* import_operators, its skills and its operators together. *)
LEMMA OperatorsFit ==
  ASSUME NEW s, NEW raw, NEW c, ImportOperators(s, raw).error = "none",
         Includes(c, ImportOperators(s, raw).rows), Holds(c, "source_snapshots", <<s, GameData>>)
  PROVE  /\ Fits(ImportOperators(s, raw).rows, s, c)
         /\ Within(ImportOperators(s, raw).rows, RosterTables, RosterPaths)
<1> DEFINE skills == SkillRows(s, raw.skills)
           chars  == OperatorRows(s, raw, DOMAIN raw.skills)
<1>1. \/ ImportOperators(s, raw).rows = NoRows
      \/ ImportOperators(s, raw).rows = Join(skills, chars)
  BY DEF ImportOperators, Ok, Refused, Torn
<1>2. ASSUME ImportOperators(s, raw).rows = Join(skills, chars)
      PROVE  /\ Fits(skills, s, c) /\ Fits(chars, s, c)
             /\ Within(skills, RosterTables, RosterPaths) /\ Within(chars, RosterTables, RosterPaths)
<2>1. Includes(c, skills) /\ Includes(c, chars)
  BY <1>2, JoinIncluded
<2> QED
  BY <2>1, SkillRowsFit, OperatorRowsFit
<1> QED
  BY <1>1, <1>2, NoRowsFit, JoinFits, NoRowsWithin, WithinJoin

(* import_modules: its operators are those of the candidate it read. *)
LEMMA ModulesFit ==
  ASSUME NEW s, NEW raw, NEW b, NEW c, ImportModules(s, raw, b).error = "none",
         Includes(c, ImportModules(s, raw, b).rows), b["operators"] \subseteq c["operators"],
         Holds(c, "source_snapshots", <<s, GameData>>)
  PROVE  /\ Fits(ImportModules(s, raw, b).rows, s, c)
         /\ Within(ImportModules(s, raw, b).rows, ModuleTables, {"uniequip_table"})
<1> DEFINE P(m)  == Prov(s, GameData, "uniequip_table", m)
           known == PkByGameId(b["operators"], s)
           ids   == {m \in ParseModules(raw.equip) : raw.equip[m].char \in DOMAIN known}
           base   == {Row(<<s, m>>, OperatorRef(known, raw.equip[m].char), P(m), <<>>) : m \in ids}
           levels == UNION {{Row(<<s, m, l>>, {<<"modules", <<s, m>>>>}, <<>>, <<>>) :
                               l \in ModuleLevels(raw.equip[m])} : m \in ids}
           rows   == [modules |-> base, module_levels |-> levels]
           prov   == {P(m) : m \in ids}
<1>1. \/ ImportModules(s, raw, b).rows = NoRows
      \/ ImportModules(s, raw, b).rows = Proved(rows, prov)
  BY DEF ImportModules, Ok, Refused, Torn
<1>2. SUFFICES ASSUME ImportModules(s, raw, b).rows = Proved(rows, prov)
               PROVE  /\ Fits(Proved(rows, prov), s, c)
                      /\ Within(Proved(rows, prov), ModuleTables, {"uniequip_table"})
  BY <1>1, NoRowsFit, NoRowsWithin
<1>3. Includes(c, rows) /\ \A p \in prov : Holds(c, "record_provenance", p)
  BY <1>2, ProvedParts
<1>4. \A m \in ids : Proven(P(m), s, c)
  BY <1>3, ProvOf DEF Proven
<1>5. base \subseteq c["modules"]
<2> HIDE DEF base, levels
<2> QED
  BY <1>3 DEF Includes
<1>6. \A m \in ids : Named(<<"modules", <<s, m>>>>, s, c)
<2>1. \A m \in ids : Holds(c, "modules", <<s, m>>)
<3> HIDE DEF P, known, ids
<3> QED
  BY <1>5, RowHeld
<2> QED
  BY <2>1, InGame, RefNamed
<1>7. ASSUME NEW r \in base PROVE Sound("modules", r, s, c)
<2>1. PICK m \in ids : r = Row(<<s, m>>, OperatorRef(known, raw.equip[m].char), P(m), <<>>)
  OBVIOUS
<2>2. \A ref \in OperatorRef(known, raw.equip[m].char) : Named(ref, s, c)
  BY OperatorNamed
<2> QED
  BY <2>1, <2>2, <1>4, RowSound
<1>8. ASSUME NEW r \in levels PROVE Sound("module_levels", r, s, c)
<2>1. PICK m \in ids : r \in {Row(<<s, m, l>>, {<<"modules", <<s, m>>>>}, <<>>, <<>>) :
                                l \in ModuleLevels(raw.equip[m])}
<3> HIDE DEF ids
<3> QED
  OBVIOUS
<2>2. PICK l \in ModuleLevels(raw.equip[m]) : r = Row(<<s, m, l>>, {<<"modules", <<s, m>>>>}, <<>>, <<>>)
  BY <2>1
<2> QED
  BY <2>2, <1>6, OneRefSound
<1>9. Fits(rows, s, c)
<2> HIDE DEF base, levels
<2> QED
  BY <1>7, <1>8, InGame DEF Fits
<1>10. Within(Proved(rows, prov), ModuleTables, {"uniequip_table"})
<2>1. \A p \in prov : p[3] = "uniequip_table"
  BY PathOf
<2> HIDE DEF prov, base, levels
<2> QED
  BY <2>1, ProvedWithin DEF ModuleTables
<1> QED
  BY <1>9, <1>10, ProvedFits, ProvOf

(* import_banners, with references to operators that may be NULL. *)
LEMMA BannersFit ==
  ASSUME NEW s, NEW raw, NEW b, NEW c, ImportBanners(s, raw, b).error = "none",
         Includes(c, ImportBanners(s, raw, b).rows), b["operators"] \subseteq c["operators"],
         Holds(c, "source_snapshots", <<s, GameData>>)
  PROVE  /\ Fits(ImportBanners(s, raw, b).rows, s, c)
         /\ Within(ImportBanners(s, raw, b).rows, Owned["banners"], SourcePaths["banners"])
<1> DEFINE pools  == raw.pools
           parsed == ParseBanners(raw)
           known  == PkByGameId(b["operators"], s)
           P(p)   == Prov(s, GameData, "gacha_table", p.id)
           base(p)     == {Row(<<s, p.id>>, {}, P(p), <<>>)}
           featured(p) == {Row(<<s, p.id, x>>, {<<"banners", <<s, p.id>>>>} \cup OperatorRef(known, x),
                               <<>>, x \in DOMAIN known) : x \in ToSet(FeaturedCharIds(p))}
           rows(p) == [banners |-> base(p), banner_featured_ops |-> featured(p)]
           entries == [i \in parsed |-> Insertion(pools[i].id, P(pools[i]), rows(pools[i]))]
           broken  == {i \in parsed : ~IsInjective(FeaturedCharIds(pools[i]))}
<1>1. \/ ImportBanners(s, raw, b).rows = NoRows
      \/ /\ ImportBanners(s, raw, b) = InsertEach(entries, broken)
         /\ InsertEach(entries, broken).error = "none"
  BY DEF ImportBanners, InsertBanners, Ok, Refused, Torn
<1>2. SUFFICES ASSUME ImportBanners(s, raw, b) = InsertEach(entries, broken),
                      InsertEach(entries, broken).error = "none"
               PROVE  /\ Fits(InsertEach(entries, broken).rows, s, c)
                      /\ Within(InsertEach(entries, broken).rows, Owned["banners"], SourcePaths["banners"])
<2> HIDE DEF entries, broken
<2> QED
  BY <1>1, NoRowsFit, NoRowsWithin
<1>3. ASSUME NEW p, Includes(c, rows(p)), Proven(P(p), s, c)
      PROVE  Fits(rows(p), s, c)
<2>1. base(p) \subseteq c["banners"]
<3> HIDE DEF base, featured
<3> QED
  BY <1>3 DEF Includes
<2>2. Holds(c, "banners", <<s, p.id>>)
<3> HIDE DEF P
<3> QED
  BY <2>1, RowHeld
<2>3. Named(<<"banners", <<s, p.id>>>>, s, c)
  BY <2>2, InGame, RefNamed
<2>4. \A r \in base(p) : Sound("banners", r, s, c)
  BY <1>3, RowSound
<2>5. ASSUME NEW r \in featured(p) PROVE Sound("banner_featured_ops", r, s, c)
<3>1. PICK x \in ToSet(FeaturedCharIds(p)) :
        r = Row(<<s, p.id, x>>, {<<"banners", <<s, p.id>>>>} \cup OperatorRef(known, x),
                <<>>, x \in DOMAIN known)
  OBVIOUS
<3>2. \A ref \in {<<"banners", <<s, p.id>>>>} \cup OperatorRef(known, x) : Named(ref, s, c)
  BY <2>3, OperatorNamed
<3> QED
  BY <3>1, <3>2, RowSound
<2> HIDE DEF base, featured
<2> QED
  BY <2>4, <2>5, InGame DEF Fits
<1>4. ASSUME NEW i \in DOMAIN entries
      PROVE  /\ entries[i].prov = P(pools[i]) /\ entries[i].rows = rows(pools[i])
             /\ entries[i].prov[1] = s /\ entries[i].prov[2] = GameData
<2>1. entries[i].prov = P(pools[i]) /\ entries[i].rows = rows(pools[i])
<3> HIDE DEF P, rows
<3> QED
  BY DEF Insertion
<2>2. P(pools[i])[1] = s /\ P(pools[i])[2] = GameData
  BY ProvOf
<2> HIDE DEF P, rows, entries
<2> QED
  BY <2>1, <2>2
<1>5. \A p : /\ Within(rows(p), Owned["banners"], SourcePaths["banners"])
             /\ P(p)[3] \in SourcePaths["banners"]
<2> HIDE DEF base, featured
<2> QED
  BY WithinTables, PathOf DEF Owned, SourcePaths
<1> HIDE DEF entries, broken, rows, P
<1> QED
  BY <1>2, <1>3, <1>4, <1>5, EntriesFit, WithinEach

(* import_skins. *)
LEMMA SkinsFit ==
  ASSUME NEW s, NEW raw, NEW b, NEW c, ImportSkins(s, raw, b).error = "none",
         Includes(c, ImportSkins(s, raw, b).rows), b["operators"] \subseteq c["operators"],
         Holds(c, "source_snapshots", <<s, GameData>>)
  PROVE  /\ Fits(ImportSkins(s, raw, b).rows, s, c)
         /\ Within(ImportSkins(s, raw, b).rows, Owned["skins"], SourcePaths["skins"])
<1> DEFINE known   == PkByGameId(b["operators"], s)
           P(k)    == Prov(s, GameData, "skin_table", k.id)
           rows(k) == [operator_skins |-> {Row(<<s, k.id>>, OperatorRef(known, k.char), P(k), <<>>)}]
           entries == [i \in ParseSkins(raw) |->
                         Insertion(raw.skins[i].id, P(raw.skins[i]), rows(raw.skins[i]))]
<1>1. \/ ImportSkins(s, raw, b).rows = NoRows
      \/ /\ ImportSkins(s, raw, b) = InsertEach(entries, {})
         /\ InsertEach(entries, {}).error = "none"
  BY DEF ImportSkins, Ok, Refused, Torn
<1>2. ASSUME NEW k, Proven(P(k), s, c) PROVE Fits(rows(k), s, c)
<2>1. \A ref \in OperatorRef(known, k.char) : Named(ref, s, c)
  BY OperatorNamed
<2>2. Sound("operator_skins", Row(<<s, k.id>>, OperatorRef(known, k.char), P(k), <<>>), s, c)
  BY <1>2, <2>1, RowSound
<2> QED
  BY <2>2, InGame DEF Fits
<1>3. ASSUME NEW i \in DOMAIN entries
      PROVE  /\ entries[i].prov = P(raw.skins[i]) /\ entries[i].rows = rows(raw.skins[i])
             /\ entries[i].prov[1] = s /\ entries[i].prov[2] = GameData
<2>1. entries[i].prov = P(raw.skins[i]) /\ entries[i].rows = rows(raw.skins[i])
<3> HIDE DEF P, rows
<3> QED
  BY DEF Insertion
<2>2. P(raw.skins[i])[1] = s /\ P(raw.skins[i])[2] = GameData
  BY ProvOf
<2> HIDE DEF P, rows, entries
<2> QED
  BY <2>1, <2>2
<1>4. \A x : /\ Within(rows(x), Owned["skins"], SourcePaths["skins"])
             /\ P(x)[3] \in SourcePaths["skins"]
  BY WithinTables, PathOf DEF Owned, SourcePaths
<1> HIDE DEF entries, rows, P
<1> QED
  BY <1>1, <1>2, <1>3, <1>4, NoRowsFit, NoRowsWithin, EntriesFit, WithinEach

(* import_ranges. *)
LEMMA RangesFit ==
  ASSUME NEW s, NEW raw, NEW c, ImportRanges(s, raw).error = "none",
         Includes(c, ImportRanges(s, raw).rows), Holds(c, "source_snapshots", <<s, GameData>>)
  PROVE  /\ Fits(ImportRanges(s, raw).rows, s, c)
         /\ Within(ImportRanges(s, raw).rows, Owned["ranges"], SourcePaths["ranges"])
<1> DEFINE P(r)    == Prov(s, GameData, "range_table", RangeId(r))
           rows(r) == [ranges |-> {Row(<<s, RangeId(r)>>, {}, P(r), r.cells)}]
           entries == [i \in ParseRanges(raw) |->
                         Insertion(RangeId(raw.ranges[i]), P(raw.ranges[i]), rows(raw.ranges[i]))]
<1>1. \/ ImportRanges(s, raw).rows = NoRows
      \/ /\ ImportRanges(s, raw) = InsertEach(entries, {})
         /\ InsertEach(entries, {}).error = "none"
  BY DEF ImportRanges, Ok, Refused, Torn
<1>2. ASSUME NEW r, Proven(P(r), s, c) PROVE Fits(rows(r), s, c)
<2>1. Sound("ranges", Row(<<s, RangeId(r)>>, {}, P(r), r.cells), s, c)
  BY <1>2, RowSound
<2> QED
  BY <2>1, InGame DEF Fits
<1>3. ASSUME NEW i \in DOMAIN entries
      PROVE  /\ entries[i].prov = P(raw.ranges[i]) /\ entries[i].rows = rows(raw.ranges[i])
             /\ entries[i].prov[1] = s /\ entries[i].prov[2] = GameData
<2>1. entries[i].prov = P(raw.ranges[i]) /\ entries[i].rows = rows(raw.ranges[i])
<3> HIDE DEF P, rows
<3> QED
  BY DEF Insertion
<2>2. P(raw.ranges[i])[1] = s /\ P(raw.ranges[i])[2] = GameData
  BY ProvOf
<2> HIDE DEF P, rows, entries
<2> QED
  BY <2>1, <2>2
<1>4. \A x : /\ Within(rows(x), Owned["ranges"], SourcePaths["ranges"])
             /\ P(x)[3] \in SourcePaths["ranges"]
  BY WithinTables, PathOf DEF Owned, SourcePaths
<1> HIDE DEF entries, rows, P
<1> QED
  BY <1>1, <1>2, <1>3, <1>4, NoRowsFit, NoRowsWithin, EntriesFit, WithinEach

(* insert_snapshot: its row fits, and is then held. *)
LEMMA SnapshotFits ==
  ASSUME NEW s, NEW source \in Sources, NEW c
  PROVE  /\ Fits(InsertSnapshot(s, source), s, c)
         /\ Includes(c, InsertSnapshot(s, source)) => Holds(c, "source_snapshots", <<s, source>>)
         /\ \A tables, paths : Within(InsertSnapshot(s, source), tables \cup {"source_snapshots"}, paths)
<1> DEFINE r == SnapshotRow(s, source)
<1>1. r.key = <<s, source>> /\ r.refs = {} /\ r.prov = <<>>
  BY DEF SnapshotRow, Row
<1>2. Sound("source_snapshots", r, s, c)
  BY <1>1 DEF Sound
<1>3. InsertSnapshot(s, source) = [source_snapshots |-> {r}]
  BY DEF InsertSnapshot
<1> HIDE DEF r
<1> QED
  BY <1>1, <1>2, <1>3, InGame DEF Fits, Includes, Holds, Within, RowsOf

(* import_announcements brings its own snapshot. *)
LEMMA AnnouncementsFit ==
  ASSUME NEW s, NEW raw, NEW c, ImportAnnouncements(s, raw).error = "none",
         Includes(c, ImportAnnouncements(s, raw).rows)
  PROVE  /\ Fits(ImportAnnouncements(s, raw).rows, s, c)
         /\ Within(ImportAnnouncements(s, raw).rows, Owned["announcements"] \cup {"source_snapshots"}, SourcePaths["announcements"])
<1> DEFINE P(a)    == Prov(s, Announcers, "announcements", a.id)
           rows(a) == [announcements |-> {Row(<<s, a.id>>, {}, P(a), a.dated)}]
           entries == [i \in ParseAnnouncements(raw) |->
                         Insertion(raw.entries[i].id, P(raw.entries[i]), rows(raw.entries[i]))]
           made    == InsertEach(entries, {})
           snap    == InsertSnapshot(s, Announcers)
<1>1. ImportAnnouncements(s, raw).rows = Join(made.rows, snap) /\ made.error = "none"
<2> DEFINE parsed == ParseAnnouncements(raw)
           dated  == {i \in parsed : raw.entries[i].dated}
<2>1. \/ ImportAnnouncements(s, raw) = Torn
      \/ ImportAnnouncements(s, raw) = Refused(NoRows)
      \/ ImportAnnouncements(s, raw) = [made EXCEPT !.rows = Join(@, snap)]
<3>1. ImportAnnouncements(s, raw) =
        CASE raw.shape \in {"absent", "corrupt"} -> Torn
          [] \/ raw.shape = "foreign"
             \/ SilentlyEmpty(DOMAIN raw.entries, parsed)
             \/ SilentlyEmpty(parsed, dated) -> Refused(NoRows)
          [] OTHER -> [made EXCEPT !.rows = Join(@, snap)]
  BY Zenon DEF ImportAnnouncements
<3> HIDE DEF made, snap, parsed, dated
<3> QED
  BY <3>1
<2>2. DOMAIN made = {"error", "rows"}
  BY InsertEachShape, Zenon
<2> HIDE DEF made, snap
<2> QED
  BY <2>1, <2>2 DEF Torn, Refused
<1>2. Includes(c, made.rows) /\ Includes(c, snap)
<2> HIDE DEF made, snap
<2> QED
  BY <1>1, JoinIncluded
<1>3. Fits(snap, s, c) /\ Holds(c, "source_snapshots", <<s, Announcers>>)
  BY <1>2, SnapshotFits DEF Sources
<1>4. ASSUME NEW a, Proven(P(a), s, c) PROVE Fits(rows(a), s, c)
<2>1. Sound("announcements", Row(<<s, a.id>>, {}, P(a), a.dated), s, c)
  BY <1>4, RowSound
<2> QED
  BY <2>1, InGame DEF Fits
<1>5. ASSUME NEW i \in DOMAIN entries
      PROVE  /\ entries[i].prov = P(raw.entries[i]) /\ entries[i].rows = rows(raw.entries[i])
             /\ entries[i].prov[1] = s /\ entries[i].prov[2] = Announcers
<2>1. entries[i].prov = P(raw.entries[i]) /\ entries[i].rows = rows(raw.entries[i])
<3> HIDE DEF P, rows
<3> QED
  BY DEF Insertion
<2>2. P(raw.entries[i])[1] = s /\ P(raw.entries[i])[2] = Announcers
  BY ProvOf
<2> HIDE DEF P, rows, entries
<2> QED
  BY <2>1, <2>2
<1>6. Fits(made.rows, s, c)
<2> HIDE DEF entries, rows, P
<2> QED
  BY <1>1, <1>2, <1>3, <1>4, <1>5, EntriesFit
<1> DEFINE tables == Owned["announcements"] \cup {"source_snapshots"}
           paths  == SourcePaths["announcements"]
<1>7. Within(made.rows, tables, paths) /\ Within(snap, tables, paths)
<2>1. \A x : Within(rows(x), tables, paths) /\ P(x)[3] \in paths
  BY WithinTables, PathOf DEF Owned, SourcePaths
<2>2. Within(snap, tables, paths)
  BY SnapshotFits DEF Sources
<2> HIDE DEF entries, rows, P, tables, paths
<2> QED
  BY <1>1, <1>5, <2>1, <2>2, WithinEach
<1> HIDE DEF made, snap
<1> QED
  BY <1>1, <1>3, <1>6, <1>7, JoinFits, WithinJoin

(* The base skills of the operators fit where the base skills are. *)
LEMMA BaseLinksFit ==
  ASSUME NEW s, NEW chars, NEW buffs, NEW b, NEW c,
         Includes(c, BaseLinks(s, chars, buffs, PkByGameId(b["operators"], s))),
         b["operators"] \subseteq c["operators"],
         Holds(c, "source_snapshots", <<s, GameData>>),
         \A x \in buffs : Holds(c, "base_skills", <<s, x>>)
  PROVE  /\ Fits(BaseLinks(s, chars, buffs, PkByGameId(b["operators"], s)), s, c)
         /\ Within(BaseLinks(s, chars, buffs, PkByGameId(b["operators"], s)),
                   Owned["base_skills"], SourcePaths["base_skills"])
<1> DEFINE known  == PkByGameId(b["operators"], s)
           P(o)   == Prov(s, GameData, "building_data", o)
           Own(o) == {i \in ParseStages(chars[o]) : chars[o][i].buff \in buffs}
           refs(o, i) == OperatorRef(known, o) \cup {<<"base_skills", <<s, chars[o][i].buff>>>>}
           links  == UNION {{Row(<<s, o, i>>, refs(o, i), P(o), <<>>) : i \in Own(o)} : o \in DOMAIN chars}
           rows   == [operator_base_skills |-> links]
           prov   == {P(o) : o \in DOMAIN chars}
<1>1. BaseLinks(s, chars, buffs, known) = Proved(rows, prov)
  BY DEF BaseLinks
<1>2. \A o \in DOMAIN chars : Proven(P(o), s, c)
  BY <1>1, ProvedParts, ProvOf DEF Proven
<1>3. ASSUME NEW r \in links PROVE Sound("operator_base_skills", r, s, c)
<2>1. PICK o \in DOMAIN chars : r \in {Row(<<s, o, i>>, refs(o, i), P(o), <<>>) : i \in Own(o)}
<3> HIDE DEF refs, Own, P
<3> QED
  OBVIOUS
<2>2. PICK i \in Own(o) : r = Row(<<s, o, i>>, refs(o, i), P(o), <<>>)
<3> HIDE DEF refs, Own, P
<3> QED
  BY <2>1
<2>3. Named(<<"base_skills", <<s, chars[o][i].buff>>>>, s, c)
  BY <2>2, InGame, RefNamed
<2>4. \A ref \in refs(o, i) : Named(ref, s, c)
  BY <2>3, OperatorNamed
<2> HIDE DEF refs, Own, P
<2> QED
  BY <2>2, <2>4, <1>2, RowSound
<1>4. Fits(rows, s, c)
<2> HIDE DEF links
<2> QED
  BY <1>3, InGame DEF Fits
<1>5. Fits(Proved(rows, prov), s, c)
  BY <1>4, ProvedFits, ProvOf
<1>6. Within(Proved(rows, prov), Owned["base_skills"], SourcePaths["base_skills"])
<2>1. \A p \in prov : p[3] \in SourcePaths["base_skills"]
  BY PathOf DEF SourcePaths
<2> HIDE DEF prov, links
<2> QED
  BY <2>1, ProvedWithin DEF Owned
<1> HIDE DEF rows, prov
<1> QED
  BY <1>1, <1>5, <1>6 DEF known

(* import_base_skills, the skills and their links together. *)
LEMMA BaseSkillsFit ==
  ASSUME NEW s, NEW raw, NEW b, NEW c, ImportBaseSkills(s, raw, b).error = "none",
         Includes(c, ImportBaseSkills(s, raw, b).rows), b["operators"] \subseteq c["operators"],
         Holds(c, "source_snapshots", <<s, GameData>>)
  PROVE  /\ Fits(ImportBaseSkills(s, raw, b).rows, s, c)
         /\ Within(ImportBaseSkills(s, raw, b).rows, Owned["base_skills"], SourcePaths["base_skills"])
<1> DEFINE known   == PkByGameId(b["operators"], s)
           parsed  == ParseBuffs(raw)
           P(x)    == Prov(s, GameData, "building_data", x.id)
           rows(x) == [base_skills |-> {Row(<<s, x.id>>, {}, P(x), <<>>)}]
           entries == [i \in parsed |-> Insertion(raw.buffs[i].id, P(raw.buffs[i]), rows(raw.buffs[i]))]
           made    == InsertEach(entries, {})
           here    == {o \in DOMAIN raw.chars : ParseStages(raw.chars[o]) # {} /\ o \in DOMAIN known}
           links   == BaseLinks(s, [o \in here |-> raw.chars[o]], {raw.buffs[i].id : i \in parsed}, known)
<1>1. \/ ImportBaseSkills(s, raw, b).rows = NoRows
      \/ ImportBaseSkills(s, raw, b).rows = Join(made.rows, links) /\ made.error = "none"
<2>1. \/ ImportBaseSkills(s, raw, b) = Torn
      \/ ImportBaseSkills(s, raw, b) = Ok(NoRows)
      \/ ImportBaseSkills(s, raw, b) = Refused(NoRows)
      \/ ImportBaseSkills(s, raw, b) = made /\ made.error # "none"
      \/ ImportBaseSkills(s, raw, b) = Refused(Join(made.rows, links))
      \/ ImportBaseSkills(s, raw, b) = Ok(Join(made.rows, links)) /\ made.error = "none"
<3>1. ImportBaseSkills(s, raw, b) =
        CASE raw.shape = "absent"  -> Ok(NoRows)
          [] raw.shape = "corrupt" -> Torn
          [] \/ raw.shape = "foreign"
             \/ SilentlyEmpty(DOMAIN raw.buffs, parsed) -> Refused(NoRows)
          [] OTHER ->
               IF made.error # "none" THEN made
               ELSE IF SilentlyEmpty(here, RowsOf(links, "operator_base_skills"))
                    THEN Refused(Join(made.rows, links))
                    ELSE Ok(Join(made.rows, links))
    BY Zenon DEF ImportBaseSkills
<3> HIDE DEF made, links, here, parsed
<3> QED
  BY <3>1
<2> HIDE DEF made, links
<2> QED
  BY <2>1 DEF Torn, Refused, Ok
<1>2. SUFFICES ASSUME ImportBaseSkills(s, raw, b).rows = Join(made.rows, links), made.error = "none"
               PROVE  /\ Fits(Join(made.rows, links), s, c)
                      /\ Within(Join(made.rows, links), Owned["base_skills"], SourcePaths["base_skills"])
<2> HIDE DEF made, links
<2> QED
  BY <1>1, NoRowsFit, NoRowsWithin
<1>3. Includes(c, made.rows) /\ Includes(c, links)
<2> HIDE DEF made, links
<2> QED
  BY <1>2, JoinIncluded
<1>4. ASSUME NEW x, Proven(P(x), s, c) PROVE Fits(rows(x), s, c)
<2>1. Sound("base_skills", Row(<<s, x.id>>, {}, P(x), <<>>), s, c)
  BY <1>4, RowSound
<2> QED
  BY <2>1, InGame DEF Fits
<1>5. ASSUME NEW i \in DOMAIN entries
      PROVE  /\ entries[i].prov = P(raw.buffs[i]) /\ entries[i].rows = rows(raw.buffs[i])
             /\ entries[i].prov[1] = s /\ entries[i].prov[2] = GameData
<2>1. entries[i].prov = P(raw.buffs[i]) /\ entries[i].rows = rows(raw.buffs[i])
<3> HIDE DEF P, rows
<3> QED
  BY DEF Insertion
<2>2. P(raw.buffs[i])[1] = s /\ P(raw.buffs[i])[2] = GameData
  BY ProvOf
<2> HIDE DEF P, rows, entries
<2> QED
  BY <2>1, <2>2
<1>6. /\ Fits(made.rows, s, c)
      /\ Within(made.rows, Owned["base_skills"], SourcePaths["base_skills"])
<2>1. \A x : /\ Within(rows(x), Owned["base_skills"], SourcePaths["base_skills"])
             /\ P(x)[3] \in SourcePaths["base_skills"]
  BY WithinTables, PathOf DEF Owned, SourcePaths
<2> HIDE DEF entries, rows, P
<2> QED
  BY <1>2, <1>3, <1>4, <1>5, <2>1, EntriesFit, WithinEach
<1>7. ASSUME NEW i \in parsed PROVE Holds(c, "base_skills", <<s, raw.buffs[i].id>>)
<2>1. i \in DOMAIN entries
  OBVIOUS
<2>2. Includes(c, rows(raw.buffs[i]))
<3> HIDE DEF entries, rows, P
<3> QED
  BY <2>1, <1>2, <1>3, <1>5, InsertEachIncluded
<2>3. Row(<<s, raw.buffs[i].id>>, {}, P(raw.buffs[i]), <<>>) \in c["base_skills"]
<3> HIDE DEF P
<3> QED
  BY <2>2 DEF Includes
<2> HIDE DEF P
<2> QED
  BY <2>3, RowHeld
<1>8. Fits(links, s, c) /\ Within(links, Owned["base_skills"], SourcePaths["base_skills"])
<2> DEFINE ids   == {raw.buffs[i].id : i \in parsed}
           chars == [o \in here |-> raw.chars[o]]
<2>1. \A x \in ids : Holds(c, "base_skills", <<s, x>>)
  BY <1>7
<2>2. links = BaseLinks(s, chars, ids, PkByGameId(b["operators"], s))
  OBVIOUS
<2> HIDE DEF ids, chars, links
<2> QED
  BY <2>1, <2>2, <1>3, BaseLinksFit
<1> HIDE DEF made, links
<1> QED
  BY <1>6, <1>8, JoinFits, WithinJoin

(* The items of penguin fit, and each is then held. *)
LEMMA ItemsFit ==
  ASSUME NEW s, NEW raw, NEW c, InsertItems(s, raw).error = "none",
         Includes(c, InsertItems(s, raw).rows), Holds(c, "source_snapshots", <<s, Penguin>>)
  PROVE  /\ Fits(InsertItems(s, raw).rows, s, c)
         /\ Within(InsertItems(s, raw).rows, Owned["penguin"] \cup {"source_snapshots"}, SourcePaths["penguin"])
         /\ \A id \in ItemIds(raw) : Holds(c, "items", <<s, id>>)
<1> DEFINE P(id)    == Prov(s, Penguin, "items", id)
           rows(id) == [items |-> {Row(<<s, id>>, {}, P(id), <<>>)}]
           parsed   == ParseItems(raw)
           entries  == [i \in parsed |-> Insertion(raw.items[i], P(raw.items[i]), rows(raw.items[i]))]
           made     == InsertEach(entries, {})
<1>1. InsertItems(s, raw) = made /\ made.error = "none" /\ Includes(c, made.rows)
<2>1. InsertItems(s, raw) = made
  BY Zenon DEF InsertItems
<2> HIDE DEF made
<2> QED
  BY <2>1
<1>2. ASSUME NEW id, Proven(P(id), s, c) PROVE Fits(rows(id), s, c)
<2>1. Sound("items", Row(<<s, id>>, {}, P(id), <<>>), s, c)
  BY <1>2, RowSound
<2> QED
  BY <2>1, InGame DEF Fits
<1>3. ASSUME NEW i \in DOMAIN entries
      PROVE  /\ entries[i].prov = P(raw.items[i]) /\ entries[i].rows = rows(raw.items[i])
             /\ entries[i].prov[1] = s /\ entries[i].prov[2] = Penguin
<2>1. entries[i].prov = P(raw.items[i]) /\ entries[i].rows = rows(raw.items[i])
<3> HIDE DEF P, rows
<3> QED
  BY DEF Insertion
<2>2. P(raw.items[i])[1] = s /\ P(raw.items[i])[2] = Penguin
  BY ProvOf
<2> HIDE DEF P, rows, entries
<2> QED
  BY <2>1, <2>2
<1>4. /\ Fits(made.rows, s, c)
      /\ Within(made.rows, Owned["penguin"] \cup {"source_snapshots"}, SourcePaths["penguin"])
<2>1. \A x : /\ Within(rows(x), Owned["penguin"] \cup {"source_snapshots"}, SourcePaths["penguin"])
             /\ P(x)[3] \in SourcePaths["penguin"]
  BY WithinTables, PathOf DEF Owned, SourcePaths
<2> HIDE DEF entries, rows, P
<2> QED
  BY <1>1, <1>2, <1>3, <2>1, EntriesFit, WithinEach
<1>5. ASSUME NEW i \in parsed PROVE Holds(c, "items", <<s, raw.items[i]>>)
<2>1. i \in DOMAIN entries
  OBVIOUS
<2>2. Includes(c, rows(raw.items[i]))
<3> HIDE DEF entries, rows, P
<3> QED
  BY <2>1, <1>1, <1>3, InsertEachIncluded
<2>3. Row(<<s, raw.items[i]>>, {}, P(raw.items[i]), <<>>) \in c["items"]
<3> HIDE DEF P
<3> QED
  BY <2>2 DEF Includes
<2> HIDE DEF P
<2> QED
  BY <2>3, RowHeld
<1>6. \A id \in ItemIds(raw) : Holds(c, "items", <<s, id>>)
  BY <1>5 DEF ItemIds
<1> HIDE DEF made
<1> QED
  BY <1>1, <1>4, <1>6

(* import_penguin_drops: items, then drops that name stages of the
   candidate and items of its own. *)
LEMMA PenguinFit ==
  ASSUME NEW s, NEW raw, NEW b, NEW c, ImportPenguinDrops(s, raw, b).error = "none",
         Includes(c, ImportPenguinDrops(s, raw, b).rows), b["stages"] \subseteq c["stages"]
  PROVE  /\ Fits(ImportPenguinDrops(s, raw, b).rows, s, c)
         /\ Within(ImportPenguinDrops(s, raw, b).rows, Owned["penguin"] \cup {"source_snapshots"}, SourcePaths["penguin"])
<1> DEFINE items   == InsertItems(s, raw)
           stages  == PkByGameId(b["stages"], s)
           known   == {i \in ParseMatrix(raw) : /\ raw.matrix[i].stage \in DOMAIN stages
                                                /\ raw.matrix[i].item \in ItemIds(raw)}
           P(d)    == Prov(s, Penguin, "result/matrix", d.stage \o "/" \o d.item)
           refs(d) == {<<"stages", stages[d.stage]>>, <<"items", <<s, d.item>>>>,
                       <<"source_snapshots", <<s, Penguin>>>>}
           rows(d) == [stage_drops |-> {Row(<<s, d.stage, d.item>>, refs(d), P(d), <<>>)}]
           entries == [i \in known |-> Insertion(raw.matrix[i], P(raw.matrix[i]), rows(raw.matrix[i]))]
           drops   == InsertEach(entries, {})
           snap    == InsertSnapshot(s, Penguin)
           first   == Join(snap, items.rows)
<1>1. /\ ImportPenguinDrops(s, raw, b).rows = Join(first, drops.rows)
      /\ items.error = "none" /\ drops.error = "none"
<2>1. ImportPenguinDrops(s, raw, b) =
        CASE raw.shape \in {"absent", "corrupt"} -> Torn
          [] raw.shape = "foreign"               -> Refused(NoRows)
          [] OTHER ->
               IF items.error # "none" THEN Refused(first)
               ELSE IF drops.error # "none"
                       \/ SilentlyEmpty(ParseMatrix(raw), RowsOf(drops.rows, "stage_drops"))
                    THEN Refused(Join(first, drops.rows))
                    ELSE Ok(Join(first, drops.rows))
  BY Zenon DEF ImportPenguinDrops
<2> HIDE DEF items, first, drops
<2> QED
  BY <2>1 DEF Torn, Refused, Ok
<1>2. Includes(c, snap) /\ Includes(c, items.rows) /\ Includes(c, drops.rows)
<2> HIDE DEF items, drops, snap
<2> QED
  BY <1>1, JoinIncluded
<1>3. Fits(snap, s, c) /\ Holds(c, "source_snapshots", <<s, Penguin>>)
  BY <1>2, SnapshotFits DEF Sources
<1>4. Fits(items.rows, s, c) /\ \A id \in ItemIds(raw) : Holds(c, "items", <<s, id>>)
  BY <1>1, <1>2, <1>3, ItemsFit
<1>5. ASSUME NEW i \in known, NEW d, d = raw.matrix[i], Proven(P(d), s, c)
      PROVE  Fits(rows(d), s, c)
<2>1. Named(<<"items", <<s, d.item>>>>, s, c)
  BY <1>4, <1>5, InGame, RefNamed
<2>2. Named(<<"source_snapshots", <<s, Penguin>>>>, s, c)
  BY <1>3, InGame, RefNamed
<2>3. Named(<<"stages", stages[d.stage]>>, s, c)
  BY <1>5, PkHeld, InGame, RefNamed
<2>4. Sound("stage_drops", Row(<<s, d.stage, d.item>>, refs(d), P(d), <<>>), s, c)
<3>1. \A ref \in refs(d) : Named(ref, s, c)
  BY <2>1, <2>2, <2>3
<3> HIDE DEF refs, P
<3> QED
  BY <3>1, <1>5, RowSound
<2> HIDE DEF refs, P
<2> QED
  BY <2>4, InGame DEF Fits
<1>6. ASSUME NEW i \in DOMAIN entries
      PROVE  /\ i \in known
             /\ entries[i].prov = P(raw.matrix[i]) /\ entries[i].rows = rows(raw.matrix[i])
             /\ entries[i].prov[1] = s /\ entries[i].prov[2] = Penguin
<2>1. i \in known /\ entries[i].prov = P(raw.matrix[i]) /\ entries[i].rows = rows(raw.matrix[i])
<3> HIDE DEF P, rows, known
<3> QED
  BY DEF Insertion
<2>2. P(raw.matrix[i])[1] = s /\ P(raw.matrix[i])[2] = Penguin
  BY ProvOf
<2> HIDE DEF P, rows, entries, known
<2> QED
  BY <2>1, <2>2
<1>7. Fits(drops.rows, s, c)
<2> HIDE DEF entries, rows, P, known
<2> QED
  BY <1>1, <1>2, <1>3, <1>5, <1>6, EntriesFit
<1> DEFINE tables == Owned["penguin"] \cup {"source_snapshots"}
           paths  == SourcePaths["penguin"]
<1>8. Within(items.rows, tables, paths) /\ Within(snap, tables, paths)
  BY <1>1, <1>2, <1>3, ItemsFit, SnapshotFits DEF Sources
<1>9. Within(drops.rows, tables, paths)
<2>1. \A x : Within(rows(x), tables, paths) /\ P(x)[3] \in paths
<3> HIDE DEF refs
<3> QED
  BY WithinTables, PathOf DEF Owned, SourcePaths
<2> HIDE DEF entries, rows, P, tables, paths
<2> QED
  BY <1>1, <1>6, <2>1, WithinEach
<1> HIDE DEF items, drops, snap
<1> QED
  BY <1>1, <1>3, <1>4, <1>7, <1>8, <1>9, JoinFits, WithinJoin

(***************************************************************************)
(* Combat rows and the index                                               *)
(***************************************************************************)

(* The rows of one table in many parts. *)
LEMMA RowsOfAll ==
  ASSUME NEW parts, NEW t
  PROVE  RowsOf(JoinAll(parts), t) = UNION {RowsOf(p, t) : p \in parts}
<1>1. \A p \in parts : t \notin DOMAIN JoinAll(parts) => RowsOf(p, t) = {}
  BY DEF JoinAll, RowsOf
<1> QED
  BY <1>1 DEF JoinAll, RowsOf

(* Provenance adds to no other table. *)
LEMMA RowsOfProved ==
  ASSUME NEW rows, NEW prov, NEW t, t # "record_provenance"
  PROVE  RowsOf(Proved(rows, prov), t) = RowsOf(rows, t)
<1> DEFINE proofs == [record_provenance |-> {ProvRow(p) : p \in prov}]
<1>1. RowsOf(proofs, t) = {}
  BY DEF RowsOf
<1>2. RowsOf(Join(rows, proofs), t) = RowsOf(rows, t) \cup RowsOf(proofs, t)
  BY RowsOfJoin
<1> QED
  BY <1>1, <1>2 DEF Proved

(* A level file makes no stage, always a map, and spawns only of enemies
   that are there. *)
LEMMA LevelRows ==
  ASSUME NEW s, NEW g, NEW lv, NEW enemies, InsertLevel(s, g, lv, enemies).error = "none",
         NEW rows, rows = InsertLevel(s, g, lv, enemies).rows
  PROVE  /\ RowsOf(rows, "stages") = {} /\ RowsOf(rows, "stage_maps") # {}
         /\ RowsOf(rows, "stage_spawns") # {} => DOMAIN enemies # {}
<1> DEFINE P        == Prov(s, GameData, "level", g)
           stage    == <<"stages", <<s, g>>>>
           variants == CollectVariants(lv.refs)
           waves    == BoundWaves(lv)
           agg      == Tally(waves, RouteIndices(lv))
           maps   == {Row(<<s, g>>, {stage}, P, <<>>)}
           tiles  == {Row(<<s, g, x[2] - 1, x[1] - 1>>, {stage}, P,
                          lv.defs[lv.grid[x[1]][x[2]]]) : x \in Tiles(lv)}
           lanes  == {Row(<<s, g, RouteIndex(lv, i)>>, {stage}, P,
                          ToGridFrame(lv.routes[i].start, Len(lv.grid))) : i \in DOMAIN lv.routes}
           inline == {Row(<<s, g, v>>, {stage, <<"enemies", enemies[variants[v]]>>}, P, <<>>) :
                        v \in DOMAIN variants}
           tides  == {Row(<<s, g, w - 1>>, {stage}, P, <<>>) : w \in DOMAIN lv.waves}
           spawns == UNION {{LET sp == waves[w][i] IN
                             Row(<<s, g, w - 1, i>>,
                                 EnemyLinks(s, g, enemies, sp.enemy, sp.variant, sp.route)
                                   \cup {<<"stage_waves", <<s, g, w - 1>>>>}, P, sp) :
                               i \in DOMAIN waves[w]} : w \in DOMAIN waves}
           totals == {Row(<<s, g, k[1], k[2], k[3]>>, EnemyLinks(s, g, enemies, k[1], k[3], Unset), P,
                          [agg[k] EXCEPT !.routes = Cardinality(@)]) : k \in DOMAIN agg}
           own    == [stage_maps |-> maps, stage_tiles |-> tiles, stage_routes |-> lanes,
                      stage_enemy_variants |-> inline, stage_waves |-> tides,
                      stage_spawns |-> spawns, stage_enemies |-> totals]
<1>1. /\ rows = Proved(own, {P})
      /\ \A w \in DOMAIN waves : \A i \in DOMAIN waves[w] : waves[w][i].enemy \in DOMAIN enemies
  BY DEF InsertLevel, Ok, Refused
<1>2. maps # {}
  OBVIOUS
<1>3. spawns # {} => \E w \in DOMAIN waves : DOMAIN waves[w] # {}
  OBVIOUS
<1> HIDE DEF maps, tiles, lanes, inline, tides, spawns, totals, P, waves
<1>4. /\ RowsOf(own, "stages") = {} /\ RowsOf(own, "stage_maps") = maps
      /\ RowsOf(own, "stage_spawns") = spawns
  BY DEF RowsOf
<1>5. \A t : t # "record_provenance" => RowsOf(rows, t) = RowsOf(own, t)
  BY <1>1, RowsOfProved
<1> HIDE DEF own
<1> QED
  BY <1>1, <1>2, <1>3, <1>4, <1>5

(* The tables that hold a stage's combat. *)
CombatTables == {"stage_maps", "stage_tiles", "stage_spawns", "stage_enemies"}

(* When import_stages returns and a stage names its level file, the server
   has combat rows and enemies: this is the guard of
   check_combat_not_empty. *)
LEMMA CombatRows ==
  ASSUME NEW s, NEW raw, NEW b, ImportStages(s, raw, b).error = "none",
         NEW rows, rows = ImportStages(s, raw, b).rows,
         NEW r \in RowsOf(rows, "stages"), r.val # NoText
  PROVE  /\ \A t \in CombatTables : RowsOf(rows, t) # {}
         /\ \E x \in b["enemies"] : x.key[1] = s
<1> DEFINE enemies == PkByGameId(b["enemies"], s)
           titles  == IF raw.activity.shape = "absent" THEN <<>>
                      ELSE ParseActivityTitles(raw.activity)
           level(g) == InsertLevel(s, g, raw.files[LevelPath(raw.stages[g])], enemies)
           levels  == {level(g) : g \in Present(raw)}
           parts   == {ZoneRows(s, raw, titles), StageRows(s, raw)} \cup {l.rows : l \in levels}
<1>1. /\ rows = JoinAll(parts) /\ \A l \in levels : l.error = "none"
      /\ ~CombatEmpty(raw, rows)
  BY DEF ImportStages, Ok, Refused, Torn
<1>2. PICK p \in parts : r \in RowsOf(p, "stages")
<2> HIDE DEF parts
<2> QED
  BY <1>1, RowsOfAll
<1>3. RowsOf(ZoneRows(s, raw, titles), "stages") = {}
<2>1. PICK zones, prov : ZoneRows(s, raw, titles) = Proved([zones |-> zones], prov)
  BY DEF ZoneRows
<2> QED
  BY <2>1, RowsOfProved DEF RowsOf
<1>4. \A g \in Present(raw) : LET own == level(g).rows
                              IN /\ RowsOf(own, "stages") = {} /\ RowsOf(own, "stage_maps") # {}
                                 /\ RowsOf(own, "stage_spawns") # {} => DOMAIN enemies # {}
<2> HIDE DEF enemies
<2> QED
  BY <1>1, LevelRows, ZenonT(30)
<1>5. r \in RowsOf(StageRows(s, raw), "stages")
<2> HIDE DEF level, titles
<2> QED
  BY <1>2, <1>3, <1>4
<1>6. \E g \in DOMAIN raw.stages : r.val = LevelPath(raw.stages[g])
<2> DEFINE P(g)    == Prov(s, GameData, "stage_table", g)
           Zone(g) == LET z == raw.stages[g].zone
                      IN IF z \in DOMAIN raw.zones THEN {<<"zones", <<s, z>>>>} ELSE {}
           stages  == {Row(<<s, g>>, Zone(g), P(g), LevelPath(raw.stages[g])) : g \in DOMAIN raw.stages}
<2>1. StageRows(s, raw) = Proved([stages |-> stages], {P(g) : g \in DOMAIN raw.stages})
  BY DEF StageRows
<2>2. RowsOf([stages |-> stages], "stages") = stages
  BY DEF RowsOf
<2>3. r \in stages
<3> HIDE DEF stages, P
<3> QED
  BY <1>5, <2>1, <2>2, RowsOfProved
<2> HIDE DEF Zone, P
<2> QED
  BY <2>3 DEF Row
<1>7. Present(raw) # {}
  BY <1>1, <1>6 DEF Referenced, CombatEmpty, SilentlyEmpty
<1>8. PICK g \in Present(raw) : TRUE
  BY <1>7
<1>9. \A t : RowsOf(rows, t) = UNION {RowsOf(p1, t) : p1 \in parts}
  BY <1>1, RowsOfAll, Zenon
<1>10. RowsOf(rows, "stage_maps") # {}
<2>1. level(g).rows \in parts
  OBVIOUS
<2> HIDE DEF parts, level
<2> QED
  BY <1>4, <1>8, <1>9, <2>1
<1>11. \A t \in {"stage_tiles", "stage_spawns", "stage_enemies"} : RowsOf(rows, t) # {}
  BY <1>1, <1>7 DEF CombatEmpty
<1>12. DOMAIN enemies # {}
<2>1. PICK p1 \in parts : RowsOf(p1, "stage_spawns") # {}
<3> HIDE DEF parts
<3> QED
  BY <1>9, <1>11
<2>2. RowsOf(ZoneRows(s, raw, titles), "stage_spawns") = {}
<3>1. PICK zones, prov : ZoneRows(s, raw, titles) = Proved([zones |-> zones], prov)
  BY DEF ZoneRows
<3> QED
  BY <3>1, RowsOfProved DEF RowsOf
<2>3. RowsOf(StageRows(s, raw), "stage_spawns") = {}
<3>1. PICK stages, prov : StageRows(s, raw) = Proved([stages |-> stages], prov)
  BY DEF StageRows
<3> QED
  BY <3>1, RowsOfProved DEF RowsOf
<2> HIDE DEF level, titles, enemies
<2> QED
  BY <1>4, <2>1, <2>2, <2>3
<1>13. \E x \in b["enemies"] : x.key[1] = s
  BY <1>12, PkKnown
<1> QED
  BY <1>10, <1>11, <1>13 DEF CombatTables

(* The documents of the search index on one entity. *)
DocsOf(docs, kind, key) == {d \in docs : d.key = <<kind, key>>}

(* The index built of a candidate finds each of its entities, and a stage
   by both names of its zone. *)
LEMMA IndexFinds ==
  ASSUME NEW b, NEW docs, docs = BuildSearchIndex(b)
  PROVE  /\ \A r \in b["stages"] : \E d \in DocsOf(docs, "stage", r.key) :
              \A z \in b["zones"] : <<"zones", z.key>> \in r.refs =>
                {z.val.subtitle, z.val.title} \subseteq d.val \cup {NoText}
         /\ \A r \in b["enemies"]   : DocsOf(docs, "enemy", r.key) # {}
         /\ \A r \in b["operators"] : DocsOf(docs, "operator", r.key) # {}
         /\ \A r \in b["items"]     : DocsOf(docs, "item", r.key) # {}
<1>1. ASSUME NEW r \in b["stages"]
      PROVE  \E d \in DocsOf(docs, "stage", r.key) :
               \A z \in b["zones"] : <<"zones", z.key>> \in r.refs =>
                 {z.val.subtitle, z.val.title} \subseteq d.val \cup {NoText}
<2> DEFINE d == Row(<<"stage", r.key>>, {}, <<>>, StageAliases(r, b["zones"]))
<2>1. d \in docs /\ d.key = <<"stage", r.key>> /\ d.val = StageAliases(r, b["zones"])
  BY DEF BuildSearchIndex, Row
<2>2. \A z \in b["zones"] : <<"zones", z.key>> \in r.refs =>
        {z.val.subtitle, z.val.title} \subseteq StageAliases(r, b["zones"]) \cup {NoText}
<3> DEFINE named == {x \in b["zones"] : <<"zones", x.key>> \in r.refs}
           Texts(z) == {z.val.subtitle, z.val.title} \ {NoText}
<3>1. StageAliases(r, b["zones"]) = UNION {Texts(z) : z \in named}
  BY DEF StageAliases
<3>2. \A z \in named : Texts(z) \subseteq StageAliases(r, b["zones"])
<4> HIDE DEF Texts, named
<4> QED
  BY <3>1
<3> QED
  BY <3>2
<2> HIDE DEF d
<2>3. d \in DocsOf(docs, "stage", r.key)
  BY <2>1 DEF DocsOf
<2>4. \A z \in b["zones"] : <<"zones", z.key>> \in r.refs =>
        {z.val.subtitle, z.val.title} \subseteq d.val \cup {NoText}
  BY <2>1, <2>2
<2> QED
  BY <2>3, <2>4, Zenon
<1>2. ASSUME NEW r \in b["enemies"] PROVE DocsOf(docs, "enemy", r.key) # {}
<2>1. Row(<<"enemy", r.key>>, {}, <<>>, {}) \in DocsOf(docs, "enemy", r.key)
  BY DEF BuildSearchIndex, Row, DocsOf
<2> QED
  BY <2>1
<1>3. ASSUME NEW r \in b["operators"] PROVE DocsOf(docs, "operator", r.key) # {}
<2>1. Row(<<"operator", r.key>>, {}, <<>>, {}) \in DocsOf(docs, "operator", r.key)
  BY DEF BuildSearchIndex, Row, DocsOf
<2> QED
  BY <2>1
<1>4. ASSUME NEW r \in b["items"] PROVE DocsOf(docs, "item", r.key) # {}
<2>1. Row(<<"item", r.key>>, {}, <<>>, {}) \in DocsOf(docs, "item", r.key)
  BY DEF BuildSearchIndex, Row, DocsOf
<2> QED
  BY <2>1
<1> QED
  BY <1>1, <1>2, <1>3, <1>4

(* The table the entities of a kind are in. *)
DocTable == [enemy |-> "enemies", stage |-> "stages", operator |-> "operators", item |-> "items"]

(* It finds nothing else. *)
LEMMA IndexNames ==
  ASSUME NEW b, NEW d \in BuildSearchIndex(b)
  PROVE  /\ d.key[1] \in {"enemy", "stage", "operator", "item"}
         /\ Holds(b, DocTable[d.key[1]], d.key[2])
BY DEF BuildSearchIndex, Row, DocTable, Holds

(***************************************************************************)
(* Whole when nothing was raised                                           *)
(***************************************************************************)

(* Who holds the rows of a loop that raised nothing holds each row of each
   entry. *)
LEMMA EntryHeld ==
  ASSUME NEW entries, NEW broken, NEW c, InsertEach(entries, broken).error = "none",
         Includes(c, InsertEach(entries, broken).rows), NEW i \in DOMAIN entries,
         NEW rows, entries[i].rows = rows, NEW t \in DOMAIN rows, NEW row \in rows[t]
  PROVE  row \in c[t]
BY InsertEachIncluded DEF Includes

(* Banners that were inserted are all there, and a file with pools left
   some. *)
LEMMA BannersWhole ==
  ASSUME NEW s, NEW raw, NEW b, NEW c, ImportBanners(s, raw, b).error = "none", raw.shape = "ok",
         Includes(c, ImportBanners(s, raw, b).rows)
  PROVE  /\ \A i \in DOMAIN raw.pools : raw.pools[i].id # NoText =>
              /\ Holds(c, "banners", <<s, raw.pools[i].id>>)
              /\ \A x \in ToSet(FeaturedCharIds(raw.pools[i])) :
                   Holds(c, "banner_featured_ops", <<s, raw.pools[i].id, x>>)
         /\ DOMAIN raw.pools # {} => \E i \in DOMAIN raw.pools : raw.pools[i].id # NoText
<1> DEFINE known       == PkByGameId(b["operators"], s)
           parsed      == ParseBanners(raw)
           P(p)        == Prov(s, GameData, "gacha_table", p.id)
           base(p)     == {Row(<<s, p.id>>, {}, P(p), <<>>)}
           link(p, x)  == Row(<<s, p.id, x>>, {<<"banners", <<s, p.id>>>>} \cup OperatorRef(known, x),
                              <<>>, x \in DOMAIN known)
           featured(p) == {link(p, x) : x \in ToSet(FeaturedCharIds(p))}
           rows(p)     == [banners |-> base(p), banner_featured_ops |-> featured(p)]
           entries     == [i \in parsed |-> Insertion(raw.pools[i].id, P(raw.pools[i]), rows(raw.pools[i]))]
           broken      == {i \in parsed : ~IsInjective(FeaturedCharIds(raw.pools[i]))}
           made        == InsertEach(entries, broken)
<1>1. InsertBanners(s, raw.pools, parsed, known) = made
  BY Zenon DEF InsertBanners
<1>2. /\ ImportBanners(s, raw, b) = made /\ ~SilentlyEmpty(DOMAIN raw.pools, parsed)
<2> HIDE DEF made
<2> QED
  BY <1>1 DEF ImportBanners, Refused
<1>3. DOMAIN raw.pools # {} => \E i \in DOMAIN raw.pools : raw.pools[i].id # NoText
  BY <1>2 DEF SilentlyEmpty, ParseBanners
<1>4. ASSUME NEW i \in parsed
      PROVE  /\ base(raw.pools[i]) \subseteq c["banners"]
             /\ featured(raw.pools[i]) \subseteq c["banner_featured_ops"]
<2>1. i \in DOMAIN entries /\ entries[i].rows = rows(raw.pools[i])
<3> HIDE DEF P, rows
<3> QED
  BY DEF Insertion
<2>2. made.error = "none" /\ Includes(c, made.rows)
<3> HIDE DEF made
<3> QED
  BY <1>2
<2>3. DOMAIN rows(raw.pools[i]) = {"banners", "banner_featured_ops"}
<3> HIDE DEF base, featured
<3> QED
  OBVIOUS
<2>4. \A u \in {"banners", "banner_featured_ops"} : \A row \in rows(raw.pools[i])[u] : row \in c[u]
<3> HIDE DEF entries, broken, rows
<3> QED
  BY <2>1, <2>2, <2>3, EntryHeld
<2> HIDE DEF base, featured
<2> QED
  BY <2>4
<1>5. ASSUME NEW i \in parsed
      PROVE  /\ Holds(c, "banners", <<s, raw.pools[i].id>>)
             /\ \A x \in ToSet(FeaturedCharIds(raw.pools[i])) :
                  Holds(c, "banner_featured_ops", <<s, raw.pools[i].id, x>>)
<2>1. Row(<<s, raw.pools[i].id>>, {}, P(raw.pools[i]), <<>>) \in c["banners"]
<3> HIDE DEF P
<3> QED
  BY <1>4
<2>2. \A x \in ToSet(FeaturedCharIds(raw.pools[i])) : link(raw.pools[i], x) \in c["banner_featured_ops"]
<3> HIDE DEF link
<3> QED
  BY <1>4
<2> HIDE DEF P
<2> QED
  BY <2>1, <2>2, RowHeld
<1> QED
  BY <1>3, <1>5 DEF ParseBanners

(* So with skins. *)
LEMMA SkinsWhole ==
  ASSUME NEW s, NEW raw, NEW b, NEW c, ImportSkins(s, raw, b).error = "none", raw.shape = "ok",
         Includes(c, ImportSkins(s, raw, b).rows)
  PROVE  /\ \A i \in ParseSkins(raw) : Holds(c, "operator_skins", <<s, raw.skins[i].id>>)
         /\ OperatorEntries(raw) # {} => ParseSkins(raw) # {}
<1> DEFINE known   == PkByGameId(b["operators"], s)
           parsed  == ParseSkins(raw)
           P(k)    == Prov(s, GameData, "skin_table", k.id)
           refs(k) == OperatorRef(known, k.char)
           rows(k) == [operator_skins |-> {Row(<<s, k.id>>, refs(k), P(k), <<>>)}]
           entries == [i \in parsed |-> Insertion(raw.skins[i].id, P(raw.skins[i]), rows(raw.skins[i]))]
           made    == InsertEach(entries, {})
<1>1. ImportSkins(s, raw, b) = made /\ ~SilentlyEmpty(OperatorEntries(raw), parsed)
<2>1. ImportSkins(s, raw, b) =
        CASE raw.shape \in {"absent", "bare"} -> Ok(NoRows)
          [] raw.shape = "corrupt" -> Torn
          [] raw.shape = "foreign" \/ SilentlyEmpty(OperatorEntries(raw), parsed) -> Refused(NoRows)
          [] OTHER -> made
  BY Zenon DEF ImportSkins
<2> HIDE DEF made
<2> QED
  BY <2>1 DEF Refused
<1>2. ASSUME NEW i \in parsed PROVE Holds(c, "operator_skins", <<s, raw.skins[i].id>>)
<2>1. i \in DOMAIN entries /\ entries[i].rows = rows(raw.skins[i])
<3> HIDE DEF P, rows
<3> QED
  BY DEF Insertion
<2>2. made.error = "none" /\ Includes(c, made.rows)
<3> HIDE DEF made
<3> QED
  BY <1>1
<2>3. /\ "operator_skins" \in DOMAIN rows(raw.skins[i])
      /\ Row(<<s, raw.skins[i].id>>, refs(raw.skins[i]), P(raw.skins[i]), <<>>)
           \in rows(raw.skins[i])["operator_skins"]
<3> HIDE DEF refs, P
<3> QED
  OBVIOUS
<2>4. Row(<<s, raw.skins[i].id>>, refs(raw.skins[i]), P(raw.skins[i]), <<>>) \in c["operator_skins"]
<3> HIDE DEF entries, rows, refs, P
<3> QED
  BY <2>1, <2>2, <2>3, EntryHeld
<2> HIDE DEF refs, P
<2> QED
  BY <2>4, RowHeld
<1> QED
  BY <1>1, <1>2 DEF SilentlyEmpty

(* With ranges. *)
LEMMA RangesWhole ==
  ASSUME NEW s, NEW raw, NEW c, ImportRanges(s, raw).error = "none", raw.shape = "ok",
         Includes(c, ImportRanges(s, raw).rows)
  PROVE  /\ \A i \in ParseRanges(raw) : Holds(c, "ranges", <<s, RangeId(raw.ranges[i])>>)
         /\ DOMAIN raw.ranges # {} => ParseRanges(raw) # {}
<1> DEFINE parsed  == ParseRanges(raw)
           P(k)    == Prov(s, GameData, "range_table", RangeId(k))
           rows(k) == [ranges |-> {Row(<<s, RangeId(k)>>, {}, P(k), k.cells)}]
           entries == [i \in parsed |-> Insertion(RangeId(raw.ranges[i]), P(raw.ranges[i]), rows(raw.ranges[i]))]
           made    == InsertEach(entries, {})
<1>1. ImportRanges(s, raw) = made /\ ~SilentlyEmpty(DOMAIN raw.ranges, parsed)
<2>1. ImportRanges(s, raw) =
        CASE raw.shape = "absent"  -> Ok(NoRows)
          [] raw.shape = "corrupt" -> Torn
          [] raw.shape = "foreign" \/ SilentlyEmpty(DOMAIN raw.ranges, parsed) -> Refused(NoRows)
          [] OTHER -> made
  BY Zenon DEF ImportRanges
<2> HIDE DEF made
<2> QED
  BY <2>1 DEF Refused
<1>2. ASSUME NEW i \in parsed PROVE Holds(c, "ranges", <<s, RangeId(raw.ranges[i])>>)
<2>1. i \in DOMAIN entries /\ entries[i].rows = rows(raw.ranges[i])
<3> HIDE DEF P, rows
<3> QED
  BY DEF Insertion
<2>2. made.error = "none" /\ Includes(c, made.rows)
<3> HIDE DEF made
<3> QED
  BY <1>1
<2>3. /\ "ranges" \in DOMAIN rows(raw.ranges[i])
      /\ Row(<<s, RangeId(raw.ranges[i])>>, {}, P(raw.ranges[i]), raw.ranges[i].cells)
           \in rows(raw.ranges[i])["ranges"]
<3> HIDE DEF P
<3> QED
  OBVIOUS
<2>4. Row(<<s, RangeId(raw.ranges[i])>>, {}, P(raw.ranges[i]), raw.ranges[i].cells) \in c["ranges"]
<3> HIDE DEF entries, rows, P
<3> QED
  BY <2>1, <2>2, <2>3, EntryHeld
<2> HIDE DEF P
<2> QED
  BY <2>4, RowHeld
<1> QED
  BY <1>1, <1>2 DEF SilentlyEmpty

(* With base skills. *)
LEMMA BaseSkillsWhole ==
  ASSUME NEW s, NEW raw, NEW b, NEW c, ImportBaseSkills(s, raw, b).error = "none", raw.shape = "ok",
         Includes(c, ImportBaseSkills(s, raw, b).rows)
  PROVE  /\ \A i \in ParseBuffs(raw) : Holds(c, "base_skills", <<s, raw.buffs[i].id>>)
         /\ DOMAIN raw.buffs # {} => ParseBuffs(raw) # {}
<1> DEFINE known   == PkByGameId(b["operators"], s)
           parsed  == ParseBuffs(raw)
           P(x)    == Prov(s, GameData, "building_data", x.id)
           rows(x) == [base_skills |-> {Row(<<s, x.id>>, {}, P(x), <<>>)}]
           entries == [i \in parsed |-> Insertion(raw.buffs[i].id, P(raw.buffs[i]), rows(raw.buffs[i]))]
           made    == InsertEach(entries, {})
           here    == {o \in DOMAIN raw.chars : ParseStages(raw.chars[o]) # {} /\ o \in DOMAIN known}
           links   == BaseLinks(s, [o \in here |-> raw.chars[o]], {raw.buffs[i].id : i \in parsed}, known)
<1>1. /\ ImportBaseSkills(s, raw, b).rows = Join(made.rows, links) /\ made.error = "none"
      /\ ~SilentlyEmpty(DOMAIN raw.buffs, parsed)
<2>1. ImportBaseSkills(s, raw, b) =
        CASE raw.shape = "absent"  -> Ok(NoRows)
          [] raw.shape = "corrupt" -> Torn
          [] \/ raw.shape = "foreign"
             \/ SilentlyEmpty(DOMAIN raw.buffs, parsed) -> Refused(NoRows)
          [] OTHER ->
               IF made.error # "none" THEN made
               ELSE IF SilentlyEmpty(here, RowsOf(links, "operator_base_skills"))
                    THEN Refused(Join(made.rows, links))
                    ELSE Ok(Join(made.rows, links))
    BY Zenon DEF ImportBaseSkills
<2> HIDE DEF made, links, here, parsed
<2> QED
  BY <2>1 DEF Refused, Ok
<1>2. Includes(c, made.rows)
<2> HIDE DEF made, links
<2> QED
  BY <1>1, JoinIncluded
<1>3. ASSUME NEW i \in parsed PROVE Holds(c, "base_skills", <<s, raw.buffs[i].id>>)
<2>1. i \in DOMAIN entries /\ entries[i].rows = rows(raw.buffs[i])
<3> HIDE DEF P, rows
<3> QED
  BY DEF Insertion
<2>2. /\ "base_skills" \in DOMAIN rows(raw.buffs[i])
      /\ Row(<<s, raw.buffs[i].id>>, {}, P(raw.buffs[i]), <<>>) \in rows(raw.buffs[i])["base_skills"]
<3> HIDE DEF P
<3> QED
  OBVIOUS
<2>3. Row(<<s, raw.buffs[i].id>>, {}, P(raw.buffs[i]), <<>>) \in c["base_skills"]
<3> HIDE DEF entries, rows, P
<3> QED
  BY <1>1, <1>2, <2>1, <2>2, EntryHeld
<2> HIDE DEF P
<2> QED
  BY <2>3, RowHeld
<1> QED
  BY <1>1, <1>3 DEF SilentlyEmpty

(* With the items of penguin, and its drops. *)
LEMMA PenguinWhole ==
  ASSUME NEW s, NEW raw, NEW b, NEW c, ImportPenguinDrops(s, raw, b).error = "none",
         NEW rows, rows = ImportPenguinDrops(s, raw, b).rows, Includes(c, rows)
  PROVE  /\ \A id \in ItemIds(raw) : Holds(c, "items", <<s, id>>)
         /\ ParseMatrix(raw) # {} => RowsOf(rows, "stage_drops") # {}
<1> DEFINE items   == InsertItems(s, raw)
           stages  == PkByGameId(b["stages"], s)
           known   == {i \in ParseMatrix(raw) : /\ raw.matrix[i].stage \in DOMAIN stages
                                                /\ raw.matrix[i].item \in ItemIds(raw)}
           P(d)    == Prov(s, Penguin, "result/matrix", d.stage \o "/" \o d.item)
           refs(d) == {<<"stages", stages[d.stage]>>, <<"items", <<s, d.item>>>>,
                       <<"source_snapshots", <<s, Penguin>>>>}
           drop(d) == [stage_drops |-> {Row(<<s, d.stage, d.item>>, refs(d), P(d), <<>>)}]
           entries == [i \in known |-> Insertion(raw.matrix[i], P(raw.matrix[i]), drop(raw.matrix[i]))]
           drops   == InsertEach(entries, {})
           snap    == InsertSnapshot(s, Penguin)
           first   == Join(snap, items.rows)
<1>1. /\ rows = Join(first, drops.rows) /\ items.error = "none"
      /\ ~SilentlyEmpty(ParseMatrix(raw), RowsOf(drops.rows, "stage_drops"))
<2>1. ImportPenguinDrops(s, raw, b) =
        CASE raw.shape \in {"absent", "corrupt"} -> Torn
          [] raw.shape = "foreign"               -> Refused(NoRows)
          [] OTHER ->
               IF items.error # "none" THEN Refused(first)
               ELSE IF drops.error # "none"
                       \/ SilentlyEmpty(ParseMatrix(raw), RowsOf(drops.rows, "stage_drops"))
                    THEN Refused(Join(first, drops.rows))
                    ELSE Ok(Join(first, drops.rows))
  BY Zenon DEF ImportPenguinDrops
<2> HIDE DEF items, first, drops
<2> QED
  BY <2>1 DEF Torn, Refused, Ok
<1>2. Includes(c, snap) /\ Includes(c, items.rows)
<2> HIDE DEF items, drops, snap
<2> QED
  BY <1>1, JoinIncluded
<1>3. \A id \in ItemIds(raw) : Holds(c, "items", <<s, id>>)
<2>1. Holds(c, "source_snapshots", <<s, Penguin>>)
  BY <1>2, SnapshotFits DEF Sources
<2> HIDE DEF snap
<2> QED
  BY <1>1, <1>2, <2>1, ItemsFit
<1>4. RowsOf(rows, "stage_drops") = RowsOf(first, "stage_drops") \cup RowsOf(drops.rows, "stage_drops")
<2> HIDE DEF first, drops
<2> QED
  BY <1>1, RowsOfJoin
<1> HIDE DEF first, drops
<1> QED
  BY <1>1, <1>3, <1>4 DEF SilentlyEmpty

(* With announcements, of which one is then on display. *)
LEMMA AnnouncementsWhole ==
  ASSUME NEW s, NEW raw, NEW c, ImportAnnouncements(s, raw).error = "none",
         Includes(c, ImportAnnouncements(s, raw).rows)
  PROVE  /\ \A i \in ParseAnnouncements(raw) : Holds(c, "announcements", <<s, raw.entries[i].id>>)
         /\ DOMAIN raw.entries # {} =>
              \E r \in c["announcements"] : r.key[1] = s /\ r.val
<1> DEFINE parsed  == ParseAnnouncements(raw)
           dated   == {i \in parsed : raw.entries[i].dated}
           P(a)    == Prov(s, Announcers, "announcements", a.id)
           row(a)  == Row(<<s, a.id>>, {}, P(a), a.dated)
           rows(a) == [announcements |-> {row(a)}]
           entries == [i \in parsed |->
                         Insertion(raw.entries[i].id, P(raw.entries[i]), rows(raw.entries[i]))]
           made    == InsertEach(entries, {})
           snap    == InsertSnapshot(s, Announcers)
<1>1. /\ ImportAnnouncements(s, raw).rows = Join(made.rows, snap) /\ made.error = "none"
      /\ ~SilentlyEmpty(DOMAIN raw.entries, parsed) /\ ~SilentlyEmpty(parsed, dated)
<2>1. ImportAnnouncements(s, raw) =
        CASE raw.shape \in {"absent", "corrupt"} -> Torn
          [] \/ raw.shape = "foreign"
             \/ SilentlyEmpty(DOMAIN raw.entries, parsed)
             \/ SilentlyEmpty(parsed, dated) -> Refused(NoRows)
          [] OTHER -> [made EXCEPT !.rows = Join(@, snap)]
  BY Zenon DEF ImportAnnouncements
<2>2. DOMAIN made = {"error", "rows"}
  BY InsertEachShape, Zenon
<2> HIDE DEF made, snap, parsed, dated
<2> QED
  BY <2>1, <2>2 DEF Torn, Refused
<1>2. Includes(c, made.rows)
<2> HIDE DEF made, snap
<2> QED
  BY <1>1, JoinIncluded
<1>3. ASSUME NEW i \in parsed PROVE row(raw.entries[i]) \in c["announcements"]
<2>1. i \in DOMAIN entries /\ entries[i].rows = rows(raw.entries[i])
<3> HIDE DEF P, rows
<3> QED
  BY DEF Insertion
<2>2. /\ "announcements" \in DOMAIN rows(raw.entries[i])
      /\ row(raw.entries[i]) \in rows(raw.entries[i])["announcements"]
<3> HIDE DEF row
<3> QED
  OBVIOUS
<2> HIDE DEF entries, rows, row, P
<2> QED
  BY <1>1, <1>2, <2>1, <2>2, EntryHeld
<1>4. \A i \in parsed : Holds(c, "announcements", <<s, raw.entries[i].id>>)
<2> HIDE DEF parsed, P
<2> QED
  BY <1>3, RowHeld
<1>5. \A i \in parsed : row(raw.entries[i]).key[1] = s /\ row(raw.entries[i]).val = raw.entries[i].dated
  BY DEF Row
<1>6. DOMAIN raw.entries # {} => dated # {}
  BY <1>1 DEF SilentlyEmpty
<1>7. ASSUME DOMAIN raw.entries # {} PROVE \E r \in c["announcements"] : r.key[1] = s /\ r.val
<2>1. PICK i \in parsed : raw.entries[i].dated
  BY <1>6, <1>7
<2>2. row(raw.entries[i]).val
  BY <1>5, <2>1, Zenon
<2> HIDE DEF row, parsed
<2> QED
  BY <1>3, <1>5, <2>1, <2>2, Zenon
<1> QED
  BY <1>4, <1>7

(***************************************************************************)
(* Values that read back                                                   *)
(***************************************************************************)

(* The base level is the one numbered 0, or the first. *)
LEMMA BaseOf ==
  ASSUME NEW S, NEW levels \in Seq(S),
         \A i, j \in DOMAIN levels : levels[i].level = levels[j].level => i = j
  PROVE  LET zero == {x \in ToSet(levels) : x.level = 0}
         IN levels[BaseLevel(levels)] = IF zero = {} THEN levels[1] ELSE CHOOSE x \in zero : TRUE
<1> DEFINE zero == {x \in ToSet(levels) : x.level = 0}
           at0  == {i \in DOMAIN levels : levels[i].level = 0}
<1>1. DOMAIN levels \subseteq Int /\ ToSet(levels) = {levels[i] : i \in DOMAIN levels}
  BY DEF ToSet
<1>2. CASE at0 = {}
<2>1. zero = {} /\ BaseLevel(levels) = 1
  BY <1>1, <1>2 DEF BaseLevel
<2> QED
  BY <2>1
<1>3. CASE at0 # {}
<2>1. PICK m \in at0 : at0 = {m} /\ m \in DOMAIN levels
  BY <1>3
<2>2. m <= m
  BY <1>1, <2>1
<2>3. BaseLevel(levels) = m
<3>1. BaseLevel(levels) = CHOOSE i \in at0 : \A j \in at0 : i <= j
  BY <1>3 DEF BaseLevel
<3> HIDE DEF at0
<3> QED
  BY <2>1, <2>2, <3>1
<2>4. zero = {levels[m]}
  BY <1>1, <2>1
<2> HIDE DEF zero, at0
<2>5. (CHOOSE x \in zero : TRUE) = levels[m]
  BY <2>4
<2> QED
  BY <2>3, <2>4, <2>5 DEF zero
<1> QED
  BY <1>2, <1>3

(* A level is found by its number. *)
LEMMA LevelOf ==
  ASSUME NEW levels, NEW i \in DOMAIN levels,
         \A j, k \in DOMAIN levels : levels[j].level = levels[k].level => j = k
  PROVE  (CHOOSE x \in ToSet(levels) : x.level = levels[i].level) = levels[i]
BY DEF ToSet

(* StatsInherited, of the file the level came from. *)
Inherits(r, raw) ==
  LET levels == raw.database[r.key[2]]
      zero   == {x \in ToSet(levels) : x.level = 0}
      base   == IF zero = {} THEN levels[1] ELSE CHOOSE x \in zero : TRUE
      l      == CHOOSE x \in ToSet(levels) : x.level = r.key[3]
      answer == Answer(l, base)
  IN /\ r.val.none = (answer # Unset /\ answer < 0)
     /\ r.val.range = (IF answer < 0 THEN Unset ELSE answer)
     /\ r.val.immunities = Immune(l, base)

(* Keys of which none is repeated differ. *)
LEMMA Distinct ==
  ASSUME NEW keys, DOMAIN keys \subseteq Int, Repeated(keys) = {}
  PROVE  \A j, k \in DOMAIN keys : keys[j] = keys[k] => j = k
<1>1. ASSUME NEW j \in DOMAIN keys, NEW k \in DOMAIN keys, keys[j] = keys[k], j < k PROVE FALSE
  BY <1>1 DEF Repeated
<1> QED
  BY <1>1

(* What a level stores: the sentinel told apart from an unstated range. *)
LEMMA Finalized ==
  ASSUME NEW level, NEW range, NEW immune, NEW val,
         val = FinalizeLevel([level |-> level, range |-> range, immune |-> immune])
  PROVE  /\ val.none = (range < 0 /\ range # Unset)
         /\ val.range = IF range < 0 THEN Unset ELSE range
         /\ val.immunities = {f \in DOMAIN immune : immune[f]}
<1> DEFINE l == [level |-> level, range |-> range, immune |-> immune]
<1>1. l.range = range /\ l.immune = immune
  OBVIOUS
<1>2. /\ val.none = (l.range < 0 /\ l.range # Unset)
      /\ val.range = IF l.range < 0 THEN Unset ELSE l.range
      /\ val.immunities = {f \in DOMAIN l.immune : l.immune[f]}
<2> HIDE DEF l
<2> QED
  BY Zenon DEF FinalizeLevel, l
<1> HIDE DEF l
<1> QED
  BY <1>1, <1>2, Zenon

(* Each level import_enemies stores says what its file says, its own answer
   or else the base's. *)
LEMMA EnemyValues ==
  ASSUME NEW s, NEW raw \in {Ordinary["enemies"]} \cup Irregular["enemies"],
         ImportEnemies(s, raw).error = "none",
         NEW r \in RowsOf(ImportEnemies(s, raw).rows, "enemy_levels")
  PROVE  Inherits(r, raw)
<1> DEFINE P(e)  == Prov(s, GameData, "enemy_handbook_table", e)
           ids   == ParseEnemies(raw)
           Lv(e) == EnemyLevels(raw, e)
           own(e, i) == Row(<<s, e, Lv(e)[i].level>>, {<<"enemies", <<s, e>>>>}, <<>>, Lv(e)[i].val)
           base  == {Row(<<s, e>>, {}, P(e), <<>>) : e \in ids}
           level == UNION {{own(e, i) : i \in DOMAIN Lv(e)} : e \in ids}
           rows  == [enemies |-> base, enemy_levels |-> level]
<1>1. /\ ImportEnemies(s, raw).rows = Proved(rows, {P(e) : e \in ids})
      /\ raw.shape = "ok"
      /\ \A e \in ids : Repeated([i \in DOMAIN Lv(e) |-> Lv(e)[i].level]) = {}
  BY FilesAssumption DEF ImportEnemies, Ok, Refused, Torn
<1>2. r \in level
<2> HIDE DEF base, level, P
<2>1. RowsOf(rows, "enemy_levels") = level
  BY DEF RowsOf
<2> HIDE DEF rows
<2> QED
  BY <1>1, <2>1, RowsOfProved
<1>3. PICK e \in ids : r \in {own(e, i) : i \in DOMAIN Lv(e)}
<2> HIDE DEF own, Lv, ids
<2> QED
  BY <1>2
<1>4. PICK i \in DOMAIN Lv(e) : r = own(e, i)
<2> HIDE DEF own, Lv
<2> QED
  BY <1>3
<1>5. e \in DOMAIN raw.database
<2>1. i \in DOMAIN EnemyLevels(raw, e)
<3> HIDE DEF own
<3> QED
  BY <1>4
<2>2. ASSUME e \notin DOMAIN raw.database PROVE EnemyLevels(raw, e) = <<>>
  BY <2>2 DEF EnemyLevels
<2> HIDE DEF own, Lv, ids
<2> QED
  BY <2>1, <2>2
<1> DEFINE file   == raw.database[e]
           bottom == file[BaseLevel(file)]
<1>6. file \in Seq(ToSet(file))
<2>1. List(raw.database[e])
  BY <1>1, <1>5, FilesAssumption
<2> QED
  BY <2>1 DEF List
<1>7. /\ DOMAIN Lv(e) = DOMAIN file
      /\ \A j \in DOMAIN file :
           /\ Lv(e)[j].level = file[j].level
           /\ Lv(e)[j].val = FinalizeLevel([level  |-> file[j].level,
                                            range  |-> Answer(file[j], bottom),
                                            immune |-> Inherited(file[j].immune, bottom.immune)])
  BY <1>5 DEF EnemyLevels, ApplyLevelDeltas, Answer
<1>8. \A j, k \in DOMAIN file : file[j].level = file[k].level => j = k
<2>1. DOMAIN file \subseteq Int
  BY <1>6
<2>2. Repeated([j \in DOMAIN file |-> file[j].level]) = {}
<3>1. [j \in DOMAIN Lv(e) |-> Lv(e)[j].level] = [j \in DOMAIN file |-> file[j].level]
<4> HIDE DEF Lv, file
<4> QED
  BY <1>7
<3> HIDE DEF Lv, file
<3> QED
  BY <1>1, <3>1
<2>3. \A j, k \in DOMAIN [m \in DOMAIN file |-> file[m].level] :
        [m \in DOMAIN file |-> file[m].level][j] = [m \in DOMAIN file |-> file[m].level][k] => j = k
<3> HIDE DEF file
<3> QED
  BY <2>1, <2>2, Distinct
<2> HIDE DEF file
<2> QED
  BY <2>3
<1>9. /\ r.key[2] = e /\ r.key[3] = file[i].level /\ i \in DOMAIN file
      /\ r.val = FinalizeLevel([level  |-> file[i].level,
                                range  |-> Answer(file[i], bottom),
                                immune |-> Inherited(file[i].immune, bottom.immune)])
<2> HIDE DEF Lv, file, bottom
<2> QED
  BY <1>4, <1>7 DEF Row
<1> DEFINE zero == {x \in ToSet(file) : x.level = 0}
<1>10. bottom = IF zero = {} THEN file[1] ELSE CHOOSE x \in zero : TRUE
<2> HIDE DEF file
<2> QED
  BY <1>6, <1>8, BaseOf
<1>11. file[i] = CHOOSE x \in ToSet(file) : x.level = r.key[3]
<2> HIDE DEF file
<2> QED
  BY <1>8, <1>9, LevelOf
<1>12. /\ r.val.none = (Answer(file[i], bottom) # Unset /\ Answer(file[i], bottom) < 0)
       /\ r.val.range = (IF Answer(file[i], bottom) < 0 THEN Unset ELSE Answer(file[i], bottom))
       /\ r.val.immunities = Immune(file[i], bottom)
<2>1. /\ r.val.none = (Answer(file[i], bottom) < 0 /\ Answer(file[i], bottom) # Unset)
      /\ r.val.range = IF Answer(file[i], bottom) < 0 THEN Unset ELSE Answer(file[i], bottom)
      /\ r.val.immunities = {f \in DOMAIN Inherited(file[i].immune, bottom.immune) :
                               Inherited(file[i].immune, bottom.immune)[f]}
<3> HIDE DEF file, bottom
<3> QED
  BY <1>9, Finalized
<2>2. {f \in DOMAIN Inherited(file[i].immune, bottom.immune) :
                               Inherited(file[i].immune, bottom.immune)[f]} = Immune(file[i], bottom)
<3> HIDE DEF file, bottom
<3> QED
  BY DEF Inherited, Immune
<2>3. (Answer(file[i], bottom) < 0 /\ Answer(file[i], bottom) # Unset)
        = (Answer(file[i], bottom) # Unset /\ Answer(file[i], bottom) < 0)
<3> HIDE DEF file, bottom
<3> QED
  OBVIOUS
<2> HIDE DEF file, bottom
<2> QED
  BY <2>1, <2>2, <2>3, Zenon
<1> HIDE DEF bottom
<1> QED
  BY <1>9, <1>10, <1>11, <1>12 DEF Inherits

(* The name a skill level shows, and the one its file has there. *)
Shown(r, names) == IF r.val # NoText THEN r.val ELSE UniformStr(names)

(* Each skill level import_operators stores shows the name its file has
   there, and its skill is there to show it. *)
LEMMA SkillValues ==
  ASSUME NEW s, NEW raw, ImportOperators(s, raw).error = "none",
         NEW rows, rows = ImportOperators(s, raw).rows
  PROVE  /\ \A x \in RowsOf(rows, "skills") :
              x.key[1] = s /\ x.val = UniformStr(raw.skills[x.key[2]])
         /\ \A r \in RowsOf(rows, "skill_levels") :
              /\ Shown(r, raw.skills[r.key[2]]) = raw.skills[r.key[2]][r.key[3]]
              /\ r.key[1] = s
              /\ \E x \in RowsOf(rows, "skills") : x.key = <<r.key[1], r.key[2]>>
<1> DEFINE P(k)   == Prov(s, GameData, "skill_table", k)
           ids    == DOMAIN raw.skills
           Shared(k) == UniformStr(raw.skills[k])
           base   == {Row(<<s, k>>, {}, P(k), Shared(k)) : k \in ids}
           own(k, i) == Row(<<s, k, i>>, {<<"skills", <<s, k>>>>}, <<>>,
                            LevelOnly(Shared(k), raw.skills[k][i]))
           levels == UNION {{own(k, i) : i \in DOMAIN raw.skills[k]} : k \in ids}
           made   == [skills |-> base, skill_levels |-> levels]
           skills == SkillRows(s, raw.skills)
           chars  == OperatorRows(s, raw, DOMAIN raw.skills)
<1>1. rows = NoRows \/ rows = Join(skills, chars)
<2> HIDE DEF skills, chars
<2>1. \/ ImportOperators(s, raw) \in {Ok(NoRows), Torn, Refused(NoRows)}
      \/ ImportOperators(s, raw) = Ok(Join(skills, chars))
  BY DEF ImportOperators, skills, chars
<2> QED
  BY <2>1 DEF Ok, Torn, Refused
<1>2. CASE rows = NoRows
  BY <1>2 DEF NoRows, RowsOf
<1>3. CASE rows = Join(skills, chars)
<2>1. skills = Proved(made, {P(k) : k \in ids})
  BY DEF SkillRows
<2>2. RowsOf(skills, "skills") = base /\ RowsOf(skills, "skill_levels") = levels
<3>1. RowsOf(made, "skills") = base /\ RowsOf(made, "skill_levels") = levels
<4> HIDE DEF base, levels
<4> QED
  BY DEF RowsOf
<3> HIDE DEF made, skills, base, levels, P
<3> QED
  BY <2>1, <3>1, RowsOfProved
<2>3. RowsOf(chars, "skills") = {} /\ RowsOf(chars, "skill_levels") = {}
<3>1. PICK a, b, c, d, e, f, g, prov :
        chars = Proved([operators |-> a, operator_aliases |-> b, operator_phases |-> c,
                        operator_skills |-> d, talents |-> e, talent_levels |-> f,
                        operator_factions |-> g], prov)
  BY Zenon DEF OperatorRows
<3> DEFINE all == [operators |-> a, operator_aliases |-> b, operator_phases |-> c,
                   operator_skills |-> d, talents |-> e, talent_levels |-> f,
                   operator_factions |-> g]
<3>2. RowsOf(all, "skills") = {} /\ RowsOf(all, "skill_levels") = {}
  BY DEF RowsOf
<3> HIDE DEF all, chars
<3> QED
  BY <3>1, <3>2, RowsOfProved DEF all
<2>4. RowsOf(rows, "skills") = base /\ RowsOf(rows, "skill_levels") = levels
<3> HIDE DEF skills, chars, base, levels
<3> QED
  BY <1>3, <2>2, <2>3, RowsOfJoin
<2>5. ASSUME NEW k \in ids
      PROVE  LET x == Row(<<s, k>>, {}, P(k), Shared(k))
             IN x \in base /\ x.key = <<s, k>> /\ x.val = Shared(k)
  BY DEF Row
<2>6. ASSUME NEW x \in base PROVE x.key[1] = s /\ x.val = UniformStr(raw.skills[x.key[2]])
<3>1. PICK k \in ids : x = Row(<<s, k>>, {}, P(k), Shared(k))
<4> HIDE DEF P, Shared
<4> QED
  OBVIOUS
<3>2. x.key[1] = s /\ x.key[2] = k /\ x.val = Shared(k)
<4> HIDE DEF P, Shared
<4> QED
  BY <3>1 DEF Row
<3> QED
  BY <3>2
<2>7. ASSUME NEW r \in levels
      PROVE  /\ Shown(r, raw.skills[r.key[2]]) = raw.skills[r.key[2]][r.key[3]]
             /\ r.key[1] = s /\ \E x \in base : x.key = <<r.key[1], r.key[2]>>
<3>1. PICK k \in ids : r \in {own(k, i) : i \in DOMAIN raw.skills[k]}
<4> HIDE DEF own
<4> QED
  OBVIOUS
<3>2. PICK i \in DOMAIN raw.skills[k] : r = own(k, i)
<4> HIDE DEF own
<4> QED
  BY <3>1
<3>3. r.key = <<s, k, i>> /\ r.val = LevelOnly(Shared(k), raw.skills[k][i])
  BY <3>2 DEF Row
<3>4. r.key[1] = s /\ r.key[2] = k /\ r.key[3] = i
  BY <3>3
<3>5. Shared(k) = NoText \/ Shared(k) = raw.skills[k][i]
  BY DEF UniformStr
<3>6. Shown(r, raw.skills[k]) = raw.skills[k][i]
<4> HIDE DEF Shared
<4> QED
  BY <3>3, <3>5 DEF Shown, LevelOnly, Shared
<3> QED
  BY <2>5, <3>4, <3>6
<2> HIDE DEF base, levels
<2> QED
  BY <2>4, <2>6, <2>7
<1> QED
  BY <1>1, <1>2, <1>3

(***************************************************************************)
(* Folds over finite sets                                                  *)
(***************************************************************************)

(* A set of subsets of a finite set has a least one. *)
LEMMA LeastSubset ==
  ASSUME NEW S, IsFiniteSet(S), NEW T \in SUBSET SUBSET S, T # {}
  PROVE  \E s \in T : \A u \in T : ~(u \subseteq s /\ u # s)
<1>1. IsWellFoundedOn(StrictSubsetOrdering(S), SUBSET S)
  BY FS_StrictSubsetOrderingWellFounded, FS_FiniteSubsetsOfFinite
<1>2. PICK s \in T : \A u \in T : <<u, s>> \notin StrictSubsetOrdering(S)
  BY <1>1, WFMin
<1> QED
  BY <1>2 DEF StrictSubsetOrdering

(* A set of natural numbers has a least one. *)
LEMMA LeastNat ==
  ASSUME NEW T \in SUBSET Nat, T # {}
  PROVE  \E n \in T : \A m \in T : n <= m
<1>1. PICK n \in T : \A m \in T : <<m, n>> \notin OpToRel(<, Nat)
  BY NatLessThanWellFounded, WFMin
<1>2. ASSUME NEW m \in T PROVE n <= m
<2>1. ~(m < n)
  BY <1>1 DEF OpToRel
<2> QED
  BY <2>1
<1> QED
  BY <1>2

(* h folds each subset of S by G from base, taking pick[s] last. *)
Folds(h, S, pick, G, base) ==
  h = [s \in SUBSET S |-> IF s = {} THEN base ELSE G[<<pick[s], h[s \ {pick[s]}]>>]]
Picks(pick, S) == \A s \in SUBSET S : s # {} => pick[s] \in s

(* Over a finite set there is such a fold. *)
LEMMA FoldThere ==
  ASSUME NEW S, IsFiniteSet(S), NEW V, NEW base \in V, NEW pick, Picks(pick, S), NEW G \in [S \X V -> V]
  PROVE  \E h \in [SUBSET S -> V] : Folds(h, S, pick, G, base)
<1> DEFINE Small(n) == {s \in SUBSET S : Cardinality(s) <= n}
           Step(h, s) == IF s = {} THEN base ELSE G[<<pick[s], h[s \ {pick[s]}]>>]
           Good(n) == \E h \in [Small(n) -> V] : \A s \in Small(n) : h[s] = Step(h, s)
           Bad == {n \in Nat : ~Good(n)}
<1>1. \A s \in SUBSET S : IsFiniteSet(s) /\ Cardinality(s) \in Nat /\ (Cardinality(s) = 0 <=> s = {})
  BY FS_Subset, FS_CardinalityType, FS_EmptySet
<1>2. \A s \in SUBSET S : s # {} =>
        /\ pick[s] \in S /\ pick[s] \in s /\ s \ {pick[s]} \in SUBSET S
        /\ Cardinality(s \ {pick[s]}) = Cardinality(s) - 1
  BY <1>1, FS_RemoveElement DEF Picks
<1>3. Bad = {}
<2>1. SUFFICES ASSUME Bad # {} PROVE FALSE
  OBVIOUS
<2> HIDE DEF Good
<2>2. PICK n \in Bad : \A m \in Bad : n <= m
  BY <2>1, LeastNat
<2>3. n \in Nat /\ ~Good(n)
  OBVIOUS
<2>4. CASE n = 0
<3> DEFINE h == [s \in Small(0) |-> base]
<3>1. \A s \in Small(0) : s = {}
  BY <1>1
<3>2. h \in [Small(0) -> V] /\ \A s \in Small(0) : h[s] = Step(h, s)
  BY <3>1
<3>3. Good(0)
  BY <3>2 DEF Good
<3> QED
  BY <2>3, <2>4, <3>3
<2>5. CASE n # 0
<3> DEFINE m == n - 1
<3>1. m \in Nat /\ m < n
  BY <2>3, <2>5
<3>2. Good(m)
  BY <2>2, <3>1
<3>3. PICK h \in [Small(m) -> V] : \A s \in Small(m) : h[s] = Step(h, s)
  BY <3>2 DEF Good
<3> DEFINE g == [s \in Small(n) |-> IF s \in Small(m) THEN h[s] ELSE Step(h, s)]
<3> HIDE DEF m
<3>4. ASSUME NEW s \in Small(n), s # {} PROVE s \ {pick[s]} \in Small(m) /\ s \ {pick[s]} \in Small(n)
  BY <1>1, <1>2, <2>3, <3>1, <3>4 DEF m
<3>5. ASSUME NEW s \in Small(n) PROVE g[s] = Step(h, s) /\ g[s] \in V
<4>1. g[s] = Step(h, s)
  BY <3>3, <3>5
<4>2. CASE s = {}
  BY <4>1, <4>2
<4>3. CASE s # {}
<5>1. s \ {pick[s]} \in Small(m) /\ pick[s] \in S
  BY <1>2, <3>4, <4>3
<5>2. h[s \ {pick[s]}] \in V
  BY <5>1
<5> QED
  BY <4>1, <4>3, <5>1, <5>2
<4> QED
  BY <4>1, <4>2, <4>3
<3>6. ASSUME NEW s \in Small(n) PROVE g[s] = Step(g, s)
<4>1. CASE s = {}
  BY <3>5, <4>1
<4>2. CASE s # {}
<5>1. s \ {pick[s]} \in Small(m) /\ s \ {pick[s]} \in Small(n)
  BY <3>4, <4>2
<5>2. g[s \ {pick[s]}] = h[s \ {pick[s]}]
  BY <5>1
<5> HIDE DEF g
<5> QED
  BY <3>5, <4>2, <5>2
<4> QED
  BY <4>1, <4>2
<3>7. g \in [Small(n) -> V]
  BY <3>5
<3> HIDE DEF g
<3>8. Good(n)
  BY <3>6, <3>7 DEF Good
<3> QED
  BY <2>3, <3>8
<2> QED
  BY <2>4, <2>5
<1>4. Good(Cardinality(S))
  BY <1>1, <1>3
<1>5. Small(Cardinality(S)) = SUBSET S
  BY <1>1, FS_Subset
<1>6. PICK h \in [SUBSET S -> V] : \A s \in SUBSET S : h[s] = Step(h, s)
  BY <1>4, <1>5
<1>7. h = [s \in SUBSET S |-> Step(h, s)]
<2> HIDE DEF Step
<2> QED
  BY <1>6
<1> QED
  BY <1>7 DEF Folds

(* h[s] is the sum of c over s, whichever member is added last. *)
Summed(h, S, c) ==
  /\ h \in [SUBSET S -> Int] /\ h[{}] = 0
  /\ \A s \in SUBSET S : \A x \in s : h[s] = h[s \ {x}] + c[x]

(* A sum taken in one order is one in every order. *)
LEMMA AnyOrder ==
  ASSUME NEW S, IsFiniteSet(S), NEW c \in [S -> Int], NEW pick, Picks(pick, S),
         NEW h \in [SUBSET S -> Int], h[{}] = 0,
         \A s \in SUBSET S : s # {} => h[s] = h[s \ {pick[s]}] + c[pick[s]]
  PROVE  Summed(h, S, c)
<1> DEFINE Bad == {s \in SUBSET S : \E x \in s : h[s] # h[s \ {x}] + c[x]}
<1>1. Bad = {}
<2>1. SUFFICES ASSUME Bad # {} PROVE FALSE
  OBVIOUS
<2>2. PICK s \in Bad : \A u \in Bad : ~(u \subseteq s /\ u # s)
<3>1. Bad \in SUBSET SUBSET S
  OBVIOUS
<3> HIDE DEF Bad
<3> QED
  BY <2>1, <3>1, LeastSubset
<2>3. PICK x \in s : h[s] # h[s \ {x}] + c[x]
  BY <2>2
<2> DEFINE p == pick[s]
<2>4. p \in s /\ p \in S /\ x \in S /\ h[s] = h[s \ {p}] + c[p] /\ p # x
  BY <2>2, <2>3 DEF Picks
<2>5. s \ {p} \notin Bad /\ s \ {x} \notin Bad
  BY <2>2, <2>3, <2>4
<2>6. /\ s \ {p} \in SUBSET S /\ x \in s \ {p} /\ s \ {x} \in SUBSET S /\ p \in s \ {x}
  BY <2>2, <2>3, <2>4
<2> HIDE DEF p
<2>7. /\ h[s \ {p}] = h[(s \ {p}) \ {x}] + c[x]
      /\ h[s \ {x}] = h[(s \ {x}) \ {p}] + c[p]
  BY <2>5, <2>6
<2> DEFINE both == (s \ {x}) \ {p}
<2>8. (s \ {p}) \ {x} = both /\ both \in SUBSET S
  BY <2>6
<2> HIDE DEF both, Bad
<2>9. h[both] \in Int /\ c[x] \in Int /\ c[p] \in Int
  BY <2>4, <2>8
<2>10. h[s] = (h[both] + c[x]) + c[p] /\ h[s \ {x}] + c[x] = (h[both] + c[p]) + c[x]
  BY <2>4, <2>7, <2>8 DEF both
<2> QED
  BY <2>3, <2>9, <2>10
<1> QED
  BY <1>1 DEF Summed

(* Sums over sets that correspond one to one are the same. *)
LEMMA SameSum ==
  ASSUME NEW S, IsFiniteSet(S), NEW T, NEW f \in [S -> T], T = {f[x] : x \in S},
         \A x, y \in S : f[x] = f[y] => x = y,
         NEW c, NEW d, \A x \in S : d[f[x]] = c[x],
         NEW h, Summed(h, S, c), NEW k, Summed(k, T, d)
  PROVE  h[S] = k[T]
<1> DEFINE Img(s) == {f[x] : x \in s}
           Bad == {s \in SUBSET S : h[s] # k[Img(s)]}
<1>1. Bad = {}
<2>1. SUFFICES ASSUME Bad # {} PROVE FALSE
  OBVIOUS
<2>2. PICK s \in Bad : \A u \in Bad : ~(u \subseteq s /\ u # s)
<3>1. Bad \in SUBSET SUBSET S
  OBVIOUS
<3> HIDE DEF Bad
<3> QED
  BY <2>1, <3>1, LeastSubset
<2>3. s # {}
<3>1. Img({}) = {}
  OBVIOUS
<3> QED
  BY <2>2, <3>1 DEF Summed
<2>4. PICK x \in s : TRUE
  BY <2>3
<2>5. s \ {x} \in SUBSET S /\ s \ {x} \notin Bad /\ s \in SUBSET S
  BY <2>2, <2>4
<2>6. h[s \ {x}] = k[Img(s \ {x})]
  BY <2>5
<2>7. Img(s) \in SUBSET T /\ f[x] \in Img(s) /\ Img(s \ {x}) = Img(s) \ {f[x]}
  BY <2>2, <2>4
<2>8. h[s] = h[s \ {x}] + c[x] /\ k[Img(s)] = k[Img(s) \ {f[x]}] + d[f[x]]
  BY <2>4, <2>5, <2>7 DEF Summed
<2>9. d[f[x]] = c[x]
  BY <2>4, <2>5
<2> HIDE DEF Img
<2> QED
  BY <2>2, <2>6, <2>7, <2>8, <2>9
<1> QED
  BY <1>1

(***************************************************************************)
(* The tally of a level                                                    *)
(***************************************************************************)

(* A finite set of places has a latest one. *)
LEMMA LatestThere ==
  ASSUME NEW S, IsFiniteSet(S), \A p \in S : p[1] \in Int /\ p[2] \in Int, S # {}
  PROVE  Latest(S) \in S
<1> DEFINE Upto(q, p) == q[1] < p[1] \/ (q[1] = p[1] /\ q[2] <= p[2])
           Has1(s) == \E p \in s : \A q \in s : Upto(q, p)
           Bad == {s \in SUBSET S : s # {} /\ ~Has1(s)}
<1>1. Bad = {}
<2>1. SUFFICES ASSUME Bad # {} PROVE FALSE
  OBVIOUS
<2>2. PICK s \in Bad : \A u \in Bad : ~(u \subseteq s /\ u # s)
<3>1. Bad \in SUBSET SUBSET S
  OBVIOUS
<3> HIDE DEF Bad
<3> QED
  BY <2>1, <3>1, LeastSubset
<2>3. PICK x \in s : TRUE
  BY <2>2
<2> DEFINE rest == s \ {x}
<2>4. s \in SUBSET S /\ ~Has1(s) /\ rest \in SUBSET S /\ rest \notin Bad
  BY <2>2, <2>3
<2>5. CASE rest = {}
<3>1. s = {x}
  BY <2>3, <2>5
<3>2. Upto(x, x)
  BY <2>3, <2>4
<3> HIDE DEF Upto
<3> QED
  BY <2>4, <3>1, <3>2
<2>6. CASE rest # {}
<3>1. PICK y \in rest : \A q \in rest : Upto(q, y)
  BY <2>4, <2>6
<3>2. Upto(x, y) \/ (Upto(y, x) /\ \A q \in rest : Upto(q, x))
  BY <2>3, <2>4, <3>1
<3>3. Upto(x, x) /\ s = rest \cup {x}
  BY <2>3, <2>4
<3> HIDE DEF Upto, rest
<3> QED
  BY <2>4, <3>1, <3>2, <3>3
<2> QED
  BY <2>5, <2>6
<1>2. Has1(S)
  BY <1>1
<1> QED
  BY <1>2, Zenon DEF Latest

CountOf(sp) == IF sp.count = Unset THEN 0 ELSE sp.count
TimesAt(waves, s) == {At(waves, p).time : p \in s} \ {Unset}
(* first and last are the least and the greatest of times, or unset. *)
Spans(first, last, times) ==
  IF times = {} THEN first = Unset /\ last = Unset
  ELSE first \in times /\ last \in times /\ \A t \in times : first <= t /\ t <= last

(* One more time. *)
LEMMA SpansMore ==
  ASSUME NEW first \in Int, NEW last \in Int, NEW times \in SUBSET Int, Unset \notin times,
         Spans(first, last, times), NEW t \in Int
  PROVE  /\ Earlier(first, t) \in Int /\ Later(last, t) \in Int
         /\ Spans(Earlier(first, t), Later(last, t), (times \cup {t}) \ {Unset})
<1>1. Unset \in Int
  BY DEF Unset
<1>2. CASE times = {}
<2>1. first = Unset /\ last = Unset
  BY <1>2 DEF Spans
<2>2. Earlier(first, t) = t /\ Later(last, t) = t
  BY <2>1 DEF Earlier, Later
<2>3. (times \cup {t}) \ {Unset} = IF t = Unset THEN {} ELSE {t}
  BY <1>2
<2> QED
  BY <2>2, <2>3 DEF Spans
<1>3. CASE times # {} /\ t = Unset
<2>1. first # Unset /\ last # Unset /\ (times \cup {t}) \ {Unset} = times
  BY <1>3 DEF Spans
<2>2. Earlier(first, t) = first /\ Later(last, t) = last
  BY <1>3, <2>1 DEF Earlier, Later
<2> QED
  BY <2>1, <2>2
<1>4. CASE times # {} /\ t # Unset
<2>1. first # Unset /\ last # Unset /\ (times \cup {t}) \ {Unset} = times \cup {t}
  BY <1>4 DEF Spans
<2>2. /\ Earlier(first, t) = IF first < t THEN first ELSE t
      /\ Later(last, t) = IF last > t THEN last ELSE t
  BY <1>1, <1>4, <2>1 DEF Earlier, Later
<2>3. /\ first \in times /\ last \in times /\ \A x \in times : first <= x /\ x <= last
  BY <1>4 DEF Spans
<2> DEFINE e == Earlier(first, t)
           l == Later(last, t)
           all == times \cup {t}
<2>4. e \in all /\ l \in all /\ all # {} /\ e \in Int /\ l \in Int
  BY <2>2, <2>3
<2>5. \A x \in all : e <= x /\ x <= l
<3> TAKE x \in all
<3>1. CASE x = t
  BY <2>2, <3>1
<3>2. CASE x \in times
  BY <2>2, <2>3, <3>2
<3> QED
  BY <3>1, <3>2
<2> HIDE DEF e, l, all
<2>6. Spans(e, l, all)
  BY <2>4, <2>5 DEF Spans
<2> QED
  BY <2>1, <2>4, <2>6 DEF e, l, all
<1> QED
  BY <1>2, <1>3, <1>4

(* What a bucket of the tally holds of its spawns: their counts added up, the
   routes they go by, and their first and last times. *)
LEMMA TallyTells ==
  ASSUME NEW waves, NEW R, NEW k \in DOMAIN Tally(waves, R),
         NEW P, P = InBucket(waves, k), IsFiniteSet(P),
         \A p \in P : /\ p[1] \in Int /\ p[2] \in Int
                      /\ At(waves, p).time \in Int /\ At(waves, p).count \in Int,
         NEW c, c = [p \in P |-> CountOf(At(waves, p))],
         NEW t, t = Tally(waves, R)[k]
  PROVE  /\ \E h : Summed(h, P, c) /\ t.total = h[P]
         /\ t.routes = {At(waves, p).route : p \in P} \cap R
         /\ Spans(t.first, t.last, TimesAt(waves, P))
         /\ DOMAIN t = {"total", "first", "last", "routes"}
<1> DEFINE V == [total : Int, first : Int, last : Int, routes : SUBSET R]
           Add(sp, agg) ==
             [total  |-> agg.total + (IF sp.count = Unset THEN 0 ELSE sp.count),
              first  |-> Earlier(agg.first, sp.time),
              last   |-> Later(agg.last, sp.time),
              routes |-> agg.routes \cup ({sp.route} \cap R)]
           Body(f) == [s \in SUBSET P |-> IF s = {} THEN SpawnAgg
                                          ELSE LET x == Latest(s) IN Add(At(waves, x), f[s \ {x}])]
           iter == CHOOSE f : f = Body(f)
           pick == [s \in SUBSET P |-> Latest(s)]
           G == [x \in P \X V |-> Add(At(waves, x[1]), x[2])]
<1>1. t = iter[P]
  BY Zenon DEF Tally, MapThenFoldSet
<1>2. Picks(pick, P)
<2>1. ASSUME NEW s \in SUBSET P, s # {} PROVE Latest(s) \in s
  BY <2>1, FS_Subset, LatestThere
<2> QED
  BY <2>1 DEF Picks
<1>3. SpawnAgg \in V
  BY DEF SpawnAgg, Unset
<1>4. ASSUME NEW p \in P, NEW v \in V PROVE Add(At(waves, p), v) \in V
  BY <1>4 DEF Earlier, Later, Unset
<1>5. G \in [P \X V -> V]
<2>1. \A x \in P \X V : x[1] \in P /\ x[2] \in V
  OBVIOUS
<2> HIDE DEF V, Add
<2> QED
  BY <1>4, <2>1
<1> HIDE DEF V, Add
<1>6. PICK h \in [SUBSET P -> V] : Folds(h, P, pick, G, SpawnAgg)
<2> HIDE DEF G, pick
<2> QED
  BY <1>2, <1>3, <1>5, FoldThere
<1>7. h = Body(h)
<2>1. ASSUME NEW s \in SUBSET P, s # {}
      PROVE  G[<<pick[s], h[s \ {pick[s]}]>>] = Add(At(waves, Latest(s)), h[s \ {Latest(s)}])
<3>1. pick[s] = Latest(s) /\ pick[s] \in P /\ h[s \ {pick[s]}] \in V
  BY <1>2, <2>1 DEF Picks
<3> HIDE DEF pick
<3> QED
  BY <3>1
<2>2. h = [s \in SUBSET P |-> IF s = {} THEN SpawnAgg ELSE G[<<pick[s], h[s \ {pick[s]}]>>]]
  BY <1>6, Zenon DEF Folds
<2> HIDE DEF G, pick
<2> QED
  BY <2>1, <2>2
<1>8. iter = Body(iter)
<2> HIDE DEF Body
<2> QED
  BY <1>7
<1>9. iter[{}] = SpawnAgg /\ \A s \in SUBSET P : s # {} => iter[s] = Add(At(waves, pick[s]), iter[s \ {pick[s]}])
<2> HIDE DEF iter
<2> QED
  BY <1>8
<1> HIDE DEF iter, G, Body, pick
<1> DEFINE Tells1(s) == /\ iter[s] \in V
                        /\ iter[s].routes = {At(waves, p).route : p \in s} \cap R
                        /\ Spans(iter[s].first, iter[s].last, TimesAt(waves, s))
           Bad == {s \in SUBSET P : ~Tells1(s)}
<1>10. ASSUME NEW s \in SUBSET P, s # {}, Tells1(s \ {pick[s]})
       PROVE  Tells1(s) /\ iter[s].total = iter[s \ {pick[s]}].total + CountOf(At(waves, pick[s]))
<2> DEFINE x == pick[s]
           sp == At(waves, x)
           rest == s \ {x}
           agg == iter[rest]
<2>1. x \in s /\ x \in P /\ sp.time \in Int /\ sp.count \in Int /\ rest \in SUBSET P
  BY <1>2, <1>10 DEF Picks
<2>2. iter[s] = Add(sp, agg)
  BY <1>9, <1>10
<2>3. agg \in V /\ Tells1(rest)
  BY <1>10
<2>4. iter[s] \in V
  BY <1>4, <2>1, <2>2, <2>3
<2>5. /\ iter[s].total = agg.total + CountOf(sp)
      /\ iter[s].first = Earlier(agg.first, sp.time) /\ iter[s].last = Later(agg.last, sp.time)
      /\ iter[s].routes = agg.routes \cup ({sp.route} \cap R)
<3> HIDE DEF sp, agg, rest, x
<3> QED
  BY <2>2 DEF Add, CountOf
<2>6. {At(waves, p).route : p \in s} = {At(waves, p).route : p \in rest} \cup {sp.route}
  BY <2>1
<2>7. TimesAt(waves, s) = (TimesAt(waves, rest) \cup {sp.time}) \ {Unset}
  BY <2>1 DEF TimesAt
<2>8. TimesAt(waves, rest) \in SUBSET Int /\ Unset \notin TimesAt(waves, rest)
  BY <2>1 DEF TimesAt
<2>9. agg.first \in Int /\ agg.last \in Int
  BY <2>3 DEF V
<2> HIDE DEF sp, agg, rest, x
<2>10. Spans(iter[s].first, iter[s].last, TimesAt(waves, s))
<3>1. Spans(agg.first, agg.last, TimesAt(waves, rest))
  BY <2>3 DEF agg
<3> QED
  BY <2>1, <2>5, <2>7, <2>8, <2>9, <3>1, SpansMore
<2>11. iter[s].routes = {At(waves, p).route : p \in s} \cap R
<3>1. agg.routes = {At(waves, p).route : p \in rest} \cap R
  BY <2>3 DEF agg
<3> QED
  BY <2>5, <2>6, <3>1
<2> QED
  BY <2>4, <2>5, <2>10, <2>11 DEF sp, agg, rest, x
<1>11. Tells1({})
<2>1. TimesAt(waves, {}) = {} /\ {At(waves, p).route : p \in {}} = {}
  BY DEF TimesAt
<2> QED
  BY <1>3, <1>9, <2>1 DEF SpawnAgg, Spans
<1> HIDE DEF Tells1
<1>12. Bad = {}
<2>1. SUFFICES ASSUME Bad # {} PROVE FALSE
  OBVIOUS
<2>2. PICK s \in Bad : \A u \in Bad : ~(u \subseteq s /\ u # s)
<3>1. Bad \in SUBSET SUBSET P
  OBVIOUS
<3> HIDE DEF Bad
<3> QED
  BY <2>1, <3>1, LeastSubset
<2>3. s \in SUBSET P /\ ~Tells1(s) /\ s # {}
  BY <1>11, <2>2
<2>4. s \ {pick[s]} \in SUBSET P /\ s \ {pick[s]} \notin Bad
  BY <1>2, <2>2, <2>3 DEF Picks
<2> QED
  BY <1>10, <2>3, <2>4
<1>13. \A s \in SUBSET P : Tells1(s)
  BY <1>12
<1> DEFINE sum == [s \in SUBSET P |-> iter[s].total]
<1>14. Summed(sum, P, c)
<2>1. sum \in [SUBSET P -> Int]
  BY <1>13 DEF Tells1, V
<2>2. sum[{}] = 0
  BY <1>9 DEF SpawnAgg
<2>3. ASSUME NEW s \in SUBSET P, s # {} PROVE sum[s] = sum[s \ {pick[s]}] + c[pick[s]]
<3>1. pick[s] \in P /\ s \ {pick[s]} \in SUBSET P
  BY <1>2, <2>3 DEF Picks
<3>2. iter[s].total = iter[s \ {pick[s]}].total + CountOf(At(waves, pick[s]))
  BY <1>10, <1>13, <2>3, <3>1
<3> QED
  BY <3>1, <3>2
<2>4. c \in [P -> Int]
  BY DEF CountOf
<2> HIDE DEF sum
<2> QED
  BY <1>2, <2>1, <2>2, <2>3, <2>4, AnyOrder, ZenonT(60)
<1>15. t.total = sum[P] /\ Tells1(P)
  BY <1>1, <1>13
<1>16. DOMAIN t = {"total", "first", "last", "routes"}
  BY <1>1, <1>15 DEF Tells1, V
<1> HIDE DEF sum
<1> QED
  BY <1>1, <1>14, <1>15, <1>16 DEF Tells1

(***************************************************************************)
(* The rows of a level file                                                *)
(***************************************************************************)
LevelTables == {"stage_tiles", "stage_routes", "stage_enemy_variants", "stage_spawns", "stage_enemies"}

TilesTold(s, g, lv, rows) ==
  \A c \in Tiles(lv) : \E t \in RowsOf(rows, "stage_tiles") :
    t.key = <<s, g, c[2] - 1, c[1] - 1>> /\ t.val = lv.defs[lv.grid[c[1]][c[2]]]
RoutesTold(s, g, lv, rows) ==
  \A r \in RowsOf(rows, "stage_routes") : \E i \in DOMAIN lv.routes :
    r.key = <<s, g, RouteIndex(lv, i)>> /\ r.val = ToGridFrame(lv.routes[i].start, Len(lv.grid))
VariantsTold(s, g, lv, enemies, rows) ==
  \A v \in DOMAIN CollectVariants(lv.refs) : \E x \in RowsOf(rows, "stage_enemy_variants") :
    x.key = <<s, g, v>> /\ <<"enemies", enemies[CollectVariants(lv.refs)[v]]>> \in x.refs
SpawnsTold(s, g, lv, rows) ==
  /\ \A r \in RowsOf(rows, "stage_spawns") : \E p \in Places(BoundWaves(lv)) :
       r.key = <<s, g, p[1] - 1, p[2]>> /\ r.val = At(BoundWaves(lv), p)
  /\ \A p \in Places(BoundWaves(lv)) : \E r \in RowsOf(rows, "stage_spawns") :
       r.key = <<s, g, p[1] - 1, p[2]>> /\ r.val = At(BoundWaves(lv), p)
  /\ \A r, x \in RowsOf(rows, "stage_spawns") : r.key = x.key => r = x
TotalsTold(s, g, lv, rows) ==
  LET agg == Tally(BoundWaves(lv), RouteIndices(lv))
  IN /\ \A e \in RowsOf(rows, "stage_enemies") : \E k \in DOMAIN agg :
          e.key = <<s, g, k[1], k[2], k[3]>> /\ e.val = [agg[k] EXCEPT !.routes = Cardinality(@)]
     /\ \A k \in DOMAIN agg : \E e \in RowsOf(rows, "stage_enemies") : e.key = <<s, g, k[1], k[2], k[3]>>

(* Each table of a level file holds what the file has of it, and nothing else. *)
LEMMA LevelTold ==
  ASSUME NEW s, NEW g, NEW lv, NEW enemies, InsertLevel(s, g, lv, enemies).error = "none",
         DOMAIN lv.waves \subseteq Int,
         NEW rows, rows = InsertLevel(s, g, lv, enemies).rows
  PROVE  /\ TilesTold(s, g, lv, rows) /\ RoutesTold(s, g, lv, rows)
         /\ VariantsTold(s, g, lv, enemies, rows)
         /\ SpawnsTold(s, g, lv, rows) /\ TotalsTold(s, g, lv, rows)
         /\ \A v \in DOMAIN CollectVariants(lv.refs) : CollectVariants(lv.refs)[v] \in DOMAIN enemies
         /\ \A x \in RowsOf(rows, "stage_tiles") \cup RowsOf(rows, "stage_enemy_variants") : x.key[1] = s /\ x.key[2] = g
<1> DEFINE P        == Prov(s, GameData, "level", g)
           stage    == <<"stages", <<s, g>>>>
           variants == CollectVariants(lv.refs)
           waves    == BoundWaves(lv)
           agg      == Tally(waves, RouteIndices(lv))
           maps   == {Row(<<s, g>>, {stage}, P, <<>>)}
           tiles  == {Row(<<s, g, x[2] - 1, x[1] - 1>>, {stage}, P,
                          lv.defs[lv.grid[x[1]][x[2]]]) : x \in Tiles(lv)}
           lanes  == {Row(<<s, g, RouteIndex(lv, i)>>, {stage}, P,
                          ToGridFrame(lv.routes[i].start, Len(lv.grid))) : i \in DOMAIN lv.routes}
           inline == {Row(<<s, g, v>>, {stage, <<"enemies", enemies[variants[v]]>>}, P, <<>>) :
                        v \in DOMAIN variants}
           tides  == {Row(<<s, g, w - 1>>, {stage}, P, <<>>) : w \in DOMAIN lv.waves}
           spawns == UNION {{LET sp == waves[w][i] IN
                             Row(<<s, g, w - 1, i>>,
                                 EnemyLinks(s, g, enemies, sp.enemy, sp.variant, sp.route)
                                   \cup {<<"stage_waves", <<s, g, w - 1>>>>}, P, sp) :
                               i \in DOMAIN waves[w]} : w \in DOMAIN waves}
           totals == {Row(<<s, g, k[1], k[2], k[3]>>, EnemyLinks(s, g, enemies, k[1], k[3], Unset), P,
                          [agg[k] EXCEPT !.routes = Cardinality(@)]) : k \in DOMAIN agg}
           own    == [stage_maps |-> maps, stage_tiles |-> tiles, stage_routes |-> lanes,
                      stage_enemy_variants |-> inline, stage_waves |-> tides,
                      stage_spawns |-> spawns, stage_enemies |-> totals]
<1>1. rows = Proved(own, {P}) /\ \A v \in DOMAIN variants : variants[v] \in DOMAIN enemies
  BY DEF InsertLevel, Ok, Refused
<1>2. \A t : t # "record_provenance" => RowsOf(rows, t) = RowsOf(own, t)
<2> HIDE DEF own
<2> QED
  BY <1>1, RowsOfProved
<1>3. /\ RowsOf(rows, "stage_tiles") = tiles /\ RowsOf(rows, "stage_routes") = lanes
      /\ RowsOf(rows, "stage_enemy_variants") = inline /\ RowsOf(rows, "stage_spawns") = spawns
      /\ RowsOf(rows, "stage_enemies") = totals
<2> HIDE DEF maps, tiles, lanes, inline, tides, spawns, totals
<2> QED
  BY <1>2 DEF RowsOf
<1> HIDE DEF own
<1>4. TilesTold(s, g, lv, rows)
<2> SUFFICES ASSUME NEW c \in Tiles(lv)
             PROVE  \E t \in tiles : t.key = <<s, g, c[2] - 1, c[1] - 1>> /\ t.val = lv.defs[lv.grid[c[1]][c[2]]]
  BY <1>3, Zenon DEF TilesTold
<2> DEFINE t == Row(<<s, g, c[2] - 1, c[1] - 1>>, {stage}, P, lv.defs[lv.grid[c[1]][c[2]]])
<2>1. t \in tiles
  OBVIOUS
<2>2. t.key = <<s, g, c[2] - 1, c[1] - 1>> /\ t.val = lv.defs[lv.grid[c[1]][c[2]]]
  BY DEF Row
<2> HIDE DEF t, tiles
<2> QED
  BY <2>1, <2>2
<1>5. RoutesTold(s, g, lv, rows)
<2> SUFFICES ASSUME NEW r \in lanes
             PROVE  \E i \in DOMAIN lv.routes :
                      r.key = <<s, g, RouteIndex(lv, i)>> /\ r.val = ToGridFrame(lv.routes[i].start, Len(lv.grid))
  BY <1>3, Zenon DEF RoutesTold
<2>1. PICK i \in DOMAIN lv.routes : r = Row(<<s, g, RouteIndex(lv, i)>>, {stage}, P,
                                              ToGridFrame(lv.routes[i].start, Len(lv.grid)))
  OBVIOUS
<2> HIDE DEF P
<2> QED
  BY <2>1 DEF Row
<1>6. VariantsTold(s, g, lv, enemies, rows)
<2> SUFFICES ASSUME NEW v \in DOMAIN variants
             PROVE  \E x \in inline : x.key = <<s, g, v>> /\ <<"enemies", enemies[variants[v]]>> \in x.refs
  BY <1>3, Zenon DEF VariantsTold
<2> DEFINE x == Row(<<s, g, v>>, {stage, <<"enemies", enemies[variants[v]]>>}, P, <<>>)
<2>1. x \in inline
  OBVIOUS
<2>2. x.key = <<s, g, v>> /\ <<"enemies", enemies[variants[v]]>> \in x.refs
  BY DEF Row
<2> HIDE DEF x, inline
<2> QED
  BY <2>1, <2>2
<1>7. SpawnsTold(s, g, lv, rows)
<2> DEFINE Refs(w, i) == EnemyLinks(s, g, enemies, waves[w][i].enemy, waves[w][i].variant, waves[w][i].route)
                           \cup {<<"stage_waves", <<s, g, w - 1>>>>}
           Made(p) == Row(<<s, g, p[1] - 1, p[2]>>, Refs(p[1], p[2]), P, At(waves, p))
           Part(w) == {Row(<<s, g, w - 1, i>>, Refs(w, i), P, waves[w][i]) : i \in DOMAIN waves[w]}
<2>1. ASSUME NEW r \in spawns PROVE \E p \in Places(waves) : r = Made(p)
<3>1. PICK w \in DOMAIN waves :
        r \in {Row(<<s, g, w - 1, i>>, Refs(w, i), P, waves[w][i]) : i \in DOMAIN waves[w]}
  BY <2>1
<3>2. PICK i \in DOMAIN waves[w] : r = Row(<<s, g, w - 1, i>>, Refs(w, i), P, waves[w][i])
  BY <3>1
<3> DEFINE p == <<w, i>>
<3>3. p[1] = w /\ p[2] = i /\ p \in Places(waves)
  BY DEF Places
<3>4. At(waves, p) = waves[w][i]
  BY <3>3 DEF At
<3> HIDE DEF p, Refs, P
<3>5. r = Made(p)
  BY <3>2, <3>3, <3>4
<3> QED
  BY <3>3, <3>5
<2>2. ASSUME NEW p \in Places(waves) PROVE Made(p) \in spawns
<3>1. PICK w \in DOMAIN waves : p \in {w} \X DOMAIN waves[w]
  BY DEF Places
<3>2. p[1] = w /\ p[2] \in DOMAIN waves[w] /\ At(waves, p) = waves[w][p[2]]
  BY <3>1 DEF At
<3>3. Made(p) = Row(<<s, g, w - 1, p[2]>>, Refs(w, p[2]), P, waves[w][p[2]])
<4> HIDE DEF Refs, P
<4> QED
  BY <3>2
<3>4. Made(p) \in Part(w)
<4>1. Made(p) = Row(<<s, g, w - 1, p[2]>>, Refs(w, p[2]), P, waves[w][p[2]]) /\ p[2] \in DOMAIN waves[w]
  BY <3>2, <3>3
<4> HIDE DEF Made, Refs, P
<4> QED
  BY <4>1
<3>5. spawns = UNION {Part(x) : x \in DOMAIN waves}
  BY Zenon
<3> HIDE DEF Made, Part, spawns
<3> QED
  BY <3>4, <3>5
<2>3. ASSUME NEW p \in Places(waves) PROVE p = <<p[1], p[2]>> /\ p[1] \in Int
<3>1. PICK w \in DOMAIN waves : p \in {w} \X DOMAIN waves[w]
  BY DEF Places
<3>2. DOMAIN waves = DOMAIN lv.waves
  BY DEF BoundWaves
<3> QED
  BY <3>1, <3>2
<2>4. \A p : Made(p).key = <<s, g, p[1] - 1, p[2]>> /\ Made(p).val = At(waves, p)
  BY DEF Row
<2> HIDE DEF spawns, Made
<2>5. \A r, x \in spawns : r.key = x.key => r = x
<3> TAKE r, x \in spawns
<3> HAVE r.key = x.key
<3>1. PICK p \in Places(waves) : r = Made(p)
  BY <2>1
<3>2. PICK q \in Places(waves) : x = Made(q)
  BY <2>1
<3>3. <<s, g, p[1] - 1, p[2]>> = <<s, g, q[1] - 1, q[2]>>
  BY <2>4, <3>1, <3>2
<3>4. p[1] - 1 = q[1] - 1 /\ p[2] = q[2]
  BY <3>3
<3>5. p = q
  BY <2>3, <3>4
<3> QED
  BY <3>1, <3>2, <3>5
<2>6. \A r \in spawns : \E p \in Places(waves) : r.key = <<s, g, p[1] - 1, p[2]>> /\ r.val = At(waves, p)
  BY <2>1, <2>4
<2>7. \A p \in Places(waves) : \E r \in spawns : r.key = <<s, g, p[1] - 1, p[2]>> /\ r.val = At(waves, p)
  BY <2>2, <2>4
<2> QED
  BY <1>3, <2>5, <2>6, <2>7, Zenon DEF SpawnsTold
<1>8. TotalsTold(s, g, lv, rows)
<2> DEFINE Val(k)  == [agg[k] EXCEPT !.routes = Cardinality(@)]
           Made(k) == Row(<<s, g, k[1], k[2], k[3]>>, EnemyLinks(s, g, enemies, k[1], k[3], Unset), P, Val(k))
<2>1. \A k : Made(k).key = <<s, g, k[1], k[2], k[3]>> /\ Made(k).val = Val(k)
<3> HIDE DEF Val, agg, P
<3> QED
  BY DEF Row
<2>2. totals = {Made(k) : k \in DOMAIN agg}
  OBVIOUS
<2> HIDE DEF totals, Made, agg, Val
<2>3. \A e \in totals : \E k \in DOMAIN agg : e.key = <<s, g, k[1], k[2], k[3]>> /\ e.val = Val(k)
  BY <2>1, <2>2
<2>4. \A k \in DOMAIN agg : \E e \in totals : e.key = <<s, g, k[1], k[2], k[3]>>
  BY <2>1, <2>2
<2> QED
  BY <1>3, <2>3, <2>4, Zenon DEF TotalsTold, agg, Val
<1>9. \A x \in tiles \cup inline : x.key[1] = s /\ x.key[2] = g
  BY DEF Row
<1> HIDE DEF tiles, inline
<1> QED
  BY <1>1, <1>3, <1>4, <1>5, <1>6, <1>7, <1>8, <1>9, Zenon

(***************************************************************************)
(* One story of a level                                                    *)
(***************************************************************************)

(* The image of a finite set is finite. *)
LEMMA ImageFinite ==
  ASSUME NEW S, IsFiniteSet(S), NEW f
  PROVE  IsFiniteSet({f[x] : x \in S})
<1> DEFINE T == {f[x] : x \in S}
           g == [x \in S |-> f[x]]
<1>1. g \in Surjection(S, T)
  BY DEF Surjection
<1> QED
  BY <1>1, FS_Surjection

(* A list is indexed by the numbers up to its length. *)
LEMMA ListIndices ==
  ASSUME NEW q, List(q)
  PROVE  Len(q) \in Nat /\ DOMAIN q = 1..Len(q) /\ DOMAIN q \subseteq Int /\ IsFiniteSet(DOMAIN q)
<1>1. Len(q) \in Nat /\ DOMAIN q = 1..Len(q)
  BY DEF List
<1> QED
  BY <1>1, FS_Interval

(* A spawn of a level as its waves bind it: its place, and what stays of the action. *)
LEMMA PlaceTold ==
  ASSUME NEW lv, LevelFile(lv), NEW waves, waves = BoundWaves(lv), NEW p \in Places(waves)
  PROVE  /\ p = <<p[1], p[2]>> /\ p[1] \in Int /\ p[2] \in Int
         /\ p[1] \in DOMAIN lv.waves /\ p[2] \in DOMAIN lv.waves[p[1]]
         /\ At(waves, p) = Bound(NormalizeAction(lv.waves[p[1]][p[2]], lv.refs), RouteIndices(lv),
                                 DOMAIN CollectVariants(lv.refs))
<1>1. PICK w \in DOMAIN waves : p \in {w} \X DOMAIN waves[w]
  BY DEF Places
<1>2. p = <<p[1], p[2]>> /\ p[1] = w /\ p[2] \in DOMAIN waves[w]
  BY <1>1
<1>3. w \in DOMAIN lv.waves /\ DOMAIN waves[w] \subseteq DOMAIN lv.waves[w]
  BY DEF BoundWaves, Spawns
<1>4. waves[w][p[2]] = Bound(NormalizeAction(lv.waves[w][p[2]], lv.refs), RouteIndices(lv),
                             DOMAIN CollectVariants(lv.refs))
  BY <1>2 DEF BoundWaves, Spawns
<1>5. DOMAIN lv.waves \subseteq Int /\ DOMAIN lv.waves[w] \subseteq Int
  BY <1>3, ListIndices DEF LevelFile
<1> QED
  BY <1>2, <1>3, <1>4, <1>5 DEF At

(* The places of a level are finite. *)
LEMMA PlacesFinite ==
  ASSUME NEW lv, LevelFile(lv)
  PROVE  IsFiniteSet(Places(BoundWaves(lv)))
<1> DEFINE waves == BoundWaves(lv)
           f == [w \in DOMAIN waves |-> {w} \X DOMAIN waves[w]]
<1>1. Places(waves) = UNION {f[w] : w \in DOMAIN waves}
  BY DEF Places
<1>2. DOMAIN waves = DOMAIN lv.waves
  BY DEF BoundWaves
<1>3. IsFiniteSet(DOMAIN waves)
  BY <1>2, ListIndices DEF LevelFile
<1>4. ASSUME NEW w \in DOMAIN waves PROVE IsFiniteSet(f[w])
<2>1. DOMAIN waves[w] \subseteq DOMAIN lv.waves[w]
  BY DEF BoundWaves, Spawns
<2>2. IsFiniteSet(DOMAIN waves[w])
  BY <1>2, <2>1, ListIndices, FS_Subset DEF LevelFile
<2> HIDE DEF waves
<2> QED
  BY <2>2, FS_Singleton, FS_Product
<1>5. IsFiniteSet({f[w] : w \in DOMAIN waves})
<2> HIDE DEF f, waves
<2> QED
  BY <1>3, ImageFinite
<1> HIDE DEF f, waves
<1> QED
  BY <1>1, <1>4, <1>5, FS_UNION DEF waves

(* What binding keeps of an action. *)
LEMMA BoundKeeps ==
  ASSUME NEW a, NEW refs, NEW routes, NEW variants,
         NEW sp, sp = Bound(NormalizeAction(a, refs), routes, variants)
  PROVE  /\ sp.time = a.time /\ sp.count = a.count
         /\ sp.enemy = NormalizeAction(a, refs).enemy
         /\ sp.variant = IF NormalizeAction(a, refs).variant \in variants
                         THEN NormalizeAction(a, refs).variant ELSE NoText
<1> DEFINE n == NormalizeAction(a, refs)
<1>1. DOMAIN n = {"enemy", "variant", "level", "route", "time", "count"}
  BY DEF NormalizeAction
<1>2. n.time = a.time /\ n.count = a.count
  BY DEF NormalizeAction
<1> HIDE DEF n
<1>3. /\ sp.time = n.time /\ sp.count = n.count /\ sp.enemy = n.enemy
      /\ sp.variant = IF n.variant \in variants THEN n.variant ELSE NoText
  BY <1>1 DEF Bound, n
<1> QED
  BY <1>2, <1>3 DEF n

(* No route of a level lacks an index. *)
LEMMA RoutesSet ==
  ASSUME NEW lv, LevelFile(lv)
  PROVE  Unset \notin RouteIndices(lv)
<1>1. ASSUME NEW i \in DOMAIN lv.routes PROVE RouteIndex(lv, i) # Unset
<2>1. i \in Int /\ i >= 1
  BY ListIndices DEF LevelFile
<2> QED
  BY <2>1 DEF RouteIndex, Unset
<1> QED
  BY <1>1 DEF RouteIndices

(* CountAll adds the counts up. *)
LEMMA CountsAdded ==
  ASSUME NEW S, IsFiniteSet(S), \A r \in S : r.val.count \in Int,
         NEW c, c = [r \in S |-> CountOf(r.val)]
  PROVE  \E h : Summed(h, S, c) /\ CountAll(S) = h[S]
<1> DEFINE V == Int
           Some1(s) == CHOOSE x \in s : TRUE
           Cnt(x) == IF x.val.count = Unset THEN 0 ELSE x.val.count
           Body(f) == [s \in SUBSET S |-> IF s = {} THEN 0
                                          ELSE LET x == Some1(s) IN f[s \ {x}] + Cnt(x)]
           iter == CHOOSE f : f = Body(f)
           pick == [s \in SUBSET S |-> Some1(s)]
           G == [y \in S \X V |-> y[2] + c[y[1]]]
<1>1. CountAll(S) = iter[S]
  BY Zenon DEF CountAll, FoldSet, MapThenFoldSet
<1>2. \A s \in SUBSET S : s # {} => Some1(s) \in s
<2> SUFFICES ASSUME NEW s \in SUBSET S, s # {} PROVE Some1(s) \in s
  OBVIOUS
<2>1. \E x \in s : TRUE
  OBVIOUS
<2> QED
  BY <2>1, Zenon
<1> HIDE DEF Some1
<1>3. Picks(pick, S) /\ \A s \in SUBSET S : pick[s] = Some1(s)
  BY <1>2 DEF Picks
<1>4. \A r \in S : c[r] = Cnt(r) /\ c[r] \in Int
  BY DEF CountOf
<1> HIDE DEF Cnt
<1>5. G \in [S \X V -> V] /\ 0 \in V
  BY <1>4
<1>6. PICK h \in [SUBSET S -> V] : Folds(h, S, pick, G, 0)
<2> HIDE DEF G, pick, V
<2> QED
  BY <1>3, <1>5, FoldThere
<1>7. h = Body(h)
<2>1. ASSUME NEW s \in SUBSET S, s # {}
      PROVE  G[<<pick[s], h[s \ {pick[s]}]>>] = h[s \ {Some1(s)}] + Cnt(Some1(s))
<3>1. pick[s] = Some1(s) /\ pick[s] \in S /\ h[s \ {pick[s]}] \in Int
  BY <1>3, <2>1 DEF Picks
<3> HIDE DEF pick
<3> QED
  BY <1>4, <3>1
<2>2. h = [s \in SUBSET S |-> IF s = {} THEN 0 ELSE G[<<pick[s], h[s \ {pick[s]}]>>]]
  BY <1>6, Zenon DEF Folds
<2> HIDE DEF G, pick
<2> QED
  BY <2>1, <2>2
<1>8. iter = Body(iter)
<2> HIDE DEF Body
<2> QED
  BY <1>7
<1>9. /\ iter[{}] = 0
      /\ \A s \in SUBSET S : s # {} => iter[s] = iter[s \ {Some1(s)}] + Cnt(Some1(s))
<2> HIDE DEF iter
<2> QED
  BY <1>8
<1>10. \A s \in SUBSET S : s # {} => iter[s] = iter[s \ {pick[s]}] + c[pick[s]]
<2>1. SUFFICES ASSUME NEW s \in SUBSET S, s # {}
               PROVE  iter[s] = iter[s \ {pick[s]}] + c[pick[s]]
  OBVIOUS
<2>2. /\ pick[s] = Some1(s) /\ pick[s] \in S
      /\ c[pick[s]] = Cnt(pick[s])
<3>1. pick[s] = Some1(s) /\ pick[s] \in S
  BY <1>3, <2>1 DEF Picks
<3> HIDE DEF pick, Cnt
<3> QED
  BY <1>4, <3>1
<2>3. iter[s] = iter[s \ {Some1(s)}] + Cnt(Some1(s))
<3> HIDE DEF iter, Some1, Cnt
<3> QED
  BY <1>9, <2>1
<2> HIDE DEF iter, pick, Some1, Cnt
<2> QED
  BY <2>2, <2>3
<1> HIDE DEF iter, G, Body, pick, V
<1> DEFINE Bad == {s \in SUBSET S : iter[s] \notin Int}
<1>11. Bad = {}
<2>1. SUFFICES ASSUME Bad # {} PROVE FALSE
  OBVIOUS
<2>2. PICK s \in Bad : \A u \in Bad : ~(u \subseteq s /\ u # s)
<3>1. Bad \in SUBSET SUBSET S
  OBVIOUS
<3> HIDE DEF Bad
<3> QED
  BY <2>1, <3>1, LeastSubset
<2>3. s \in SUBSET S /\ iter[s] \notin Int
  OBVIOUS
<2>4. s # {}
<3>1. iter[{}] = 0 /\ 0 \in Int
  BY <1>9
<3> HIDE DEF Bad
<3> QED
  BY <2>3, <3>1, Zenon
<2>5. pick[s] \in s /\ s \ {pick[s]} \in SUBSET S /\ s \ {pick[s]} \notin Bad
  BY <1>3, <2>2, <2>3, <2>4 DEF Picks
<2>6. iter[s \ {pick[s]}] \in Int /\ c[pick[s]] \in Int
  BY <1>4, <2>3, <2>5
<2>7. iter[s] = iter[s \ {pick[s]}] + c[pick[s]]
  BY <1>10, <2>3, <2>4
<2> QED
  BY <2>3, <2>6, <2>7
<1>12. iter \in [SUBSET S -> Int]
<2>1. iter = [s \in SUBSET S |-> iter[s]]
<3> HIDE DEF iter
<3> QED
  BY <1>8 DEF Body
<2> QED
  BY <1>11, <2>1
<1>13. c \in [S -> Int]
  BY <1>4
<1>14. Summed(iter, S, c)
  BY <1>3, <1>9, <1>10, <1>12, <1>13, AnyOrder, ZenonT(30)
<1> QED
  BY <1>1, <1>14

(* The spawns a total stands for, and its figures: Tallied over given rows. *)
SpawnsIn(spawns, e) == {r \in spawns : /\ r.key[1] = e.key[1] /\ r.key[2] = e.key[2]
                                       /\ r.val.enemy = e.key[3]
                                       /\ r.val.level = e.key[4]
                                       /\ r.val.variant = e.key[5]}
TalliedIn(sps, e) ==
  /\ sps # {}
  /\ e.val.total = CountAll(sps)
  /\ e.val.routes = Cardinality(Stated({r.val.route : r \in sps}))
  /\ Spans(e.val.first, e.val.last, Stated({r.val.time : r \in sps}))

(* Each total of a level is that of its spawn rows. *)
LEMMA LevelTallies ==
  ASSUME NEW s, NEW g, NEW lv, LevelFile(lv), NEW rows,
         SpawnsTold(s, g, lv, rows), TotalsTold(s, g, lv, rows),
         NEW e \in RowsOf(rows, "stage_enemies"),
         NEW sps, sps = SpawnsIn(RowsOf(rows, "stage_spawns"), e)
  PROVE  TalliedIn(sps, e)
<1> DEFINE waves  == BoundWaves(lv)
           R      == RouteIndices(lv)
           agg    == Tally(waves, R)
           spawns == RowsOf(rows, "stage_spawns")
           Key(p) == <<s, g, p[1] - 1, p[2]>>
<1>1. PICK k \in DOMAIN agg : /\ e.key = <<s, g, k[1], k[2], k[3]>>
                              /\ e.val = [agg[k] EXCEPT !.routes = Cardinality(@)]
  BY Zenon DEF TotalsTold
<1> DEFINE t == agg[k]
           P == InBucket(waves, k)
           c == [p \in P |-> CountOf(At(waves, p))]
           d == [r \in sps |-> CountOf(r.val)]
<1>2. k \in {Bucket(At(waves, p)) : p \in Places(waves)}
  BY DEF Tally
<1>3. PICK p0 \in Places(waves) : k = Bucket(At(waves, p0))
  BY <1>2
<1>4. \A p \in P : p \in Places(waves) /\ Bucket(At(waves, p)) = k
  BY DEF InBucket
<1>5. p0 \in P
  BY <1>3 DEF InBucket
<1>6. ASSUME NEW p \in Places(waves)
      PROVE  /\ p = <<p[1], p[2]>> /\ p[1] \in Int /\ p[2] \in Int
             /\ At(waves, p).time \in Int /\ At(waves, p).count \in Int
             /\ At(waves, p).route = Unset \/ At(waves, p).route \in R
<2> DEFINE a  == lv.waves[p[1]][p[2]]
           sp == At(waves, p)
<2>1. /\ p = <<p[1], p[2]>> /\ p[1] \in Int /\ p[2] \in Int
      /\ p[1] \in DOMAIN lv.waves /\ p[2] \in DOMAIN lv.waves[p[1]]
      /\ sp = Bound(NormalizeAction(a, lv.refs), R, DOMAIN CollectVariants(lv.refs))
  BY PlaceTold
<2>2. a.time \in Int /\ a.count \in Int
  BY <2>1 DEF LevelFile
<2> HIDE DEF a, sp, R, waves
<2> QED
  BY <2>1, <2>2, BoundKeeps, BoundNames DEF sp
<1>7. IsFiniteSet(P)
  BY PlacesFinite, FS_Subset DEF InBucket
<1>8. /\ \A r \in spawns : \E p \in Places(waves) : r.key = Key(p) /\ r.val = At(waves, p)
      /\ \A p \in Places(waves) : \E r \in spawns : r.key = Key(p) /\ r.val = At(waves, p)
      /\ \A r, x \in spawns : r.key = x.key => r = x
  BY Zenon DEF SpawnsTold
<1> HIDE DEF waves, R, agg, spawns, P, c, d
<1> DEFINE f == [p \in P |-> CHOOSE r \in spawns : r.key = Key(p) /\ r.val = At(waves, p)]
<1>9. ASSUME NEW p \in P PROVE f[p] \in spawns /\ f[p].key = Key(p) /\ f[p].val = At(waves, p)
  BY <1>4, <1>8
<1>10. \A p \in P : f[p] \in sps
<2> TAKE p \in P
<2>1. f[p] \in spawns /\ f[p].key = Key(p) /\ f[p].val = At(waves, p) /\ Bucket(At(waves, p)) = k
  BY <1>4, <1>9
<2> HIDE DEF f
<2> QED
  BY <1>1, <2>1 DEF SpawnsIn, Bucket, spawns
<1>11. \A r \in sps : \E p \in P : r = f[p]
<2> TAKE r \in sps
<2>1. r \in spawns /\ r.val.enemy = e.key[3] /\ r.val.level = e.key[4] /\ r.val.variant = e.key[5]
  BY DEF SpawnsIn, spawns
<2>2. PICK p \in Places(waves) : r.key = Key(p) /\ r.val = At(waves, p)
  BY <1>8, <2>1
<2>3. Bucket(At(waves, p)) = <<k[1], k[2], k[3]>>
  BY <1>1, <2>1, <2>2 DEF Bucket
<2>4. k = <<k[1], k[2], k[3]>>
  BY <1>3 DEF Bucket
<2>5. p \in P
  BY <2>3, <2>4 DEF InBucket, P
<2> HIDE DEF f, P, spawns
<2>6. f[p] \in spawns /\ f[p].key = r.key
  BY <1>9, <2>2, <2>5
<2>7. r = f[p]
  BY <1>8, <2>1, <2>6, Zenon
<2> QED
  BY <2>5, <2>7
<1>12. \A p, q \in P : f[p] = f[q] => p = q
<2> TAKE p, q \in P
<2> HAVE f[p] = f[q]
<2>1. Key(p) = Key(q)
  BY <1>9
<2>2. p[1] - 1 = q[1] - 1 /\ p[2] = q[2]
  BY <2>1
<2>3. p \in Places(waves) /\ q \in Places(waves)
  BY <1>4
<2>4. p = <<p[1], p[2]>> /\ q = <<q[1], q[2]>> /\ p[1] \in Int /\ q[1] \in Int
  BY <1>6, <2>3
<2> QED
  BY <2>2, <2>4
<1>13. f \in [P -> sps] /\ sps = {f[p] : p \in P} /\ f = [p \in P |-> f[p]]
<2>1. f = [p \in P |-> f[p]]
  OBVIOUS
<2> HIDE DEF f
<2>2. f \in [P -> sps]
  BY <1>10, <2>1, Zenon
<2>3. sps = {f[p] : p \in P}
  BY <1>10, <1>11, Zenon
<2> QED
  BY <2>1, <2>2, <2>3, Zenon
<1>14. \A p \in P : f[p].val = At(waves, p)
  BY <1>9
<1> HIDE DEF f
<1>15. IsFiniteSet(sps)
  BY <1>7, <1>13, ImageFinite
<1>16. \A r \in sps : \E p \in P : r = f[p] /\ r.val = At(waves, p) /\ r.val.count \in Int
  BY <1>4, <1>6, <1>11, <1>14
<1>17. /\ {r.val.route : r \in sps} = {At(waves, p).route : p \in P}
       /\ {r.val.time : r \in sps} = {At(waves, p).time : p \in P}
  BY <1>10, <1>14, <1>16
<1>18. /\ \E h : Summed(h, P, c) /\ t.total = h[P]
       /\ t.routes = {At(waves, p).route : p \in P} \cap R
       /\ Spans(t.first, t.last, TimesAt(waves, P))
       /\ DOMAIN t = {"total", "first", "last", "routes"}
<2>1. \A p \in P : p[1] \in Int /\ p[2] \in Int /\ At(waves, p).time \in Int /\ At(waves, p).count \in Int
  BY <1>4, <1>6
<2>2. /\ P = InBucket(waves, k) /\ c = [p \in P |-> CountOf(At(waves, p))]
      /\ k \in DOMAIN Tally(waves, R) /\ t = Tally(waves, R)[k]
  BY DEF P, c, agg
<2> HIDE DEF t
<2> QED
  BY <1>7, <2>1, <2>2, TallyTells
<1>19. \E h : Summed(h, sps, d) /\ CountAll(sps) = h[sps]
<2>1. \A r \in sps : r.val.count \in Int
  BY <1>16
<2> QED
  BY <1>15, <2>1, CountsAdded DEF d
<1>20. t.total = CountAll(sps)
<2>1. PICK h : Summed(h, P, c) /\ t.total = h[P]
  BY <1>18
<2>2. PICK j : Summed(j, sps, d) /\ CountAll(sps) = j[sps]
  BY <1>19
<2>3. \A p \in P : d[f[p]] = c[p]
  BY <1>10, <1>14 DEF c, d
<2>4. h[P] = j[sps]
<3> HIDE DEF t
<3> QED
  BY <1>7, <1>12, <1>13, <2>1, <2>2, <2>3, SameSum
<2> QED
  BY <2>1, <2>2, <2>4
<1>21. t.routes = Stated({r.val.route : r \in sps})
<2>1. Unset \notin R
  BY RoutesSet DEF R
<2>2. \A p \in P : At(waves, p).route = Unset \/ At(waves, p).route \in R
  BY <1>4, <1>6
<2> QED
  BY <1>17, <1>18, <2>1, <2>2, ZenonT(30) DEF Stated
<1>22. TimesAt(waves, P) = Stated({r.val.time : r \in sps})
  BY <1>17 DEF TimesAt, Stated
<1>23. e.val.total = t.total /\ e.val.first = t.first /\ e.val.last = t.last /\ e.val.routes = Cardinality(t.routes)
<2> HIDE DEF t
<2> QED
  BY <1>1, <1>18 DEF t
<1>24. sps # {}
  BY <1>5, <1>10
<1> HIDE DEF t
<1> QED
  BY <1>18, <1>20, <1>21, <1>22, <1>23, <1>24 DEF TalliedIn

(* Counted, Linked and OnBoard over given rows and one level file. *)
CountedIn(totals, r) ==
  \E e \in totals : e.key = <<r.key[1], r.key[2], r.val.enemy, r.val.level, r.val.variant>>
LinkedIn(inline, r, lv) ==
  LET v == lv.waves[r.key[3] + 1][r.key[4]].key
  IN /\ r.val.variant # NoText =>
          \E x \in inline : /\ x.key = <<r.key[1], r.key[2], r.val.variant>>
                            /\ <<"enemies", <<r.key[1], r.val.enemy>>>> \in x.refs
     /\ r.val.enemy # v => r.val.variant = v
BoardIn(tiles, r, lv) ==
  LET rows == Reverse(lv.grid)
  IN \E i \in DOMAIN lv.routes :
       /\ RouteIndex(lv, i) = r.key[3]
       /\ LET row == lv.routes[i].start[1] + 1
              col == lv.routes[i].start[2] + 1
          IN row \in DOMAIN rows /\ col \in 1..Len(lv.grid[1]) /\ rows[row][col] \in DOMAIN lv.defs =>
               \E t \in tiles :
                 t.key = <<r.key[1], r.key[2], r.val[2], r.val[1]>> /\ t.val = lv.defs[rows[row][col]]

(* Each spawn of a level is counted in a total. *)
LEMMA LevelCounts ==
  ASSUME NEW s, NEW g, NEW lv, NEW rows, SpawnsTold(s, g, lv, rows), TotalsTold(s, g, lv, rows),
         NEW r \in RowsOf(rows, "stage_spawns")
  PROVE  CountedIn(RowsOf(rows, "stage_enemies"), r)
<1> DEFINE waves == BoundWaves(lv)
           agg   == Tally(waves, RouteIndices(lv))
<1>1. PICK p \in Places(waves) : r.key = <<s, g, p[1] - 1, p[2]>> /\ r.val = At(waves, p)
  BY Zenon DEF SpawnsTold
<1> DEFINE k == Bucket(At(waves, p))
<1>2. k \in DOMAIN agg
<2> HIDE DEF waves
<2> QED
  BY DEF Tally
<1>3. \E e \in RowsOf(rows, "stage_enemies") : e.key = <<s, g, k[1], k[2], k[3]>>
<2> HIDE DEF k
<2> QED
  BY <1>2, Zenon DEF TotalsTold
<1>4. k = <<r.val.enemy, r.val.level, r.val.variant>> /\ r.key[1] = s /\ r.key[2] = g
  BY <1>1 DEF Bucket
<1> HIDE DEF k
<1>5. \E e \in RowsOf(rows, "stage_enemies") : e.key = <<s, g, r.val.enemy, r.val.level, r.val.variant>>
  BY <1>3, <1>4
<1> QED
  BY <1>4, <1>5 DEF CountedIn

(* Of some places of a list one is the last. *)
LEMMA LastPlace ==
  ASSUME NEW q, List(q), NEW T \in SUBSET DOMAIN q, T # {}
  PROVE  \E i \in T : \A j \in T : j <= i
<1> DEFINE n == Len(q)
           U == {n - i : i \in T}
<1>1. n \in Nat /\ \A i \in T : i \in 1..n
  BY ListIndices
<1> HIDE DEF n
<1>2. U \in SUBSET Nat /\ U # {}
  BY <1>1
<1>3. PICK m \in U : \A x \in U : m <= x
<2> HIDE DEF U
<2> QED
  BY <1>2, LeastNat
<1>4. PICK i \in T : m = n - i
  OBVIOUS
<1>5. ASSUME NEW j \in T PROVE j <= i
<2>1. n - j \in U /\ j \in Int /\ i \in Int
  BY <1>1
<2>2. m <= n - j
  BY <1>3, <2>1
<2> QED
  BY <1>1, <1>4, <2>1, <2>2
<1> QED
  BY <1>5

(* An action that names an inline variant gets the variant's base enemy, and
   what the level collects of the variant is that base. *)
LEMMA VariantRead ==
  ASSUME NEW refs, List(refs), NEW a, NEW n, n = NormalizeAction(a, refs),
         NEW variants, variants = CollectVariants(refs)
  PROVE  /\ n.variant # NoText =>
              n.variant = a.key /\ a.key \in DOMAIN variants /\ n.enemy = variants[a.key]
         /\ n.enemy # a.key => n.variant = a.key /\ a.key \in DOMAIN variants
<1> DEFINE map == EnemyRefMap(refs)
<1>1. CASE a.key \notin DOMAIN map
<2>1. n.enemy = a.key /\ n.variant = NoText
  BY <1>1 DEF NormalizeAction
<2> QED
  BY <2>1
<1>2. CASE a.key \in DOMAIN map
<2> DEFINE id   == a.key
           all  == {i \in DOMAIN refs : refs[i].id = id}
           last == CHOOSE i \in DOMAIN refs : refs[i].id = id
                     /\ \A j \in DOMAIN refs : refs[j].id = id => j <= i
           own  == {i \in DOMAIN refs : refs[i].id = id /\ Inline(refs[i])}
           late == CHOOSE i \in own : \A j \in own : j <= i
<2>1. all # {} /\ DOMAIN map = {refs[i].id : i \in DOMAIN refs}
  BY <1>2 DEF EnemyRefMap
<2>2. last \in DOMAIN refs /\ refs[last].id = id /\ \A j \in all : j <= last
<3>1. \E i \in all : \A j \in all : j <= i
  BY <2>1, LastPlace
<3>2. \E i \in DOMAIN refs : refs[i].id = id /\ \A j \in DOMAIN refs : refs[j].id = id => j <= i
  BY <3>1
<3>3. last \in DOMAIN refs /\ refs[last].id = id /\ \A j \in DOMAIN refs : refs[j].id = id => j <= last
  BY <3>2, Zenon
<3> HIDE DEF last
<3> QED
  BY <3>3
<2>3. map[id] = [enemy   |-> IF Inline(refs[last]) THEN refs[last].prefab ELSE id,
                 variant |-> IF Inline(refs[last]) THEN id ELSE NoText,
                 level   |-> refs[last].level]
  BY <1>2, Zenon DEF EnemyRefMap
<2> HIDE DEF last
<2>4. /\ n.enemy = IF Inline(refs[last]) THEN refs[last].prefab ELSE id
      /\ n.variant = IF Inline(refs[last]) THEN id ELSE NoText
<3>1. n.enemy = map[id].enemy /\ n.variant = map[id].variant
<4> HIDE DEF map
<4> QED
  BY <1>2 DEF NormalizeAction, map
<3> HIDE DEF map
<3> QED
  BY <2>3, <3>1
<2>5. CASE ~Inline(refs[last])
  BY <2>4, <2>5
<2>6. CASE Inline(refs[last])
<3>1. last \in own /\ own \subseteq all
  BY <2>2, <2>6
<3>2. id \in DOMAIN variants
  BY <2>2, <2>6 DEF CollectVariants
<3>3. variants[id] = refs[late].prefab
  BY <3>2, Zenon DEF CollectVariants
<3>4. late \in own /\ \A j \in own : j <= late
<4>1. \E i \in own : \A j \in own : j <= i
  BY <2>2, <3>1
<4> HIDE DEF own
<4> QED
  BY <4>1, Zenon
<3> HIDE DEF late
<3>5. late = last
<4>1. late <= last /\ last <= late
  BY <2>2, <3>1, <3>4
<4>2. late \in Int /\ last \in Int
  BY <2>2, <3>4, ListIndices
<4> QED
  BY <4>1, <4>2
<3> QED
  BY <2>4, <2>6, <3>2, <3>3, <3>5
<2> QED
  BY <2>5, <2>6
<1> QED
  BY <1>1, <1>2

(* Each spawn of a level names its inline variant, whose row has its enemy. *)
LEMMA LevelLinks ==
  ASSUME NEW s, NEW g, NEW lv, LevelFile(lv), NEW enemies, NEW rows,
         \A e \in DOMAIN enemies : enemies[e] = <<s, e>>,
         \A v \in DOMAIN CollectVariants(lv.refs) : CollectVariants(lv.refs)[v] \in DOMAIN enemies,
         SpawnsTold(s, g, lv, rows), VariantsTold(s, g, lv, enemies, rows),
         NEW r \in RowsOf(rows, "stage_spawns")
  PROVE  LinkedIn(RowsOf(rows, "stage_enemy_variants"), r, lv)
<1> DEFINE waves    == BoundWaves(lv)
           variants == CollectVariants(lv.refs)
           inline   == RowsOf(rows, "stage_enemy_variants")
<1>1. PICK p \in Places(waves) : r.key = <<s, g, p[1] - 1, p[2]>> /\ r.val = At(waves, p)
  BY Zenon DEF SpawnsTold
<1> DEFINE a == lv.waves[p[1]][p[2]]
           n == NormalizeAction(a, lv.refs)
<1>2. /\ p[1] \in Int
      /\ r.val = Bound(n, RouteIndices(lv), DOMAIN variants)
<2> HIDE DEF waves
<2> QED
  BY <1>1, PlaceTold DEF waves
<1>3. r.key[1] = s /\ r.key[2] = g /\ lv.waves[r.key[3] + 1][r.key[4]] = a
  BY <1>1, <1>2
<1>4. /\ r.val.enemy = n.enemy
      /\ r.val.variant = IF n.variant \in DOMAIN variants THEN n.variant ELSE NoText
<2> HIDE DEF a, variants
<2> QED
  BY <1>2, BoundKeeps
<1>5. /\ n.variant # NoText => n.variant = a.key /\ a.key \in DOMAIN variants /\ n.enemy = variants[a.key]
      /\ n.enemy # a.key => n.variant = a.key /\ a.key \in DOMAIN variants
<2>1. List(lv.refs)
  BY DEF LevelFile
<2> QED
  BY <2>1, VariantRead
<1>6. \A v \in DOMAIN variants : \E x \in inline : x.key = <<s, g, v>> /\ <<"enemies", enemies[variants[v]]>> \in x.refs
  BY Zenon DEF VariantsTold
<1>7. \A v \in DOMAIN variants : enemies[variants[v]] = <<s, variants[v]>>
  OBVIOUS
<1> HIDE DEF n, a, variants, inline
<1>8. r.val.variant # NoText =>
        \E x \in inline : x.key = <<s, g, r.val.variant>> /\ <<"enemies", <<s, r.val.enemy>>>> \in x.refs
<2> SUFFICES ASSUME r.val.variant # NoText
             PROVE  \E x \in inline : x.key = <<s, g, r.val.variant>> /\ <<"enemies", <<s, r.val.enemy>>>> \in x.refs
  OBVIOUS
<2>1. r.val.variant = a.key /\ a.key \in DOMAIN variants /\ r.val.enemy = variants[a.key]
  BY <1>4, <1>5
<2>2. PICK x \in inline : x.key = <<s, g, a.key>> /\ <<"enemies", enemies[variants[a.key]]>> \in x.refs
  BY <1>6, <2>1
<2> QED
  BY <1>7, <2>1, <2>2
<1>9. r.val.enemy # a.key => r.val.variant = a.key
  BY <1>4, <1>5
<1> QED
  BY <1>3, <1>8, <1>9 DEF LinkedIn, inline

(* Each route of a level starts on the tile the file has there. *)
LEMMA LevelBoards ==
  ASSUME NEW s, NEW g, NEW lv, LevelFile(lv), NEW rows, TilesTold(s, g, lv, rows), RoutesTold(s, g, lv, rows),
         NEW r \in RowsOf(rows, "stage_routes")
  PROVE  BoardIn(RowsOf(rows, "stage_tiles"), r, lv)
<1> DEFINE tiles == RowsOf(rows, "stage_tiles")
           n     == Len(lv.grid)
           up    == Reverse(lv.grid)
<1>1. PICK i \in DOMAIN lv.routes :
        r.key = <<s, g, RouteIndex(lv, i)>> /\ r.val = ToGridFrame(lv.routes[i].start, n)
  BY Zenon DEF RoutesTold
<1> DEFINE row == lv.routes[i].start[1] + 1
           col == lv.routes[i].start[2] + 1
           at1 == n - row + 1
<1>2. lv.routes[i].start[1] \in Int /\ lv.routes[i].start[2] \in Int /\ List(lv.grid)
  BY DEF LevelFile
<1>3. n \in Nat /\ DOMAIN lv.grid = 1..n
  BY <1>2, ListIndices
<1> HIDE DEF n
<1>4. r.val[1] = at1 - 1 /\ r.val[2] = col - 1 /\ r.key[1] = s /\ r.key[2] = g /\ r.key[3] = RouteIndex(lv, i)
<2> DEFINE start == lv.routes[i].start
           y == start[1]
           x == start[2]
<2>1. r.val = <<n - 1 - y, x>> /\ y \in Int /\ x \in Int
  BY <1>1, <1>2 DEF ToGridFrame
<2>2. r.val[1] = n - 1 - y /\ r.val[2] = x
  BY <2>1
<2>3. at1 = n - (y + 1) + 1 /\ col = x + 1
  OBVIOUS
<2> HIDE DEF y, x, start, at1, col
<2>4. r.val[1] = at1 - 1 /\ r.val[2] = col - 1
  BY <1>3, <2>1, <2>2, <2>3
<2>5. r.key[1] = s /\ r.key[2] = g /\ r.key[3] = RouteIndex(lv, i)
  BY <1>1
<2> QED
  BY <2>4, <2>5
<1>5. DOMAIN up = 1..n /\ \A x \in 1..n : up[x] = lv.grid[n - x + 1]
  BY <1>3 DEF Reverse, n
<1> HIDE DEF up
<1>6. ASSUME row \in DOMAIN up, col \in 1..Len(lv.grid[1]), up[row][col] \in DOMAIN lv.defs
      PROVE  \E t \in tiles : t.key = <<s, g, r.val[2], r.val[1]>> /\ t.val = lv.defs[up[row][col]]
<2> DEFINE c == <<at1, col>>
<2>1. at1 \in 1..n /\ up[row] = lv.grid[at1]
<3>1. at1 = n - row + 1 /\ row \in 1..n
  BY <1>5, <1>6
<3> HIDE DEF at1, row
<3> QED
  BY <1>3, <1>5, <3>1
<2> HIDE DEF at1, col, row
<2>2. c \in Tiles(lv)
  BY <1>6, <2>1 DEF Tiles, n
<2>3. PICK t \in tiles : t.key = <<s, g, c[2] - 1, c[1] - 1>> /\ t.val = lv.defs[lv.grid[c[1]][c[2]]]
<3> HIDE DEF c
<3> QED
  BY <2>2, Zenon DEF TilesTold
<2>4. c[1] = at1 /\ c[2] = col
  OBVIOUS
<2> HIDE DEF c
<2> QED
  BY <1>4, <2>1, <2>3, <2>4
<1> HIDE DEF tiles
<1> QED
  BY <1>4, <1>6, Zenon DEF BoardIn, tiles, up

(* The keys of the enemies of a server, by game id. *)
Keyed(enemies, s) == \A e \in DOMAIN enemies : enemies[e] = <<s, e>>
(* Rows of the level tables, all of one stage, of one story. *)
OneStory(rows, s, g, lv) ==
  /\ \A t \in LevelTables : \A x \in RowsOf(rows, t) : x.key[1] = s /\ x.key[2] = g
  /\ \A e \in RowsOf(rows, "stage_enemies") : TalliedIn(SpawnsIn(RowsOf(rows, "stage_spawns"), e), e)
  /\ \A r \in RowsOf(rows, "stage_spawns") : CountedIn(RowsOf(rows, "stage_enemies"), r)
                                             /\ LinkedIn(RowsOf(rows, "stage_enemy_variants"), r, lv)
  /\ \A r \in RowsOf(rows, "stage_routes") : BoardIn(RowsOf(rows, "stage_tiles"), r, lv)

(* What one level file tells. *)
LEMMA LevelTells ==
  ASSUME NEW s, NEW g, NEW lv, LevelFile(lv), NEW enemies, Keyed(enemies, s),
         InsertLevel(s, g, lv, enemies).error = "none",
         NEW rows, rows = InsertLevel(s, g, lv, enemies).rows
  PROVE  OneStory(rows, s, g, lv)
<1>1. /\ TilesTold(s, g, lv, rows) /\ RoutesTold(s, g, lv, rows)
      /\ VariantsTold(s, g, lv, enemies, rows)
      /\ SpawnsTold(s, g, lv, rows) /\ TotalsTold(s, g, lv, rows)
      /\ \A v \in DOMAIN CollectVariants(lv.refs) : CollectVariants(lv.refs)[v] \in DOMAIN enemies
      /\ \A x \in RowsOf(rows, "stage_tiles") \cup RowsOf(rows, "stage_enemy_variants") : x.key[1] = s /\ x.key[2] = g
<2>1. DOMAIN lv.waves \subseteq Int
  BY ListIndices DEF LevelFile
<2> QED
  BY <2>1, LevelTold
<1>2. ASSUME NEW x \in RowsOf(rows, "stage_spawns") PROVE x.key[1] = s /\ x.key[2] = g
<2>1. PICK p : x.key = <<s, g, p[1] - 1, p[2]>>
  BY <1>1, Zenon DEF SpawnsTold
<2> QED
  BY <2>1
<1>3. ASSUME NEW x \in RowsOf(rows, "stage_routes") PROVE x.key[1] = s /\ x.key[2] = g
<2>1. PICK i : x.key = <<s, g, RouteIndex(lv, i)>>
  BY <1>1, Zenon DEF RoutesTold
<2> QED
  BY <2>1
<1>4. ASSUME NEW x \in RowsOf(rows, "stage_enemies") PROVE x.key[1] = s /\ x.key[2] = g
<2>1. PICK k : x.key = <<s, g, k[1], k[2], k[3]>>
  BY <1>1, Zenon DEF TotalsTold
<2> QED
  BY <2>1
<1>5. \A t \in LevelTables : \A x \in RowsOf(rows, t) : x.key[1] = s /\ x.key[2] = g
  BY <1>1, <1>2, <1>3, <1>4 DEF LevelTables
<1>6. \A e \in RowsOf(rows, "stage_enemies") : TalliedIn(SpawnsIn(RowsOf(rows, "stage_spawns"), e), e)
  BY <1>1, LevelTallies
<1>7. \A r \in RowsOf(rows, "stage_spawns") : CountedIn(RowsOf(rows, "stage_enemies"), r)
  BY <1>1, LevelCounts
<1>8. \A r \in RowsOf(rows, "stage_spawns") : LinkedIn(RowsOf(rows, "stage_enemy_variants"), r, lv)
  BY <1>1, LevelLinks DEF Keyed
<1>9. \A r \in RowsOf(rows, "stage_routes") : BoardIn(RowsOf(rows, "stage_tiles"), r, lv)
  BY <1>1, LevelBoards
<1> QED
  BY <1>5, <1>6, <1>7, <1>8, <1>9 DEF OneStory

(* More rows of a kind spoil neither a count, nor a link, nor a board. *)
LEMMA TellsMore ==
  ASSUME NEW few, NEW many, few \subseteq many, NEW r, NEW lv
  PROVE  /\ CountedIn(few, r) => CountedIn(many, r)
         /\ LinkedIn(few, r, lv) => LinkedIn(many, r, lv)
         /\ BoardIn(few, r, lv) => BoardIn(many, r, lv)
<1>1. CountedIn(few, r) => CountedIn(many, r)
  BY DEF CountedIn
<1>2. LinkedIn(few, r, lv) => LinkedIn(many, r, lv)
  BY DEF LinkedIn
<1>3. BoardIn(few, r, lv) => BoardIn(many, r, lv)
<2> DEFINE rows == Reverse(lv.grid)
           Kept1(i) ==
             LET row == lv.routes[i].start[1] + 1
                 col == lv.routes[i].start[2] + 1
             IN row \in DOMAIN rows /\ col \in 1..Len(lv.grid[1]) /\ rows[row][col] \in DOMAIN lv.defs
           Key == <<r.key[1], r.key[2], r.val[2], r.val[1]>>
           Val(i) == lv.defs[rows[lv.routes[i].start[1] + 1][lv.routes[i].start[2] + 1]]
<2>1. \A tiles : BoardIn(tiles, r, lv)
        = (\E i \in DOMAIN lv.routes : RouteIndex(lv, i) = r.key[3]
             /\ (Kept1(i) => \E t \in tiles : t.key = Key /\ t.val = Val(i)))
  BY Zenon DEF BoardIn
<2> HIDE DEF rows, Kept1, Key, Val
<2> QED
  BY <2>1
<1> QED
  BY <1>1, <1>2, <1>3

(* The file of a row's stage. *)
LevelOfRow(r, raw) == raw.files[LevelPath(raw.stages[r.key[2]])]

(* import_stages: the rows of each stage's file tell one story. *)
LEMMA StagesTell ==
  ASSUME NEW s, NEW raw, NEW b, ImportStages(s, raw, b).error = "none",
         NEW rows, rows = ImportStages(s, raw, b).rows,
         raw.shape \in {"absent", "corrupt", "foreign", "ok"},
         raw.shape = "ok" => \A f \in DOMAIN raw.files : LevelFile(raw.files[f]),
         \A x \in b["enemies"] : x.key = <<x.key[1], x.key[2]>>
  PROVE  /\ \A t \in LevelTables : \A x \in RowsOf(rows, t) : x.key[1] = s
         /\ \A e \in RowsOf(rows, "stage_enemies") : TalliedIn(SpawnsIn(RowsOf(rows, "stage_spawns"), e), e)
         /\ \A r \in RowsOf(rows, "stage_spawns") :
              /\ CountedIn(RowsOf(rows, "stage_enemies"), r)
              /\ LinkedIn(RowsOf(rows, "stage_enemy_variants"), r, LevelOfRow(r, raw))
         /\ \A r \in RowsOf(rows, "stage_routes") : BoardIn(RowsOf(rows, "stage_tiles"), r, LevelOfRow(r, raw))
<1> DEFINE enemies == PkByGameId(b["enemies"], s)
           titles  == IF raw.activity.shape = "absent" THEN <<>>
                      ELSE ParseActivityTitles(raw.activity)
           file(g)  == raw.files[LevelPath(raw.stages[g])]
           level(g) == InsertLevel(s, g, file(g), enemies)
           levels  == {level(g) : g \in Present(raw)}
           parts   == {ZoneRows(s, raw, titles), StageRows(s, raw)} \cup {l.rows : l \in levels}
           Of(g, t) == RowsOf(level(g).rows, t)
<1>1. /\ rows = JoinAll(parts) /\ \A l \in levels : l.error = "none"
      /\ raw.shape = "ok"
  BY DEF ImportStages, Ok, Refused, Torn
<1>2. \A t \in LevelTables : RowsOf(ZoneRows(s, raw, titles), t) = {} /\ RowsOf(StageRows(s, raw), t) = {}
<2>1. PICK zones, prov : ZoneRows(s, raw, titles) = Proved([zones |-> zones], prov)
  BY DEF ZoneRows
<2>2. PICK stages, prov2 : StageRows(s, raw) = Proved([stages |-> stages], prov2)
  BY DEF StageRows
<2>3. "record_provenance" \notin LevelTables /\ "zones" \notin LevelTables /\ "stages" \notin LevelTables
  BY DEF LevelTables
<2>4. \A t \in LevelTables : RowsOf([zones |-> zones], t) = {} /\ RowsOf([stages |-> stages], t) = {}
  BY <2>3 DEF RowsOf
<2> HIDE DEF titles
<2> QED
  BY <2>1, <2>2, <2>3, <2>4, RowsOfProved
<1>3. \A t \in LevelTables : \A x : x \in RowsOf(rows, t) <=> \E g \in Present(raw) : x \in Of(g, t)
<2>1. \A t : RowsOf(rows, t) = UNION {RowsOf(p, t) : p \in parts}
  BY <1>1, RowsOfAll, Zenon
<2> HIDE DEF level, titles
<2> QED
  BY <1>2, <2>1
<1>4. Keyed(enemies, s)
<2> SUFFICES \A e \in DOMAIN enemies : enemies[e] = <<s, e>>
  BY DEF Keyed
<2> TAKE e \in DOMAIN enemies
<2> DEFINE own == {r \in b["enemies"] : r.key[1] = s}
           x == CHOOSE r \in own : r.key[2] = e
<2>1. enemies[e] = x.key /\ \E r \in own : r.key[2] = e
  BY DEF PkByGameId
<2>2. x \in own /\ x.key[2] = e
  BY <2>1, Zenon
<2> HIDE DEF x
<2> QED
  BY <2>1, <2>2
<1>5. ASSUME NEW g \in Present(raw)
      PROVE  /\ \A t \in LevelTables : \A x \in Of(g, t) : x.key[1] = s /\ x.key[2] = g
             /\ \A e \in Of(g, "stage_enemies") : TalliedIn(SpawnsIn(Of(g, "stage_spawns"), e), e)
             /\ \A r \in Of(g, "stage_spawns") : CountedIn(Of(g, "stage_enemies"), r)
                                                 /\ LinkedIn(Of(g, "stage_enemy_variants"), r, file(g))
             /\ \A r \in Of(g, "stage_routes") : BoardIn(Of(g, "stage_tiles"), r, file(g))
<2> DEFINE lv == file(g)
           rs == level(g).rows
<2>1. LevelFile(lv)
  BY <1>1 DEF Present
<2>2. InsertLevel(s, g, lv, enemies).error = "none"
  BY <1>1
<2> HIDE DEF enemies
<2>3. rs = InsertLevel(s, g, lv, enemies).rows /\ \A t : Of(g, t) = RowsOf(rs, t)
  OBVIOUS
<2> HIDE DEF lv, rs, Of
<2>4. OneStory(rs, s, g, lv)
  BY <1>4, <2>1, <2>2, <2>3, LevelTells
<2> QED
  BY <2>3, <2>4 DEF lv, OneStory
<1> HIDE DEF enemies, titles, level, levels, parts, Of
<1>6. \A g \in Present(raw) : \A t \in LevelTables : Of(g, t) \subseteq RowsOf(rows, t)
  BY <1>3
<1>7. LevelTables = {"stage_tiles", "stage_routes", "stage_enemy_variants", "stage_spawns", "stage_enemies"}
  BY DEF LevelTables
<1>8. ASSUME NEW t \in LevelTables, NEW x \in RowsOf(rows, t)
      PROVE  x.key[2] \in Present(raw) /\ x \in Of(x.key[2], t) /\ LevelOfRow(x, raw) = file(x.key[2])
<2>1. PICK g \in Present(raw) : x \in Of(g, t)
  BY <1>3
<2>2. x.key[2] = g
  BY <1>5, <2>1
<2> QED
  BY <2>1, <2>2 DEF LevelOfRow
<1>9. ASSUME NEW e \in RowsOf(rows, "stage_enemies")
      PROVE  TalliedIn(SpawnsIn(RowsOf(rows, "stage_spawns"), e), e)
<2> DEFINE g == e.key[2]
<2>1. g \in Present(raw) /\ e \in Of(g, "stage_enemies")
  BY <1>7, <1>8
<2>2. ASSUME NEW r, r \in RowsOf(rows, "stage_spawns"), r.key[2] = g PROVE r \in Of(g, "stage_spawns")
  BY <1>7, <1>8, <2>2
<2>3. Of(g, "stage_spawns") \subseteq RowsOf(rows, "stage_spawns")
  BY <1>6, <1>7, <2>1
<2>4. SpawnsIn(RowsOf(rows, "stage_spawns"), e) = SpawnsIn(Of(g, "stage_spawns"), e)
  BY <2>2, <2>3 DEF SpawnsIn
<2>5. TalliedIn(SpawnsIn(Of(g, "stage_spawns"), e), e)
  BY <1>5, <2>1
<2> QED
  BY <2>4, <2>5
<1>10. ASSUME NEW r \in RowsOf(rows, "stage_spawns")
       PROVE  /\ CountedIn(RowsOf(rows, "stage_enemies"), r)
              /\ LinkedIn(RowsOf(rows, "stage_enemy_variants"), r, LevelOfRow(r, raw))
<2> DEFINE g == r.key[2]
<2>1. g \in Present(raw) /\ r \in Of(g, "stage_spawns") /\ LevelOfRow(r, raw) = file(g)
  BY <1>7, <1>8
<2>2. CountedIn(Of(g, "stage_enemies"), r) /\ LinkedIn(Of(g, "stage_enemy_variants"), r, file(g))
  BY <1>5, <2>1
<2>3. /\ Of(g, "stage_enemies") \subseteq RowsOf(rows, "stage_enemies")
      /\ Of(g, "stage_enemy_variants") \subseteq RowsOf(rows, "stage_enemy_variants")
  BY <1>6, <1>7, <2>1
<2> HIDE DEF g, file
<2> QED
  BY <2>1, <2>2, <2>3, TellsMore
<1>11. ASSUME NEW r \in RowsOf(rows, "stage_routes")
       PROVE  BoardIn(RowsOf(rows, "stage_tiles"), r, LevelOfRow(r, raw))
<2> DEFINE g == r.key[2]
<2>1. g \in Present(raw) /\ r \in Of(g, "stage_routes") /\ LevelOfRow(r, raw) = file(g)
  BY <1>7, <1>8
<2>2. BoardIn(Of(g, "stage_tiles"), r, file(g))
  BY <1>5, <2>1
<2>3. Of(g, "stage_tiles") \subseteq RowsOf(rows, "stage_tiles")
  BY <1>6, <1>7, <2>1
<2> HIDE DEF g, file
<2> QED
  BY <2>1, <2>2, <2>3, TellsMore
<1>12. \A t \in LevelTables : \A x \in RowsOf(rows, t) : x.key[1] = s
  BY <1>5, <1>8
<1> QED
  BY <1>9, <1>10, <1>11, <1>12

(* An enemy's key is its server and its id. *)
LEMMA EnemyPairs ==
  ASSUME NEW s, NEW raw, ImportEnemies(s, raw).error = "none",
         NEW x \in RowsOf(ImportEnemies(s, raw).rows, "enemies")
  PROVE  x.key = <<x.key[1], x.key[2]>>
<1> DEFINE P(e)    == Prov(s, GameData, "enemy_handbook_table", e)
           ids     == ParseEnemies(raw)
           Lv(e)   == EnemyLevels(raw, e)
           enemies == {Row(<<s, e>>, {}, P(e), <<>>) : e \in ids}
           levels  == UNION {{Row(<<s, e, Lv(e)[i].level>>, {<<"enemies", <<s, e>>>>}, <<>>, Lv(e)[i].val) :
                                i \in DOMAIN Lv(e)} : e \in ids}
           own     == [enemies |-> enemies, enemy_levels |-> levels]
<1>1. ImportEnemies(s, raw).rows = Proved(own, {P(e) : e \in ids})
  BY DEF ImportEnemies, Ok, Refused, Torn
<1>2. RowsOf(own, "enemies") = enemies
  BY DEF RowsOf
<1>3. x \in enemies
<2> HIDE DEF own, P, ids
<2> QED
  BY <1>1, <1>2, RowsOfProved
<1> QED
  BY <1>3 DEF Row
===============================================================================
