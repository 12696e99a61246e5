------------------------------ MODULE StageView -------------------------------
(***************************************************************************)
(* get_stage: services/stages.py with its route digest and tile grid,      *)
(* tools/stage.py and the shed plan of tools/_stage_shed.py.               *)
(*                                                                         *)
(* A stage is a record of its row and of the rows that hang from it; ids   *)
(* are numbers, ordered as the code orders their text.  A position is      *)
(* <<x, y>>, or <<>> when it is malformed.  A width or height not set is 0.*)
(***************************************************************************)
EXTENDS Envelope

CONSTANTS MaxMatches,   \* MAX_STAGE_CODE_MATCHES
          MaxListed,    \* MAX_LISTED_ALTERNATES
          MaxRoutes,    \* MAX_MAP_ROUTES
          MaxCells,     \* MAX_MAP_CELLS
          Symbols,      \* of the tile grid's alphabet
          MaxImage      \* MAX_MAP_IMAGE_BYTES
ASSUME StageViewAssumption == {MaxMatches, MaxListed, MaxRoutes, MaxCells, Symbols, MaxImage} \subseteq Nat \ {0}

(***************************************************************************)
(* Which stage                                                             *)
(***************************************************************************)
(* stage_variant: the prefix of the id tells more than NORMAL does. *)
StageVariant(s) ==
  IF s.prefix # None /\ s.difficulty \in {None, "NORMAL"} THEN s.prefix ELSE s.difficulty

ByKey(stages) == OrderBy(stages, LAMBDA a, b : a.pk < b.pk)
StagesByCode(stages, server, code) == Limit(ByKey({s \in stages : s.server = server /\ s.code = code}), MaxMatches)

(* Slip: the read that a pick needs is the first row. *)
ResolveFirstOnly(stages, req) ==
  LET matches == IF req.by = "game_id"
                 THEN ByKey({s \in stages : s.server = req.server /\ s.id = req.value})
                 ELSE Limit(StagesByCode(stages, req.server, req.value), 1)
  IN [stage      |-> IF matches = <<>> THEN None ELSE matches[1],
      alternates |-> Tail(matches \o <<0>>), truncated |-> FALSE]

(* _resolve_stage: an id names one stage; of the stages that share a code the first
   answers and the others are its alternates. *)
Resolve(stages, req) ==
  LET matches == IF req.by = "game_id"
                 THEN ByKey({s \in stages : s.server = req.server /\ s.id = req.value})
                 ELSE StagesByCode(stages, req.server, req.value)
  IN [stage      |-> IF matches = <<>> THEN None ELSE matches[1],
      alternates |-> [i \in 1..(Len(matches) - 1) |-> matches[i + 1].id],
      truncated  |-> req.by = "code" /\ Len(matches) > 1 /\ Len(matches) = MaxMatches]

(* _alternates_phrase: those named, and how many more; -1 when nobody counted them. *)
Named(found) == <<Limit(found.alternates, MaxListed),
                  IF found.truncated THEN -1 ELSE Max({0, Len(found.alternates) - MaxListed})>>
AmbiguityLimitation(found) ==
  If(found.alternates # <<>>,
     {<<"shared_code", found.stage.id, StageVariant(found.stage), Len(found.alternates) + 1>> \o Named(found)})

(***************************************************************************)
(* Routes                                                                  *)
(***************************************************************************)
NonSpatial == {"WAIT_FOR_SECONDS", "WAIT_CURRENT_FRAGMENT_TIME", "WAIT_CURRENT_WAVE_TIME",
               "WAIT_BOSSRUSH_WAVE", "DISAPPEAR"}
Spatial    == {"MOVE", "APPEAR_AT_POS", "PATROL_MOVE", "MAP_OFFSET_MOVE"}
Optional   == {"time", "reach_distance"}

(* _is_non_spatial_checkpoint: by type alone; an unknown type is a point. *)
PathPoints(route) == SelectSeq(route.checkpoints, LAMBDA c : c.type \notin NonSpatial)
(* _suppress_default_checkpoint_fields *)
Digest(c) == [f \in (DOMAIN c \ Optional) \cup {g \in Optional : c[g] # 0} |-> c[f]]
UnknownTypes(records) ==
  {t \in UNION {{c.type : c \in ToSet(r.checkpoints)} : r \in ToSet(records)} :
     t \notin NonSpatial \cup Spatial \cup {None}}

Geometry(route) ==
  <<route.start, route.end, [i \in DOMAIN PathPoints(route) |-> PathPoints(route)[i].position]>>

(* _distinct_routes: one row per geometry, in order of first appearance; its first
   record speaks for it, and every record's index is kept. *)
RouteRow(records) ==
  LET points == PathPoints(records[1])
  IN [route_indices    |-> {records[i].index : i \in DOMAIN records},
      occurrence_count |-> Len(records),
      start_position   |-> records[1].start,
      end_position     |-> records[1].end,
      checkpoints      |-> [i \in DOMAIN points |-> Digest(points[i])]]
DistinctRoutes(records) ==
  LET keys == Distinct([i \in DOMAIN records |-> Geometry(records[i])])
  IN [g \in DOMAIN keys |-> RouteRow(SelectSeq(records, LAMBDA r : Geometry(r) = keys[g]))]

AllRoutes(stage) == Limit(OrderBy(stage.routes, LAMBDA a, b : a.index < b.index), MaxRoutes)

(***************************************************************************)
(* Tiles                                                                   *)
(***************************************************************************)
AllTiles(stage) ==
  Limit(OrderBy(stage.tiles, LAMBDA a, b : a.y < b.y \/ (a.y = b.y /\ a.x < b.x)), MaxCells + 1)

(* Slip: the map's own size, where there is one. *)
ExtentStored(stored, coordinates) ==
  IF stored > 0 THEN stored ELSE Max({c + 1 : c \in coordinates})

(* The board covers every tile, whatever size the map claims. *)
Extent(stored, coordinates) == Max({stored} \cup {c + 1 : c \in coordinates})

(* build_tile_grid: rows of symbols, 0 where there is no tile, and what each means; None
   for a board too large or with more kinds than symbols. *)
BuildTileGrid(tiles, header) ==
  LET width  == Extent(header.width, {t.x : t \in ToSet(tiles)})
      height == Extent(header.height, {t.y : t \in ToSet(tiles)})
      legend == Distinct([i \in DOMAIN tiles |-> tiles[i].kind])
      symbol(x, y) == LET here == {t \in ToSet(tiles) : t.x = x /\ t.y = y}
                      IN IF here = {} THEN 0
                         ELSE CHOOSE i \in DOMAIN legend : \E t \in here : legend[i] = t.kind
  IN IF tiles = <<>> \/ width * height > MaxCells \/ Len(legend) > Symbols THEN None
     ELSE [rows |-> [y \in 1..height |-> [x \in 1..width |-> symbol(x - 1, y - 1)]],
           legend |-> legend]

(* resolve_tile_grid: a board that is refused says so. *)
GridLimitation(tiles, grid) ==
  IF Len(tiles) > MaxCells THEN {<<"grid_oversize">>}
  ELSE If(grid = None /\ tiles # <<>>, {<<"grid_refused">>})
ResolveTileGrid(tiles, header) == IF Len(tiles) > MaxCells THEN None ELSE BuildTileGrid(tiles, header)

(* render_stage_map: an SVG that grows with its tiles and the routes it draws. *)
Drawn(records) == {Geometry(r) : r \in {q \in ToSet(records) : q.start # q.end \/ PathPoints(q) # <<>>}}
ImageBytes(tiles, records) == Len(tiles) + Cardinality(Drawn(records))
RenderMap(tiles, header, records) ==
  LET width  == Extent(header.width, {t.x : t \in ToSet(tiles)})
      height == Extent(header.height, {t.y : t \in ToSet(tiles)})
  IN IF tiles = <<>> THEN [image |-> None, lims |-> {}]
     ELSE IF width * height > MaxCells \/ ImageBytes(tiles, records) > MaxImage
          THEN [image |-> None, lims |-> {<<"image_oversize">>}]
     ELSE [image |-> [svg |-> ImageBytes(tiles, records), tile_count |-> Len(tiles)], lims |-> {}]

(***************************************************************************)
(* The sections                                                            *)
(***************************************************************************)
(* _SPAWNS_SQL: the timeline. *)
Spawns(stage) ==
  OrderBy(stage.spawns, LAMBDA a, b :
    \/ a.wave < b.wave
    \/ a.wave = b.wave /\ a.time < b.time
    \/ a.wave = b.wave /\ a.time = b.time /\ a.enemy < b.enemy
    \/ a.wave = b.wave /\ a.time = b.time /\ a.enemy = b.enemy /\ a.pk < b.pk)
SpawnRow(s) == [wave_index |-> s.wave, enemy_game_id |-> s.enemy, route_index |-> s.route,
                spawn_time |-> s.time, spawn_group |-> s.group]

StageBlock(s) ==
  [server |-> s.server, game_id |-> s.id, stage_code |-> s.code, display_name |-> s.name,
   zone_display_name |-> s.zone, difficulty |-> StageVariant(s), sanity_cost |-> s.cost,
   recommended_level |-> s.level, max_life_points |-> s.life]
AbsentFields(s) == {f \in {"recommended_level", "max_life_points"} : StageBlock(s)[f] = None}
AbsentLimitation(s) == If(AbsentFields(s) # {}, {<<"absent", AbsentFields(s)>>})

NoMap == [width |-> 0, height |-> 0]
Header(s) == IF s.map = None THEN NoMap ELSE s.map

(* Each opt-in section: the keys it adds, and its limitations. *)
MapSection(req, s) ==
  LET tiles == AllTiles(s)  grid == ResolveTileGrid(tiles, Header(s))
  IN IF ~req.map \/ (s.map = None /\ tiles = <<>>) THEN [data |-> Nothing, lims |-> {}]
     ELSE [data |-> [map |-> <<Header(s)>>] ++ IF grid = None THEN Nothing ELSE [tile_grid |-> <<grid>>],
           lims |-> GridLimitation(tiles, grid) \cup If(grid # None, {<<"tile_gloss">>})]

RecordsRead(req, s) == IF req.routes \/ req.image THEN AllRoutes(s) ELSE <<>>
UnknownLimitation(records) == If(UnknownTypes(records) # {}, {<<"unknown_types", UnknownTypes(records)>>})

(* Slip: each page is digested by itself. *)
RoutesSectionPaged(req, s) ==
  LET raw == AllRoutes(s)
  IN IF ~req.routes THEN [data |-> Nothing, lims |-> {}]
     ELSE [data |-> [routes |-> DistinctRoutes(PageOf(raw, req.page, req.size)),
                     routes_page |-> <<SectionPage(req.page, req.size, Len(raw))>>],
           lims |-> If(Len(raw) = MaxRoutes, {<<"routes_truncated">>})]

(* The whole set is digested, then paged. *)
RoutesSection(req, s) ==
  LET distinct == DistinctRoutes(AllRoutes(s))
  IN IF ~req.routes THEN [data |-> Nothing, lims |-> {}]
     ELSE [data |-> [routes |-> PageOf(distinct, req.page, req.size),
                     routes_page |-> <<SectionPage(req.page, req.size, Len(distinct))>>],
           lims |-> If(Len(AllRoutes(s)) = MaxRoutes, {<<"routes_truncated">>})]

SpawnsSection(req, s) ==
  LET rows == PageOf(Spawns(s), req.spawns_page, req.spawns_size)
  IN IF ~req.spawns THEN [data |-> Nothing, lims |-> {}]
     ELSE [data |-> [spawns |-> [i \in DOMAIN rows |-> SpawnRow(rows[i])],
                     spawns_page |-> <<SectionPage(req.spawns_page, req.spawns_size, Len(Spawns(s)))>>],
           lims |-> {<<"level_variant_note">>}]

ImageSection(req, s) ==
  LET render == RenderMap(AllTiles(s), Header(s), AllRoutes(s))
  IN IF ~req.image THEN [data |-> Nothing, lims |-> {}]
     ELSE [data |-> IF render.image = None THEN Nothing ELSE [map_image |-> <<render.image>>],
           lims |-> render.lims]

(***************************************************************************)
(* The shed plan                                                           *)
(***************************************************************************)
RoutesStep == [part |-> "routes", paginated |-> TRUE]
ImageStep  == [part |-> "map_image", paginated |-> FALSE]
(* stage_shed_plan: the heavier part first. *)
StagePlan(data) ==
  IF Weight(data, "map_image") > Weight(data, "routes") THEN <<ImageStep, RoutesStep>>
  ELSE <<RoutesStep, ImageStep>>

(***************************************************************************)
(* get_stage, as the client gets it                                        *)
(***************************************************************************)
StageData(s, sections) ==
  [stage |-> <<StageBlock(s)>>, enum_legend |-> <<[value |-> "stage"]>>]
  ++ sections[1].data ++ sections[2].data ++ sections[3].data ++ sections[4].data
Sections(req, s) == <<MapSection(req, s), RoutesSection(req, s), SpawnsSection(req, s), ImageSection(req, s)>>

StageAnswer(data, s, lims) == BuildShedding("ok", data, {s.snap}, lims, StagePlan(data))
StageResult(req, found, s, sections) ==
  StageAnswer(StageData(s, sections), s,
              AmbiguityLimitation(found) \cup AbsentLimitation(s)
              \cup UnknownLimitation(RecordsRead(req, s)) \cup UNION {sections[i].lims : i \in 1..4})
GetStage(stages, req) ==
  LET found == Resolve(stages, req)
  IN IF found.stage = None THEN Error("not_found")
     ELSE StageResult(req, found, found.stage, Sections(req, found.stage))
===============================================================================
