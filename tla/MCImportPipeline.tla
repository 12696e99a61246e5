--------------------------- MODULE MCImportPipeline ---------------------------
(***************************************************************************)
(* Files for ImportPipeline.  Both servers read files with the same ids, as *)
(* the real servers do.  The ordinary file of a domain already holds what  *)
(* the importer must tell apart; each irregular one takes another branch.  *)
(***************************************************************************)
EXTENDS ImportPipeline

With(d, field, value) == [d EXCEPT ![field] = value]
Shapes(file, shapes)  == {With(file, "shape", x) : x \in shapes}

Level(n, range, immune) == [level |-> n, range |-> range, immune |-> immune]
Enemies ==
  [shape |-> "ok", handbook |-> {"slime", "hound", "ghost"}, broken |-> {},
   database |->
     "slime" :> <<Level(1, Unset, "silence" :> TRUE),
                  Level(0, 2, "stun" :> TRUE),
                  Level(2, -1, "stun" :> FALSE)>> @@
     "hound" :> <<Level(0, -1, <<>>), Level(1, Unset, "stun" :> TRUE)>>]
OddEnemies ==
  Shapes(Enemies, {"absent", "foreign"}) \cup
  {With(Enemies, "broken", {"ghost"}), With(Enemies, "broken", {"slime"}),
   With(Enemies, "database", "slime" :> <<Level(1, 3, <<>>), Level(1, 2, <<>>)>>),
   With(Enemies, "database", "slime" :> <<Level(2, 3, "stun" :> TRUE), Level(1, Unset, <<>>)>>)}

Ref(id, shared, prefab, level) == [id |-> id, useDb |-> shared, prefab |-> prefab, level |-> level]
Act(type, key, level, route, time, count) ==
  [type |-> type, key |-> key, level |-> level, route |-> route, time |-> time, count |-> count]
Start(i, row, col) == [index |-> i, start |-> <<row, col>>]
File(grid, defs, routes, refs, waves) ==
  [grid |-> grid, defs |-> defs, routes |-> routes, refs |-> refs, waves |-> waves]

Board == <<<<1, 2>>, <<3, 0>>, <<2, 1>>>>
FileA == File(Board, <<"start", "road", "wall">>,
              <<Start(Unset, 0, 1), Start(5, 2, 0)>>,
              <<Ref("slime", TRUE, "", 1), Ref("slime_2", FALSE, "slime", 0),
                Ref("slime_2", FALSE, "hound", 1)>>,
              <<<<Act("SPAWN", "slime", 0, 0, 5, 2), Act("STORY", "", 0, 0, 0, 1),
                  Act("SPAWN", "slime", 0, 5, Unset, 1), Act("SPAWN", "slime", 0, 0, 9, 1)>>,
                <<Act("SPAWN", "slime_2", 0, 7, 3, Unset), Act("SPAWN", "hound", 2, 5, 1, 3)>>>>)
FileB == File(Board, <<"start", "road">>, <<Start(0, 1, 1)>>, <<>>,
              <<<<Act("SPAWN", "ghost", 0, Unset, Unset, 4)>>>>)

Stage(zone, level, clean) == [zone |-> zone, level |-> level, clean |-> clean]
Stages ==
  [shape |-> "ok",
   zones |-> "main" :> "Evil Time" @@ "act" :> "",
   activity |-> [shape |-> "ok", names |-> "a1" :> "A Walk" @@ "a2" :> "",
                 zones |-> "act" :> "a1" @@ "gone" :> "a1" @@ "main" :> "a2"],
   stages |-> "g1" :> Stage("main", "pa", TRUE) @@ "g2" :> Stage("act", "pb", TRUE) @@
              "g3" :> Stage("nowhere", "../pa", FALSE) @@ "g4" :> Stage("act", "missing", TRUE),
   files |-> "pa" :> FileA @@ "pb" :> FileB]
Activity(shape, names, zones) == [shape |-> shape, names |-> names, zones |-> zones]
OddStages ==
  Shapes(Stages, {"absent", "foreign"}) \cup
  {With(Stages, "files", <<>>),
   With(Stages, "files", "pa" :> With(FileA, "waves", <<<<>>>>)),
   With(Stages, "files", "pa" :> With(FileA, "routes", <<Start(1, 0, 0), Start(Unset, 0, 1)>>)),
   With(Stages, "files", "pa" :> With(FileA, "refs", <<Ref("slime", TRUE, "", 1)>>)),
   With(Stages, "stages", "g3" :> Stage("act", "../pa", FALSE)),
   With(Stages, "activity", Activity("absent", <<>>, <<>>)),
   With(Stages, "activity", Activity("foreign", <<>>, <<>>)),
   With(Stages, "activity", Activity("ok", "a1" :> "A Walk", "act" :> "a9")),
   With(Stages, "activity", Activity("ok", "a1" :> "A Walk", "gone" :> "a1")),
   With(Stages, "activity", Activity("ok", <<>>, <<>>))}

Power(id, main) == [id |-> id, main |-> main]
Char(job, skills, powers) ==
  [profession |-> job, skills |-> skills, powers |-> powers,
   phases |-> <<"E0", "", "E2">>, talents |-> <<<<"t1", "">>, <<>>>>]
Operators ==
  [shape |-> "ok",
   skills |-> "s1" :> <<"Cut", "Cut">> @@ "s2" :> <<"Cut", "Cut+">>,
   chars  |-> "amiya" :> Char("CASTER", <<"s1", "s2", "gone", "">>,
                              <<Power("rhodes", TRUE), Power("lungmen", FALSE),
                                Power("rhodes", FALSE)>>) @@
              "texas" :> Char("PIONEER", <<>>, <<Power("", TRUE)>>) @@
              "crate" :> Char("TRAP", <<>>, <<>>),
   collab |-> "texas" :> "guest"]
OddOperators ==
  Shapes(Operators, {"absent", "foreign"}) \cup {With(Operators, "skills", <<>>)}

Module(initial, char, phases, cost) ==
  [initial |-> initial, char |-> char, phases |-> phases, cost |-> cost]
Modules ==
  [shape |-> "ok",
   equip |-> "m0" :> Module(TRUE, "amiya", <<>>, {}) @@
             "m1" :> Module(FALSE, "amiya", <<Unset, 3>>, {1, 2}) @@
             "m2" :> Module(FALSE, "nobody", <<1>>, {})]
OddModules == Shapes(Modules, {"corrupt", "foreign"})

Pool(id, rule, limited, attain) ==
  [id |-> id, rule |-> rule, limited |-> limited, attain |-> attain]
Classic(id, attain) == Pool(id, "CLASSIC", "", attain)
Banners ==
  [shape |-> "ok",
   pools |-> <<Pool("b1", "LIMITED", "amiya", <<>>), Classic("", <<>>),
               Classic("b2", <<"amiya", "nobody">>), Pool("b3", "NORMAL", "amiya", <<"texas">>)>>]
OddBanners ==
  Shapes(Banners, {"absent", "corrupt", "foreign", "bare"}) \cup
  {With(Banners, "pools", p) : p \in
     {<<Classic("", <<>>)>>, <<>>,
      <<Classic("b1", <<>>), Classic("b1", <<"amiya">>)>>,
      <<Classic("b1", <<"amiya">>), Classic("b2", <<"amiya", "amiya">>)>>}}

Skin(operator, id, char, portrait) ==
  [operator |-> operator, id |-> id, char |-> char, portrait |-> portrait]
Skins ==
  [shape |-> "ok",
   skins |-> <<Skin(TRUE, "k1", "amiya", TRUE), Skin(TRUE, "k2", "nobody", TRUE),
               Skin(FALSE, "k3", "crate", TRUE), Skin(TRUE, "k4", "texas", FALSE)>>]
OddSkins ==
  Shapes(Skins, {"corrupt", "foreign", "bare"}) \cup
  {With(Skins, "skins", p) : p \in
     {<<Skin(TRUE, "", "amiya", TRUE), Skin(TRUE, "k1", "texas", FALSE)>>,
      <<Skin(FALSE, "k3", "crate", TRUE)>>,
      <<Skin(TRUE, "k1", "amiya", TRUE), Skin(TRUE, "k1", "texas", TRUE)>>}}

Buff(id, room)     == [id |-> id, room |-> room]
Slot(buff, unlock) == [buff |-> buff, unlock |-> unlock]
BaseSkills ==
  [shape |-> "ok",
   buffs |-> <<Buff("u1", TRUE), Buff("u2", TRUE), Buff("u3", FALSE), Buff("", TRUE)>>,
   chars |-> "amiya" :> <<Slot("u1", TRUE), Slot("u3", TRUE), Slot("u2", FALSE)>> @@
             "nobody" :> <<Slot("u1", TRUE)>> @@ "texas" :> <<Slot("", TRUE)>>]
OddBaseSkills ==
  Shapes(BaseSkills, {"corrupt", "foreign"}) \cup
  {With(BaseSkills, "buffs", <<Buff("u1", TRUE), Buff("u1", TRUE)>>),
   With(BaseSkills, "buffs", <<Buff("u1", FALSE)>>),
   With(BaseSkills, "chars", "amiya" :> <<Slot("u3", TRUE)>>)}

Area(entry, id, cells) == [entry |-> entry, id |-> id, cells |-> cells]
Ranges ==
  [shape |-> "ok",
   ranges |-> <<Area("1-1", "1-1", {<<0, 0>>, <<0, 1>>}), Area("2-1", "", {<<0, 0>>}),
                Area("3-1", "3-1", {})>>]
OddRanges ==
  Shapes(Ranges, {"corrupt", "foreign"}) \cup
  {With(Ranges, "ranges", <<Area("1-1", "x", {<<0, 0>>}), Area("1-2", "x", {<<0, 1>>})>>),
   With(Ranges, "ranges", <<Area("1-1", "1-1", {})>>)}

Drop(stage, item) == [stage |-> stage, item |-> item]
Drops ==
  [shape |-> "ok", items |-> <<"i1", "", "i2">>,
   matrix |-> <<Drop("g1", "i1"), Drop("g9", "i1"), Drop("g1", "i9"), Drop("", "i2"), Drop("g1", "i2")>>]
OddDrops ==
  Shapes(Drops, {"absent", "foreign"}) \cup
  {With(Drops, "items", <<"i1", "i1">>),
   With(Drops, "matrix", <<Drop("g1", "i1"), Drop("g1", "i1")>>),
   With(Drops, "matrix", <<Drop("g9", "i1")>>), With(Drops, "matrix", <<Drop("g1", "")>>)}

Entry(id, dated) == [id |-> id, dated |-> dated]
Announcements ==
  [shape |-> "ok", entries |-> <<Entry("n1", TRUE), Entry("", TRUE), Entry("n2", FALSE)>>]
OddAnnouncements ==
  Shapes(Announcements, {"absent", "foreign"}) \cup
  {With(Announcements, "entries", <<Entry("n1", FALSE)>>),
   With(Announcements, "entries", <<Entry("", TRUE)>>),
   With(Announcements, "entries", <<Entry("n1", TRUE), Entry("n1", TRUE)>>)}

MCServerOrder == <<"en", "cn">>
MCFeeds       == {"cn"}
MCOrdinary ==
  [enemies |-> Enemies, stages |-> Stages, operators |-> Operators, modules |-> Modules,
   banners |-> Banners, skins |-> Skins, base_skills |-> BaseSkills, ranges |-> Ranges,
   penguin |-> Drops, announcements |-> Announcements]
MCIrregular ==
  [enemies |-> OddEnemies, stages |-> OddStages, operators |-> OddOperators,
   modules |-> OddModules, banners |-> OddBanners, skins |-> OddSkins,
   base_skills |-> OddBaseSkills, ranges |-> OddRanges, penguin |-> OddDrops,
   announcements |-> OddAnnouncements]
===============================================================================
