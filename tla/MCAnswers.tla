------------------------------ MODULE MCAnswers -------------------------------
(***************************************************************************)
(* Worlds and requests for Answers.  The first world is ordinary; the      *)
(* second has what is irregular: shared codes beyond what a limitation     *)
(* lists, a map that claims less than it holds, aged and unreadable        *)
(* stamps, sources that were never imported, a roster replaced under the   *)
(* walk.                                                                   *)
(***************************************************************************)
EXTENDS Answers, TLC

(***************************************************************************)
(* Stages                                                                  *)
(***************************************************************************)
Point(type, x) == [type |-> type, position |-> <<x, 0>>, time |-> 0, reach_distance |-> 0]
Route(i, end, points) == [index |-> i, start |-> <<0, 0>>, end |-> <<end, 0>>, checkpoints |-> points]
Spawn(pk, time, enemy, route) ==
  [pk |-> pk, wave |-> 0, time |-> time, enemy |-> enemy, route |-> route, group |-> None]
Tiles(w, h) == {[x |-> x, y |-> y, kind |-> (x + y) % 2] : x \in 0..(w - 1), y \in 0..(h - 1)}
Map(w, h) == [width |-> w, height |-> h]

(* Records 0, 2 and 5 of one path, two of them with a wait in it. *)
Routes == {Route(0, 3, <<Point("MOVE", 1)>>), Route(1, 2, <<>>),
           Route(2, 3, <<Point("MOVE", 1), Point("WAIT_FOR_SECONDS", 0)>>),
           Route(3, 4, <<Point("JUMP", 2)>>), Route(4, 0, <<>>),
           Route(5, 3, <<Point("DISAPPEAR", 0), Point("MOVE", 1)>>)}
Spawns1 == {Spawn(1, 0, 1, 2), Spawn(2, 0, 2, 5), Spawn(3, 4, 1, 1), Spawn(4, 4, 3, 9), Spawn(5, 4, 2, None)}

Stage(pk, server, id, code, prefix, cost, map, tiles, routes, spawns) ==
  [pk |-> pk, server |-> server, id |-> id, code |-> code, prefix |-> prefix, difficulty |-> "NORMAL",
   name |-> IF pk = 2 THEN Mask ELSE IF pk = 4 THEN 7 ELSE 50 + pk, zone |-> IF pk \in {1, 4, 7} THEN 1 ELSE None,
   event |-> IF pk \in {4, 5} THEN 70 ELSE None, level |-> None, life |-> 10, cost |-> cost, snap |-> 1,
   map |-> map, tiles |-> tiles, routes |-> routes, spawns |-> spawns]
Plain(pk, server, id, code, cost) == Stage(pk, server, id, code, None, cost, None, {}, {}, {})

Stages1 == {Stage(1, "en", 11, 7, "easy", 6, Map(2, 1), Tiles(3, 2), Routes, Spawns1),
            Plain(2, "en", 12, 7, 9), Plain(3, "cn", 11, 7, 6), Plain(4, "en", 14, None, 6),
            Plain(5, "en", 15, 8, None)}
Stages2 == {Stage(1, "en", 11, 7, "easy", 6, None, Tiles(4, 4), {}, {}),
            Stage(2, "en", 12, 7, None, 12, Map(5, 5), {[x |-> 4, y |-> 0, kind |-> 3]}, {}, Spawns1)}
           \cup {Plain(n, "en", 10 + n, 7, 6) : n \in 3..6} \cup {Plain(7, "en", 17, 8, 0), Plain(8, "en", 18, 8, 7)}

(***************************************************************************)
(* Drops                                                                   *)
(***************************************************************************)
Items1 == {[pk |-> n, server |-> IF n = 3 THEN "cn" ELSE "en", id |-> IF n = 3 THEN 1 ELSE n,
            name |-> IF n = 4 THEN None ELSE n, rarity |-> IF n = 2 THEN None ELSE 0, type |-> "MATERIAL"] : n \in 1..5}
DropOf(stage, item, times, rate, snap, expires) ==
  [stage |-> stage, item |-> item, quantity |-> 3, times |-> times, rate |-> rate, snap |-> snap,
   fetched |-> snap, expires |-> expires]
Drops1 == {DropOf(1, 1, 200, 20, 1, 9), DropOf(2, 1, 200, 60, 1, 9), DropOf(4, 1, 200, 10, 1, 9),
           DropOf(5, 1, 200, 30, 1, 9), DropOf(3, 3, 200, 90, 1, 9), DropOf(1, 2, None, 2, 1, 9), DropOf(1, 4, 5, None, 1, 9)}
Drops2 == {DropOf(1, 1, 200, 20, 1, 9), DropOf(3, 1, 20, 60, 2, 4), DropOf(4, 1, 200, 20, 2, 4),
           DropOf(5, 1, 200, 0, 1, Unread), DropOf(7, 1, 200, 30, 1, 9), DropOf(8, 2, 20, 3, 1, 4), DropOf(8, 1, 200, 40, 2, 9)}

(***************************************************************************)
(* Listings                                                                *)
(***************************************************************************)
At(day, tick) == [day |-> day, tick |-> tick]
Op(char, resolved) == [char |-> char, resolved |-> resolved, name |-> IF resolved THEN char ELSE None]
Banner(id, open, rule, ops) ==
  [server |-> "en", id |-> id, name |-> IF id = 3 THEN None ELSE id, open |-> open, end |-> None, rule |-> rule,
   ops |-> ops, snap |-> 1]
Banners1 == {Banner(1, At(2, 1), "LIMITED", {Op(1, TRUE), Op(2, FALSE)}), Banner(2, At(2, 0), "NORMAL", {}),
             Banner(3, At(3, 0), "FESCLASSIC", {}), Banner(4, None, None, {}), Banner(5, At(1, 1), "LIMITED", {Op(2, TRUE)}),
             Banner(6, At(2, 2), "LINKAGE", {Op(3, TRUE), Op(4, TRUE), Op(5, FALSE)}),
             [Banner(1, At(2, 1), "NORMAL", {}) EXCEPT !.server = "cn"]}
Announcement(id, date) ==
  [server |-> "en", id |-> id, title |-> IF id = 2 THEN Mask ELSE id, date |-> date, url |-> None, category |-> 1, snap |-> 1]
Announcements1 == {Announcement(1, At(1, 0)), Announcement(2, At(2, 0)), Announcement(3, At(2, 0)), Announcement(4, None)}

(***************************************************************************)
(* Operators                                                               *)
(***************************************************************************)
Skill(slot, stage, room, phase, level) ==
  [slot |-> slot, stage |-> stage, room |-> room, phase |-> phase, level |-> level]
Operator(id, rarity, base) ==
  [server |-> "en", pk |-> id, id |-> id, name |-> id, tags |-> {80}, names |-> {90 + id}, rarity |-> rarity, profession |-> "SNIPER", obtainable |-> id # 4,
   collab |-> IF id = 2 THEN TRUE ELSE IF id = 3 THEN None ELSE FALSE,
   factions |-> {[faction |-> id % 2, main |-> TRUE], [faction |-> 2, main |-> FALSE]}, base |-> base,
   modules |-> {[id |-> 21, name |-> None, type |-> "X"]}, skills |-> {[id |-> 31, name |-> 31]},
   skins |-> {[id |-> 41, name |-> 41, alternate |-> FALSE], [id |-> 42, name |-> None, alternate |-> TRUE]},
   snap |-> 1]
Operators1 == {Operator(1, 6, {Skill(0, 0, "trade", 0, 1), Skill(0, 1, "trade", 2, 1), Skill(1, 0, "dorm", 0, 30)}),
               Operator(2, 6, {Skill(0, 0, "trade", 0, 1)}), Operator(3, None, {}),
               Operator(4, 5, {Skill(0, 0, "trade", 1, 1)}), Operator(5, 5, {Skill(0, 0, "trade", 1, 1)})}

Form(form, id) == [form |-> form, equipped |-> 21, equip |-> <<[id |-> 21, level |-> 1, locked |-> 0]>>,
                   skills |-> <<[id |-> id, mastery |-> 0, unlock |-> 1]>>]
Entry(char, elite, level) ==
  [char |-> char, tmpl |-> <<>>, elite |-> elite, level |-> level, potential |-> 0, rank |-> 7, skin |-> None,
   current |-> NoId, equipped |-> NoId,
   skills |-> <<[id |-> 31, mastery |-> 3, unlock |-> 1], [id |-> NoId, mastery |-> 0, unlock |-> 0]>>,
   equip |-> <<[id |-> 20, level |-> 1, locked |-> 0], [id |-> 21, level |-> 2, locked |-> 0]>>]
User(chars, inventory) ==
  [shape |-> "ok", gold |-> 5, chars |-> chars, skins |-> {41, NoId}, inventory |-> inventory]
Entry1 == [Entry(1, 2, 20) EXCEPT !.tmpl = <<Form(1, 31), Form(8, 32)>>, !.current = 8]
Account(n, user) == [synced |-> n, snap |-> 10 + n, user |-> user]
Account1 == Account(1, User(<<Entry1, Entry(2, 0, 1), Entry(3, 1, 40), Entry(9, 2, 1), Entry(2, 2, 90), Entry(NoId, 0, 1),
                              Entry(5, 2, 20)>>,
                            1 :> 4 @@ 2 :> 1 @@ 4 :> 2 @@ 5 :> 0 @@ 7 :> 9 @@ NoId :> 1))
(* The same account later: an operator promoted, one more, an item used up. *)
Account2 == Account(2, User(<<Entry1, Entry(2, 2, 90), Entry(3, 1, 40), Entry(4, 0, 1), Entry(9, 2, 1), Entry(5, 2, 20)>>,
                            1 :> 4 @@ 4 :> 3 @@ 7 :> 9))

Enemies1 == {[server |-> s, pk |-> 1, id |-> 101, name |-> IF s = "en" THEN 1 ELSE 102, names |-> {1, 103}] : s \in {"en", "cn"}}

(***************************************************************************)
(* Worlds and requests                                                     *)
(***************************************************************************)
Ordinary ==
  [stages |-> Stages1, items |-> Items1, drops |-> Drops1, now |-> 5, banners |-> Banners1, refs |-> TRUE,
   announcements |-> Announcements1, feeds |-> {"en", "cn"}, operators |-> Operators1, enemies |-> Enemies1, domain |-> TRUE,
   accounts |-> <<Account1, Account2>>, snapshots |-> {[server |-> "en", id |-> 1], [server |-> "cn", id |-> 2]}]
Irregular ==
  [Ordinary EXCEPT !.stages = Stages2, !.drops = Drops2, !.refs = FALSE, !.announcements = {}, !.feeds = {"en"},
                   !.domain = FALSE, !.accounts = <<Account(1, None)>>]
(* A build of one region. *)
Bare ==
  [Irregular EXCEPT !.accounts = <<None>>, !.drops = {}, !.snapshots = {[server |-> "en", id |-> 1]},
                    !.items = {i \in Items1 : i.server = "en"}, !.enemies = {e \in Enemies1 : e.server = "en"}]
MCWorlds == <<Ordinary, Irregular, Bare>>

Base(tool, server, n) == [tool |-> tool, server |-> server, from |-> 1, size |-> n]
Sizes == {1, 3, 6}
StageRequests ==
  {Base("get_stage", "en", n) @@ [by |-> "code", value |-> 7, map |-> m, routes |-> TRUE, spawns |-> TRUE, image |-> i,
     reads |-> l, spawns_page |-> 1, spawns_size |-> n] : n \in Sizes, m \in BOOLEAN, i \in BOOLEAN, l \in {"routes", "spawns"}}
  \cup {Base("get_stage", s, 3) @@ [by |-> "game_id", value |-> v, map |-> TRUE, routes |-> FALSE, spawns |-> TRUE, image |-> TRUE,
     reads |-> "spawns", spawns_page |-> 1, spawns_size |-> 3] : s \in {"en", "cn"}, v \in {11, 12, 99}}
DropRequests ==
  {Base("get_stage_drops", s, 1) @@ [by |-> "code", value |-> v, efficiency |-> e] : s \in {"en", "cn"}, v \in {7, 8}, e \in BOOLEAN}
  \cup {Base("get_item_drops", s, n) @@ [value |-> v, efficiency |-> e] :
          s \in {"en", "cn"}, n \in Sizes, v \in {1, 5, 99}, e \in BOOLEAN}
Bounds == {<<None, None>>, <<At(2, None), None>>, <<None, At(2, None)>>, <<At(2, 1), At(2, None)>>, <<At(2, None), At(2, 0)>>,
           <<At(2, 1), At(2, 0)>>, <<At(3, 0), At(2, None)>>}
ListRequests ==
  {Base(t, s, n) @@ [since |-> b[1], until |-> b[2], query |-> None] :
     t \in {"get_banners", "get_announcements"}, s \in {"en", "cn"}, n \in Sizes, b \in Bounds}
  \cup {Base("get_banners", "en", 2) @@ [since |-> None, until |-> None, query |-> {1, 5}]}
OperatorRequests ==
  {Base("find_operators", "en", n) @@ f : n \in Sizes,
     f \in {[room |-> "trade", faction |-> None, collab |-> None], [room |-> None, faction |-> 2, collab |-> FALSE],
            [room |-> None, faction |-> 9, collab |-> None]}}
  \cup {Base("get_my_roster", s, n) @@ f : s \in {"en", "cn"}, n \in Sizes,
     f \in {[room |-> None, faction |-> None, collab |-> None, rarity |-> None, elite |-> None],
            [room |-> "trade", faction |-> None, collab |-> None, rarity |-> None, elite |-> 1],
            [room |-> None, faction |-> None, collab |-> TRUE, rarity |-> 6, elite |-> None]}}
  \cup {Base("get_my_operator", "en", 1) @@ [value |-> v] : v \in {1, 4, 9}}
  \cup {Base("get_my_inventory", "en", n) : n \in Sizes}
(* The name of an operator, of a zone and of an event; a code; a tag with a name; too many
   words; a name nobody has; punctuation. *)
SearchRequests ==
  {Base("search_entities", s, n) @@ [query |-> q, type |-> t, spells |-> None] : s \in {None, "en", "cn"}, n \in Sizes,
     q \in {<<1>>, <<70, 1>>, <<80, 93, 99>>, <<99>>, <<>>}, t \in {None, "operator"}}
  \cup {Base("search_stages", s, n) @@ [query |-> q, type |-> "stage", spells |-> q[1]] : s \in {None, "en"}, n \in Sizes,
     q \in {<<7>>, <<1>>, <<11>>}}
(* A later id ranks before, and an operator before an item with its number. *)
MCBm25(d, tokens) == 0 - 2 * d.id - IF d.type = "item" THEN 0 ELSE 1

MCRequests == SearchRequests \cup StageRequests \cup DropRequests \cup ListRequests \cup OperatorRequests

(* A client that goes on from a page it was once told of. *)
MCPastEnd == {[r EXCEPT !.from = 3] : r \in {q \in DropRequests : q.tool = "get_item_drops"}}
===============================================================================
