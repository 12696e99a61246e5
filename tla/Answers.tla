-------------------------------- MODULE Answers --------------------------------
(***************************************************************************)
(* A client that reads a list of the server to its end, page by page, with *)
(* nothing to go by but the answers: their rows, their page and what their *)
(* limitations tell it to do.  The build is fixed; the account may be      *)
(* synced again between two pages; a call may fail.                        *)
(***************************************************************************)
EXTENDS DropView, BannerView, RosterView, SearchView

CONSTANTS Worlds,       \* what the databases hold: a sequence of worlds
          Requests,     \* what the client asks
          MaxFailures   \* failed answers the client puts up with

(* What the schema and the parser keep: rows of one server differ in id, and what an
   order or a window compares is a number. *)
UniqueIds(rows) == \A a, b \in rows : a.server = b.server /\ a.id = b.id => a = b
Moment     == [day : Int, tick : 0..9]
Bound      == [day : Int, tick : 0..9 \cup {None}]
AnAccount(account, n) ==
  /\ account.synced = n
  /\ account.user # None =>
       /\ account.user.chars \in Seq(ToSet(account.user.chars))
       /\ \A e \in ToSet(account.user.chars) : {e.char, e.elite, e.level} \subseteq Int
       /\ DOMAIN account.user.inventory \subseteq Int /\ IsFiniteSet(DOMAIN account.user.inventory)
(* operator_base_skills: PRIMARY KEY (operator_pk, slot_index, stage_index) *)
BaseSkills(base) ==
  /\ IsFiniteSet(base)
  /\ \A s \in base : {s.slot, s.stage, s.phase, s.level} \subseteq Int
  /\ \A s, t \in base : s.slot = t.slot /\ s.stage = t.stage => s = t
(* stages: the key is the table's; what hangs from a stage is finite. *)
Stages(rows) ==
  /\ IsFiniteSet(rows) /\ UniqueIds(rows) /\ \A a, b \in rows : a.pk = b.pk => a = b
  /\ \A s \in rows : s # None /\ s.pk \in Int /\ IsFiniteSet(s.routes) /\ IsFiniteSet(s.spawns)
AWorld(w) ==
  /\ {"announcements", "feeds", "operators", "domain", "accounts", "stages", "items", "drops", "banners", "now"} \subseteq DOMAIN w
  /\ Stages(w.stages) /\ IsFiniteSet(w.items) /\ IsFiniteSet(w.drops) /\ IsFiniteSet(w.banners)
  /\ IsFiniteSet(w.announcements) /\ UniqueIds(w.announcements)
  /\ \A a \in w.announcements : a.id \in Int /\ a.date \in Moment \cup {None}
  /\ IsFiniteSet(w.operators) /\ UniqueIds(w.operators)
  /\ \A o \in w.operators : o # None /\ o.id \in Int /\ o.rarity \in Int \cup {None} /\ BaseSkills(o.base)
  /\ w.accounts \in Seq(ToSet(w.accounts)) /\ w.accounts # <<>>
  /\ \A n \in DOMAIN w.accounts : w.accounts[n] # None => AnAccount(w.accounts[n], n)
(* The tools that read what a build, its caches or the account list. *)
Searches == {"search_entities", "search_stages"}
Tools == Searches \cup
  {"get_stage", "get_stage_drops", "get_item_drops", "get_banners", "get_announcements", "find_operators",
   "get_my_roster", "get_my_operator", "get_my_inventory"}
ARequest(r) ==
  /\ {"tool", "server", "from", "size"} \subseteq DOMAIN r /\ {r.from, r.size} \subseteq Nat \ {0}
  /\ r.tool \in Tools
  /\ r.tool = "get_announcements" =>
       /\ {"since", "until"} \subseteq DOMAIN r
       /\ \A f \in {"since", "until"} : r[f] \in Bound \cup {None}
  /\ r.tool \in {"find_operators", "get_my_roster"} => {"room", "faction", "collab"} \subseteq DOMAIN r
  /\ r.tool = "get_my_roster" => {"rarity", "elite"} \subseteq DOMAIN r
  /\ r.tool = "get_banners" => {"since", "until", "query"} \subseteq DOMAIN r
  /\ r.tool = "get_stage" => {"reads", "by", "value", "routes", "spawns", "image"} \subseteq DOMAIN r /\ r.reads \in {"routes", "spawns"}
  /\ r.tool = "get_item_drops" => {"value", "efficiency"} \subseteq DOMAIN r
ASSUME AnswersAssumption ==
  /\ None \notin Int \cup BOOLEAN \cup (Int \X Int)
  /\ MaxFailures \in Nat
  /\ \A w \in ToSet(Worlds) : AWorld(w)
  /\ \A r \in Requests : ARequest(r)

VARIABLES world,      \* one of Worlds
          synced,     \* which of its accounts is stored
          request,    \* what the client reads
          page, size, \* where it is, and the page size it asks for
          answer,     \* the last answer
          got,        \* the rows of this walk
          stamp,      \* synced_at of this walk
          failures, pc

vars == <<world, synced, request, page, size, answer, got, stamp, failures, pc>>

WorldAt(n) == [account |-> world.accounts[n]] ++ world

(***************************************************************************)
(* The server                                                              *)
(***************************************************************************)
Answer(w, req) ==
  CASE req.tool = "get_stage"         -> GetStage(w.stages, req)
    [] req.tool = "get_stage_drops"   -> GetStageDrops(w, req)
    [] req.tool = "get_item_drops"    -> GetItemDrops(w, req)
    [] req.tool = "get_banners"       -> GetBanners(w, req)
    [] req.tool = "get_announcements" -> GetAnnouncements(w, req)
    [] req.tool = "find_operators"    -> FindOperators(w, req)
    [] req.tool = "get_my_roster"     -> GetMyRoster(w, req)
    [] req.tool = "get_my_operator"   -> GetMyOperator(w, req)
    [] req.tool = "get_my_inventory"  -> GetMyInventory(w, req)
    [] req.tool \in Searches          -> Search(w, req)

(* The client moves the cursor of the list it reads. *)
Cursor(r, p, s) ==
  IF r.tool = "get_stage" /\ r.reads = "spawns"
  THEN [spawns_page |-> p, spawns_size |-> s, page |-> 1, size |-> r.size] ++ r
  ELSE [page |-> p, size |-> s] ++ r

(* run_guarded: the query's answer; or no build could be opened, or the query failed. *)
RunGuarded(w, req) == {Answer(w, req), Unavailable, InternalError}

(***************************************************************************)
(* What the client reads off an answer                                     *)
(***************************************************************************)
Has(key) == key \in DOMAIN answer.data
List == CASE request.tool = "get_stage"         -> request.reads
          [] request.tool = "get_item_drops"    -> IF Has("ranking") THEN "ranking" ELSE "stages"
          [] request.tool = "get_stage_drops"   -> "drops"
          [] request.tool = "get_banners"       -> "banners"
          [] request.tool = "get_announcements" -> "announcements"
          [] request.tool = "get_my_inventory"  -> "items"
          [] request.tool = "get_my_operator"   -> "operator"
          [] request.tool \in Searches          -> "results"
          [] OTHER -> "operators"
PageKey == CASE List = "routes" -> "routes_page" [] List = "spawns" -> "spawns_page"
             [] List = "ranking" -> "efficiency_page" [] List = "stages" -> "stages_page"
             [] OTHER -> "page"
RowsIn(key) == IF Has(key) THEN answer.data[key] ELSE <<>>
(* Ranked drops and the others of a stage are one list in two places. *)
Rows == IF request.tool = "get_stage_drops" THEN RowsIn("ranking") \o RowsIn("drops") ELSE RowsIn(List)
HasMore == Has(PageKey) /\ answer.data[PageKey][1].has_more

Withheld == <<"withheld">> \in answer.lims
(* A trimmed page of routes says nothing to a client that reads the spawns. *)
Trims    == {l \in answer.lims : l[1] = "trimmed" /\ List # "spawns"}
Failed   == answer.status \in {"database_unavailable", "internal_error"}
Refused  == Has("message")
OfAccount == {"get_my_roster", "get_my_operator", "get_my_inventory"}
Stamp == IF request.tool \in OfAccount /\ Has("about") THEN answer.data.about[1].synced_at ELSE None
Moved == stamp # None /\ Stamp # stamp

(***************************************************************************)
(* The walk                                                                *)
(***************************************************************************)
NoAnswer == [status |-> "none", data |-> Nothing, prov |-> {}, lims |-> {}]

Init ==
  /\ world \in ToSet(Worlds) /\ synced = 1
  /\ request \in Requests
  /\ page = request.from /\ size = request.size
  /\ answer = NoAnswer /\ got = <<>> /\ stamp = None /\ failures = 0 /\ pc = "ask"

Ask ==
  /\ pc = "ask" /\ pc' = "read"
  /\ answer' \in RunGuarded(WorldAt(synced), Cursor(request, page, size))
  /\ UNCHANGED <<world, synced, request, page, size, got, stamp, failures>>

(* A sync replaces the roster, at any time. *)
Resync ==
  /\ synced < Len(world.accounts) /\ synced' = synced + 1
  /\ UNCHANGED <<world, request, page, size, answer, got, stamp, failures, pc>>

Restart(s) == page' = 1 /\ size' = s /\ got' = <<>> /\ pc' = "ask"
End(how) == pc' = how /\ UNCHANGED <<page, size, got>>

Retry ==
  /\ pc = "read" /\ Failed
  /\ IF failures < MaxFailures
     THEN failures' = failures + 1 /\ pc' = "ask" /\ UNCHANGED <<page, size, got>>
     ELSE End("failed") /\ UNCHANGED failures
  /\ UNCHANGED <<world, synced, request, answer, stamp>>

GiveUp ==
  /\ pc = "read" /\ Refused /\ ~Failed /\ End("failed")
  /\ UNCHANGED <<world, synced, request, answer, stamp, failures>>

(* A withheld answer may fit on smaller pages. *)
Halve ==
  /\ pc = "read" /\ ~Refused /\ Withheld
  /\ IF size > 1 THEN Restart(size \div 2) ELSE End("failed")
  /\ stamp' = None
  /\ UNCHANGED <<world, synced, request, answer, failures>>

(* "Request a page_size of kept or smaller to receive every row." *)
Shrink ==
  /\ pc = "read" /\ ~Refused /\ ~Withheld
  /\ \E t \in Trims : Restart(t[2])
  /\ stamp' = None
  /\ UNCHANGED <<world, synced, request, answer, failures>>

StartOver ==
  /\ pc = "read" /\ ~Refused /\ ~Withheld /\ Trims = {} /\ Moved
  /\ Restart(size) /\ stamp' = None
  /\ UNCHANGED <<world, synced, request, answer, failures>>

Take ==
  /\ pc = "read" /\ ~Refused /\ ~Withheld /\ Trims = {} /\ ~Moved
  /\ got' = got \o Rows /\ stamp' = Stamp
  /\ IF HasMore THEN page' = page + 1 /\ pc' = "ask" ELSE pc' = "done" /\ UNCHANGED page
  /\ UNCHANGED <<world, synced, request, size, answer, failures>>

Next == Ask \/ Resync \/ Retry \/ GiveUp \/ Halve \/ Shrink \/ StartOver \/ Take

(* The server answers, and the client goes on: weak fairness of Ask and of the client's
   steps together, told by the only variable that always moves with them. *)
Answering == pc = "ask" /\ pc' = "read"
Reading   == pc = "read" /\ pc' \in {"ask", "done", "failed"}
Spec == Init /\ [][Next]_vars /\ WF_pc(Answering) /\ WF_pc(Reading)

(***************************************************************************)
(* What the rows stand for                                                 *)
(***************************************************************************)
Req == Cursor(request, page, size)
W   == WorldAt(IF Stamp = None THEN synced ELSE Stamp)
Asks(tools) == request.tool \in tools
OfStage     == {"get_stage", "get_stage_drops"}
Answered    == pc = "read" /\ ~Refused

Picked == Resolve(W.stages, Req).stage
Of(rows) == {r \in rows : r.server = request.server}
Item     == CHOOSE i \in Of(W.items) : i.id = request.value
(* The raw drop behind a row of either direction. *)
Drop(row) == CHOOSE d \in W.drops :
  IF request.tool = "get_item_drops"
  THEN d.item = Item.pk /\ \E s \in Of(W.stages) : s.pk = d.stage /\ s.id = row.stage_game_id
  ELSE d.stage = Picked.pk /\ ItemOf(W, d.item).id = row.item_game_id

(* A moment lies in a window of time: a date begins and ends with its day. *)
Lies(m, since, until) ==
  LET at(b, tick) == 10 * b.day + IF b.tick = None THEN tick ELSE b.tick
  IN /\ since # None => m # None /\ at(m, 0) >= at(since, 0)
     /\ until # None => m # None /\ at(m, 0) <= at(until, 9)

Locator(d) == <<d.type, d.server, d.id>>
(* Found by the name of its zone or event alone. *)
Foreign(d) == d.type = "stage" /\ ~\E s \in W.stages :
                /\ s.pk = d.pk /\ s.server = d.server /\ {s.name, s.id, s.code} \cap MatchExpression(Req) # {}
Spelled(d) == request.tool = "search_stages" /\ d.code # None /\ d.code = request.spells
Displaced(f, d) == Foreign(d) /\ ~Foreign(f) /\ ~Spelled(d)
Hit(row)   == CHOOSE d \in Documents(W) : Locator(d) = <<row.entity_type, row.server, row.game_id>>

(* The rows a list owes, by id: records of a path with the same geometry are one row. *)
Expected ==
  CASE List = "routes" -> LET read == ToSet(AllRoutes(Picked))
                          IN {{q.index : q \in {x \in read : Geometry(x) = Geometry(r)}} : r \in read}
    [] List = "spawns" -> {CleanRow(SpawnRow(s)) : s \in Picked.spawns}
    [] List = "drops"  -> {ItemOf(W, d.item).id : d \in {e \in W.drops : e.stage = Picked.pk}}
    [] List \in {"stages", "ranking"} ->
         {s.id : s \in {t \in Of(W.stages) : \E d \in W.drops :
            /\ d.stage = t.pk /\ d.item = Item.pk
            /\ List = "ranking" => Positive(t.cost) /\ Positive(d.rate)}}
    [] List = "banners" -> {b.id : b \in {x \in Of(W.banners) :
         /\ Lies(x.open, request.since, request.until)
         /\ request.query # None => x.name \in request.query}}
    [] List = "announcements" -> {a.id : a \in {x \in Of(W.announcements) :
         Lies(x.date, DayBound(request.since), DayBound(request.until))}}
    [] List = "items" -> {i \in DOMAIN W.account.user.inventory : i # NoId /\ W.account.user.inventory[i] > 0}
    [] List = "operator" -> {request.value}
    [] List = "results" ->
         LET found == IF MatchExpression(Req) = {} THEN {} ELSE Found(W, Req)
         IN {Locator(d) : d \in {f \in found :
               Cardinality({e \in found : Precedes(Strength(e, Req), Strength(f, Req))}) < size}}
    [] Asks({"get_my_roster"}) -> {op.char : op \in Matching(W, Req)}
    [] OTHER -> {o.id : o \in ToSet(FilterOperators(W, Req))}

IdOf(row) ==
  CASE List = "routes" -> row.route_indices [] List = "spawns" -> row
    [] List = "drops" -> row.item_game_id   [] List \in {"stages", "ranking"} -> row.stage_game_id
    [] List = "announcements" -> row.announce_id [] List = "items" -> row.item_id
    [] List = "results" -> <<row.entity_type, row.server, row.game_id>>
    [] OTHER -> row.game_id

RarityOf(row) == IF "rarity" \in DOMAIN row THEN row.rarity ELSE 0
InOrder(a, b) ==
  CASE List = "ranking" -> a.sanity_cost * Drop(b).rate <= b.sanity_cost * Drop(a).rate
    [] List = "banners" -> "open_time" \in DOMAIN b => "open_time" \in DOMAIN a /\ a.open_time.day >= b.open_time.day
    [] List = "items"   -> a.item_id < b.item_id
    [] List = "operators" -> RarityOf(a) >= RarityOf(b)
    [] List = "results" ->
         LET x == Hit(a)  y == Hit(b)
         IN /\ Spelled(y) => Spelled(x)
            /\ ~Displaced(y, x)
            /\ Spelled(x) = Spelled(y) /\ Foreign(x) = Foreign(y) => RegionOrder(a) <= RegionOrder(b)
    [] OTHER -> TRUE

(***************************************************************************)
(* Properties                                                              *)
(***************************************************************************)
(* A client that does what the answers tell it ends with every row of the list, once
   and in order: no page digests, ranks or counts by itself what belongs to the whole,
   and a trimmed page or a roster replaced under the walk loses nothing; a search keeps
   the strongest of both regions and never a stage found by its zone's or event's name in
   the place of an entity found by its own. *)
WalkWhole ==
  pc = "done" /\ request.from = 1 =>
    LET ids == [i \in DOMAIN got |-> IdOf(got[i])]
    IN /\ IsInjective(ids)
       /\ ToSet(ids) = Expected
       /\ \A i, j \in DOMAIN got : i < j => InOrder(got[i], got[j])
       /\ List = "results" => \A i \in DOMAIN got : \A f \in Found(W, Req) :
            Displaced(f, Hit(got[i])) => \E j \in DOMAIN got : Hit(got[j]) = f

(* Every walk ends: a page size an answer recommends is always smaller than the one it
   was asked for. *)
WalkEnds == <>(pc \in {"done", "failed"})

(* A page of one row more than a trimmed page kept would not fit with the trim told. *)
NoRoomFor(t) ==
  \E more \in {Answer(W, Cursor(request, 1, t[2] + 1))} :
    \/ \E l \in more.lims : l[1] \in {"trimmed", "withheld"}
    \/ DOMAIN more.data # DOMAIN answer.data
    \/ WireSize([more EXCEPT !.lims = @ \cup {t}]) > Cap
(* An answer fits the frame it goes out in, counts the whole list whatever it holds,
   is a prefix of its page that says how long it is and is cut no further than the
   frame asks for, and is partial when and only when a section of it was lost. *)
HonestPage ==
  Answered =>
    /\ WireSize(answer) <= Cap
    /\ answer.status = "partial" <=> Withheld \/ <<"image_shed">> \in answer.lims
    /\ Has(PageKey) =>
         LET total  == Cardinality(Expected)
             window == Max({0, Min({size, total - (page - 1) * size})})
         IN /\ answer.data[PageKey][1].total = total
            /\ HasMore <=> page * size < total
            /\ Trims = {} => Len(RowsIn(List)) = window
            /\ \A t \in Trims : t[2] = Len(RowsIn(List)) /\ t[3] = window /\ t[2] \in 1..(window - 1)
    /\ page = 1 => \A t \in Trims : NoRoomFor(t)
    /\ List = "banners" /\ Has("banners") =>
         (\E i \in DOMAIN Rows : "featured_ops" \in DOMAIN Rows[i] /\ \E k \in DOMAIN Rows[i].featured_ops :
            "image_refs" \in DOMAIN Rows[i].featured_ops[k])
         <=> (ImageRefKeys \subseteq DOMAIN answer.data /\ <<"image_refs">> \in answer.lims)

(* The stages under the code that was asked for, and what the answer says of them. *)
Sharing == {s.id : s \in {t \in Of(W.stages) : t.code = request.value}}
SaysShared(l) ==
  /\ l[1] = "shared_code" /\ l[2] \in Sharing /\ (Has("stage") => l[2] = answer.data.stage[1].game_id)
  /\ IsInjective(l[5]) /\ ToSet(l[5]) \subseteq Sharing \ {l[2]}
  /\ IF l[6] = -1 THEN l[4] <= Cardinality(Sharing)
     ELSE l[4] = Cardinality(Sharing) /\ Len(l[5]) + l[6] + 1 = l[4]
Moments == {[day |-> d, tick |-> t] : d \in 0..4, t \in 0..2}
(* Nothing that decides how an answer reads is left unsaid, on any page and whatever was
   shed from it: another stage under the same code, rates past their expiry anywhere in
   the list, a feed that was never imported, why a pool has no operators, an owned
   operator the build does not know, the zone or event a stage was found by; and what it
   says is missing is missing. *)
Disclosed ==
  pc = "read" =>
    /\ Asks(OfStage) /\ request.by = "code" /\ ~Refused =>
         IF Cardinality(Sharing) > 1 THEN \E l \in answer.lims : SaysShared(l)
         ELSE \A l \in answer.lims : l[1] # "shared_code"
    /\ Asks({"get_stage_drops", "get_item_drops"}) /\ ~Refused =>
         LET facts == IF Asks({"get_stage_drops"}) THEN StageDropFacts(W, Picked) ELSE ItemDropFacts(W, Item)
         IN /\ Stale(facts) <=> <<"stale">> \in answer.lims
            /\ Stale(facts) => answer.status \in {"data_stale", "partial"}
            /\ request.from = 1 => (facts = <<>> <=> <<"no_drops">> \in answer.lims)
            /\ \A i \in DOMAIN Rows : "expired" \in DOMAIN Rows[i] <=> IsExpired(Drop(Rows[i]), W.now)
    /\ Asks({"get_announcements"}) /\ ~Refused /\ Expected = {} =>
         \E l \in answer.lims : CASE l[1] = "feed_not_imported" -> request.server \notin W.feeds
                                  [] l[1] = "empty_window" -> request.server \in W.feeds /\ {request.since, request.until} # {None}
                                  [] l[1] = "feed_empty"   -> request.server \in W.feeds /\ Of(W.announcements) = {}
                                  [] OTHER -> FALSE
    /\ answer.status = "invalid_input" => ~\E m \in Moments : Lies(m, request.since, request.until)
    /\ List = "banners" /\ Has("banners") =>
         \A i \in DOMAIN Rows : "featured_ops" \notin DOMAIN Rows[i] =>
           \E l \in answer.lims :
             \/ l[1] = "absent_array" /\ "rule_type" \in DOMAIN Rows[i] /\ Rows[i].rule_type \in l[2]
             \/ l[1] = "standard_banner" /\ ("rule_type" \in DOMAIN Rows[i] => Rows[i].rule_type \in StandardRules)
    /\ Asks(Searches) =>
         /\ answer.status = "data_stale" =>
              ~\E d \in Documents(W) : request.server = None \/ d.server = request.server
         /\ Has("results") /\ Rows = <<>> =>
              IF ToSet(request.query) = {} THEN <<"no_searchable_tokens">> \in answer.lims
              ELSE <<"no_match">> \in answer.lims /\ RegionGate(W, Req)
         /\ \A i \in DOMAIN Rows : Foreign(Hit(Rows[i])) =>
              MatchExpression(Req) \subseteq {Rows[i][f] : f \in DOMAIN Rows[i] \cap {"zone_display_name", "event_name"}}
    /\ Asks({"get_my_roster"}) /\ Has("operators") =>
         (<<"unknown_operator">> \in answer.lims
            <=> \E i \in DOMAIN Rows : Builds(W, request.server, Rows[i].game_id) = {})

(* The stamps of a row: its own, or the ones all rows share. *)
Restored(row) == [f \in {"snapshot_id", "fetched_at", "expires_at"} |->
                   IF f \in DOMAIN row THEN row[f] ELSE answer.data.drop_provenance[1][f]]
Cells(grid) == {[x |-> c[1] - 1, y |-> c[2] - 1, kind |-> grid.legend[grid.rows[c[2]][c[1]]]] :
                 c \in {d \in (DOMAIN grid.rows[1]) \X (DOMAIN grid.rows) : grid.rows[d[2]][d[1]] # 0}}
(* A compact form says what it was made from: the grid gives every tile back, the shared
   stamps give every drop its own, a rate that is not zero does not turn into zero, of a
   base's slot the stage that is in effect is the last one unlocked, and the route of a
   spawn is among the routes received. *)
Decodes ==
  /\ Answered /\ Asks({"get_stage"}) /\ ~Withheld =>
       /\ Has("tile_grid") => Cells(answer.data.tile_grid[1]) = Picked.tiles
       /\ request.map /\ Picked.tiles # {} /\ ~Has("tile_grid") =>
            answer.lims \cap {<<"grid_oversize">>, <<"grid_refused">>} # {}
  /\ Answered /\ Asks({"get_stage_drops", "get_item_drops"}) => \A i \in DOMAIN Rows :
       /\ Restored(Rows[i]) = Stamps(Fact(Drop(Rows[i]), W.now, 0, 0, 0))
       /\ Positive(Drop(Rows[i]).rate) => Rows[i].drop_rate > 0
  /\ Answered /\ Asks({"get_my_roster"}) => \A i \in DOMAIN Rows : "base_skills" \in DOMAIN Rows[i] =>
       \A k \in DOMAIN Rows[i].base_skills :
         LET e == Rows[i].base_skills[k]
             own == {s \in BuildOf(W, request.server, Rows[i].game_id).base : s.slot = e.slot}
             open == {s \in own : Reached(s, <<Rows[i].elite, Rows[i].level>>)}
         IN \E this \in own :
              /\ this.phase = e.unlock_elite /\ this.level = e.unlock_level
              /\ IF e.in_effect THEN this \in open /\ \A s \in open : s.stage <= this.stage ELSE this \notin open
  /\ pc = "done" /\ List = "routes" /\ request.spawns =>
       \A s \in Picked.spawns : (\E r \in Picked.routes : r.index = s.route) =>
         \/ \E i \in DOMAIN got : s.route \in got[i].route_indices
         \/ <<"routes_truncated">> \in answer.lims

(* "This item exists but the Penguin Statistics cache lists no stage that drops it." *)
NoDropsClaimTrue ==
  Answered /\ Asks({"get_item_drops"}) /\ <<"no_drops">> \in answer.lims =>
    ~\E d \in W.drops : d.item = Item.pk
===============================================================================
