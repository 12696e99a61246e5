------------------------------- MODULE DropView --------------------------------
(***************************************************************************)
(* get_stage_drops and get_item_drops: services/drops.py, the farming      *)
(* analyzer (analyzers/farming.py) and tools/drops.py.                     *)
(*                                                                         *)
(* A drop is a row of stage_drops: the keys of its stage and item, its     *)
(* counts, its rate in parts of an item, and its penguin stamps.  A time   *)
(* that cannot be read is 0.  A fact is a drop with what it is joined to;  *)
(* its id is the item's in the view of a stage and the stage's in the view *)
(* of an item, and code tells stages of equal cost apart.                  *)
(***************************************************************************)
EXTENDS StageView

CONSTANTS SampleFloor,   \* SAMPLE_SIZE_FLOOR
          RateStep       \* parts of an item in one step of an emitted rate (4 dp)

Unread == 0

(***************************************************************************)
(* Facts                                                                   *)
(***************************************************************************)
IsExpired(d, now) == d.expires = Unread \/ now >= d.expires

(* _item_rarity_tier: stored from 0, told from 1. *)
ItemRarityTier(rarity) == IF rarity = None THEN None ELSE rarity + 1

Fact(d, now, id, code, cost) ==
  [id |-> id, code |-> code, cost |-> cost, quantity |-> d.quantity, times |-> d.times,
   rate |-> d.rate, snap |-> d.snap, fetched |-> d.fetched, expires |-> d.expires,
   expired |-> IsExpired(d, now)]

ItemOf(w, pk)  == CHOOSE i \in w.items : i.pk = pk
StageOf(w, pk) == CHOOSE s \in w.stages : s.pk = pk
Order(code)    == IF code = None THEN 0 ELSE code

(* _DROPS_BY_STAGE_SQL and _DROPS_BY_ITEM_SQL, in their order *)
StageDropFacts(w, s) ==
  OrderBy({Fact(d, w.now, ItemOf(w, d.item).id, None, s.cost) : d \in {e \in w.drops : e.stage = s.pk}},
               LAMBDA a, b : a.id < b.id)
ItemDropFacts(w, item) ==
  LET of == {d \in w.drops : d.item = item.pk /\ StageOf(w, d.stage).server = item.server}
  IN OrderBy({LET s == StageOf(w, d.stage) IN Fact(d, w.now, s.id, s.code, s.cost) : d \in of},
                  LAMBDA a, b : Order(a.code) < Order(b.code) \/ (Order(a.code) = Order(b.code) /\ a.id < b.id))

Stale(facts) == \E i \in DOMAIN facts : facts[i].expired

(***************************************************************************)
(* Efficiency                                                              *)
(***************************************************************************)
Positive(v) == v # None /\ v > 0
Rankable(f) == Positive(f.cost) /\ Positive(f.rate)

(* Cheapest item first: sanity per item as a ratio, then the code, then the id. *)
RankBefore(a, b) ==
  LET x == a.cost * b.rate  y == b.cost * a.rate
  IN \/ x < y
     \/ x = y /\ Order(a.code) < Order(b.code)
     \/ x = y /\ Order(a.code) = Order(b.code) /\ a.id < b.id
Ranking(facts) == OrderBy({f \in ToSet(facts) : Rankable(f)}, RankBefore)

(* _efficiency: the marks of a sample, and the confidence they leave, in tenths. *)
Stable == 8
Flags(f) == IF f.times = None THEN {"sample_unreported"}
            ELSE If(f.times < SampleFloor, {"thin_sample"})
Confidence(f, expired) == IF expired \/ Flags(f) # {} THEN 3 ELSE Stable

(* _ranked_observation: what qualifies the whole ranking, and each mark once. *)
Observation(ranking, expired, caveats) ==
  [confidence  |-> Stable,
   limitations |-> caveats \cup If(expired, {"expired"}) \cup UNION {Flags(f) : f \in ToSet(ranking)}]
ItemCaveats == {"availability", "first_clear", "byproducts"}

(* The facts left out of the ranking, each with its reason; a stage without a cost is
   one reason for all. *)
Excluded(facts) ==
  {[what |-> IF Positive(f.cost) THEN "rate" ELSE "cost", id |-> f.id] : f \in {g \in ToSet(facts) : ~Rankable(g)}}
Warnings(cost, facts) == IF Positive(cost) THEN Excluded(facts) ELSE {[what |-> "cost", id |-> None]}

(***************************************************************************)
(* Rows                                                                    *)
(***************************************************************************)
(* _round_drop_rate: to the even step at a tie; a positive rate stays positive. *)
RoundDropRate(rate) ==
  LET q == rate \div RateStep  r == 2 * (rate % RateStep)
      rounded == RateStep * (IF r > RateStep \/ (r = RateStep /\ q % 2 = 1) THEN q + 1 ELSE q)
  IN IF rate = None THEN None ELSE IF rounded = 0 THEN rate ELSE rounded

(* sanity_per_item, rounded to the nearest hundredth per part of a rate. *)
Figure(f) == (200 * f.cost + f.rate) \div (2 * f.rate)

Stamps(f) == [snapshot_id |-> f.snap, fetched_at |-> f.fetched, expires_at |-> f.expires]
(* The order of the stamps as tuples; the import time goes with the snapshot. *)
StampsBefore(a, b) ==
  \/ a.expires_at < b.expires_at
  \/ a.expires_at = b.expires_at /\ a.fetched_at < b.fetched_at
  \/ a.expires_at = b.expires_at /\ a.fetched_at = b.fetched_at /\ a.snapshot_id < b.snapshot_id
(* hoist_drop_provenance: the most common stamps, the last of them at a tie. *)
SharedStamps(facts) ==
  LET blocks   == [i \in DOMAIN facts |-> Stamps(facts[i])]
      count(b) == Cardinality({i \in DOMAIN blocks : blocks[i] = b})
  IN IF facts = <<>> THEN Nothing
     ELSE CHOOSE b \in ToSet(blocks) : \A c \in ToSet(blocks) \ {b} :
            count(b) > count(c) \/ (count(b) = count(c) /\ StampsBefore(c, b))
(* What a row says otherwise. *)
Deviation(block, shared) == [f \in {g \in DOMAIN block : block[g] # shared[g]} |-> block[f]]

(* A raw row, and the ranked row that takes its place. *)
RawRow(f, identity, shared) ==
  identity ++ Deviation(Stamps(f), shared) ++ [expired |-> IF f.expired THEN TRUE ELSE None]
RankedRow(f, identity, shared, expired) ==
  RawRow(f, identity, shared)
  ++ [sanity_per_item |-> Figure(f),
      confidence      |-> IF Confidence(f, expired) = Stable THEN None ELSE Confidence(f, expired),
      flags           |-> IF Flags(f) = {} THEN None ELSE Flags(f)]

DropIdentity(w, server, f) ==
  LET item == CHOOSE i \in w.items : i.server = server /\ i.id = f.id
  IN [item_game_id |-> f.id, item_display_name |-> item.name,
      item_rarity |-> ItemRarityTier(item.rarity), item_type |-> item.type,
      quantity |-> f.quantity, times |-> f.times, drop_rate |-> RoundDropRate(f.rate)]
StageDropIdentity(f) ==
  [stage_game_id |-> f.id, stage_code |-> f.code, sanity_cost |-> f.cost,
   quantity |-> f.quantity, times |-> f.times, drop_rate |-> RoundDropRate(f.rate)]

(* A section that is there only when it has been asked for and computed. *)
Section(condition, data) == IF condition THEN data ELSE Nothing
Noted(stale, lims, ranked) ==
  lims \cup If(stale, {<<"stale">>}) \cup If(ranked, {<<"confidence_scale">>}) \cup {<<"enum_note">>}
AgedStatus(stale) == IF stale THEN "data_stale" ELSE "ok"

(***************************************************************************)
(* get_stage_drops                                                         *)
(***************************************************************************)
(* get_stage_drops of the service: a stage resolved without drops is not analysed. *)
StageDropsResult(w, req) ==
  LET found == Resolve(w.stages, req)
      drops == StageDropFacts(w, found.stage)
  IN [found |-> found, drops |-> drops, stale |-> Stale(drops), analyzed |-> req.efficiency /\ drops # <<>>,
      ranking |-> IF req.efficiency THEN Ranking(drops) ELSE <<>>]

(* _shape: a ranked drop moves into the ranking, the others stay; no key "drops" when
   they all moved, an empty one when there are none. *)
ShapeStageDrops(w, r) ==
  LET s        == r.found.stage
      shared   == SharedStamps(r.drops)
      ranked   == r.ranking # <<>>
      residual == SelectSeq(r.drops, LAMBDA f : f \notin ToSet(r.ranking))
      identity(f) == DropIdentity(w, s.server, f)
      data == [stage |-> <<[server |-> s.server, game_id |-> s.id, stage_code |-> s.code,
                            display_name |-> s.name, sanity_cost |-> s.cost]>>,
               drop_provenance |-> <<shared>>, enum_legend |-> <<[item_type |-> TRUE]>>]
              ++ Section(residual # <<>> \/ r.drops = <<>>,
                         [drops |-> [i \in DOMAIN residual |-> RawRow(residual[i], identity(residual[i]), shared)]])
              ++ Section(r.analyzed, [warnings |-> Listed(Warnings(s.cost, r.drops))])
              ++ Section(ranked,
                         [observation |-> <<Observation(r.ranking, r.stale, {})>>,
                          ranking |-> [i \in DOMAIN r.ranking |->
                                         RankedRow(r.ranking[i], identity(r.ranking[i]), shared, r.stale)]])
      lims == AmbiguityLimitation(r.found)
              \cup If(r.drops = <<>>, {<<"no_drops">>})
              \cup If(r.drops = <<>> /\ r.found.alternates # <<>>, {<<"try_alternates">> \o Named(r.found)})
  IN Build(AgedStatus(r.stale), data, {s.snap}, Noted(r.stale, lims, ranked))

GetStageDrops(w, req) ==
  IF Resolve(w.stages, req).stage = None THEN Error("not_found") ELSE ShapeStageDrops(w, StageDropsResult(w, req))

(***************************************************************************)
(* get_item_drops                                                          *)
(***************************************************************************)
(* The whole set is ranked, then sliced. *)
RankedPage(facts, req) == PageOf(Ranking(facts), req.page, req.size)

(* get_item_drops of the service: what does not depend on the page, and the page of the
   ranking, or of the stages when there is none.  Each list has a cursor of its own in
   the code; the client moves the one of the list it reads. *)
ItemDropsResult(w, req) ==
  LET item   == CHOOSE i \in w.items : i.server = req.server /\ i.id = req.value
      all    == ItemDropFacts(w, item)
      ranked == req.efficiency /\ Ranking(all) # <<>>
  IN [item |-> item, all |-> all, stale |-> Stale(all), analyzed |-> req.efficiency /\ all # <<>>,
      ranked |-> ranked, total |-> IF ranked THEN Len(Ranking(all)) ELSE Len(all),
      page |-> IF ranked THEN RankedPage(all, req) ELSE PageOf(all, req.page, req.size)]

ItemFacts(item) ==
  [server |-> item.server, game_id |-> item.id, display_name |-> item.name,
   rarity |-> ItemRarityTier(item.rarity), item_type |-> item.type]
ItemProvenance(facts) == {f.snap : f \in ToSet(facts)}

(* _shape_item: a ranking takes the place of the stages and of their page. *)
ShapeItemDrops(r, req) ==
  LET shared == SharedStamps(r.page)
      of(i)  == StageDropIdentity(r.page[i])
      window == <<SectionPage(req.page, req.size, r.total)>>
      data == [item |-> <<ItemFacts(r.item)>>,
               drop_provenance |-> <<shared>>, enum_legend |-> <<[item_type |-> TRUE]>>]
              ++ Section(~r.ranked, [stages |-> [i \in DOMAIN r.page |-> RawRow(r.page[i], of(i), shared)]])
              ++ Section(~r.ranked /\ r.all # <<>>, [stages_page |-> window])
              ++ Section(r.analyzed, [warnings |-> Listed(Excluded(r.all))])
              ++ Section(r.ranked,
                         [observation |-> <<Observation(Ranking(r.all), Stale(Ranking(r.all)), ItemCaveats)>>,
                          ranking |-> [i \in DOMAIN r.page |-> RankedRow(r.page[i], of(i), shared, r.page[i].expired)],
                          efficiency_page |-> window])
  IN Build(AgedStatus(r.stale), data, ItemProvenance(r.all),
           Noted(r.stale, If(r.page = <<>>, {<<"no_drops">>}), r.ranked))

GetItemDrops(w, req) ==
  IF ~\E i \in w.items : i.server = req.server /\ i.id = req.value THEN Error("not_found")
  ELSE ShapeItemDrops(ItemDropsResult(w, req), req)
===============================================================================
