------------------------------ MODULE BannerView -------------------------------
(***************************************************************************)
(* The two listings with a window of time: get_banners (services/          *)
(* banners.py, tools/banners.py) and get_announcements (services/          *)
(* announcements.py, tools/announcements.py), and their bounds             *)
(* (util/iso_bounds.py, models/common.py).                                 *)
(*                                                                         *)
(* A moment is [day, tick]; a bound is one too, with no tick when it is a  *)
(* date.  Bounds are compared as canonical text with the moments stored,   *)
(* an upper one with a character after it that sorts after all others.     *)
(***************************************************************************)
EXTENDS Envelope

CONSTANT StandardRules   \* NO_TYPED_FEATURED_OP_RULE_TYPES

(***************************************************************************)
(* Bounds                                                                  *)
(***************************************************************************)
(* text order: a date is a prefix of the moments of its day. *)
NotBelow(m, since) == m.day > since.day \/ (m.day = since.day /\ (since.tick = None \/ m.tick >= since.tick))
NotAbove(m, until) == m.day < until.day \/ (m.day = until.day /\ (until.tick = None \/ m.tick <= until.tick))

InWindow(m, since, until) ==
  /\ since # None => m # None /\ NotBelow(m, since)
  /\ until # None => m # None /\ NotAbove(m, until)

(* inverted_window_reason: the pair can match nothing. *)
Inverted(since, until) ==
  /\ since # None /\ until # None
  /\ \/ since.day > until.day
     \/ since.day = until.day /\ since.tick # None /\ until.tick # None /\ since.tick > until.tick

(* window_bound for a column of dates, and the bounds that lose their time of day. *)
DayBound(bound) == IF bound = None THEN None ELSE [bound EXCEPT !.tick = None]
CoarsenedBounds(req) == {b \in {"since", "until"} : req[b] # DayBound(req[b])}

(* ORDER BY the column at, its newest first and NULL last, then id. *)
NewestFirst(rows, at) ==
  LET later(a, b) == /\ a # None
                     /\ b # None => a.day > b.day \/ (a.day = b.day /\ a.tick > b.tick)
  IN OrderBy(rows, LAMBDA a, b : later(a[at], b[at]) \/ (a[at] = b[at] /\ a.id < b.id))

(***************************************************************************)
(* get_banners                                                             *)
(***************************************************************************)
(* _BANNERS_SQL; the query is the set of the names that contain it. *)
BannersOf(w, req) ==
  NewestFirst({b \in w.banners : /\ b.server = req.server
                                 /\ InWindow(b.open, req.since, req.until)
                                 /\ req.query # None => b.name # None /\ b.name \in req.query}, "open")

FeaturedOp(op, refs) ==
  [char_id |-> op.char, resolved |-> op.resolved, operator_name |-> op.name,
   image_refs |-> IF refs /\ op.resolved THEN "portrait and avatar" ELSE None]
(* A pool without a featured operator has no list of them, not an empty one. *)
BannerRow(b, refs) ==
  [game_id |-> b.id, display_name |-> b.name, open_time |-> b.open, end_time |-> b.end, rule_type |-> b.rule]
  ++ (IF b.ops = {} THEN Nothing
      ELSE LET ops == OrderBy(b.ops, LAMBDA x, y : x.char < y.char)
           IN [featured_ops |-> [i \in DOMAIN ops |-> FeaturedOp(ops[i], refs)]])

(* _limitations, over the page: which absence each pool without operators is. *)
Standard(b) == b.rule = None \/ b.rule \in StandardRules
BannerLimitations(page) ==
  LET bare == {b \in ToSet(page) : b.ops = {}}
      absent == {b.rule : b \in {x \in bare : ~Standard(x)}}
  IN If(\E b \in bare : Standard(b), {<<"standard_banner">>})
     \cup If(absent # {}, {<<"absent_array", absent>>})
     \cup If(\E b \in ToSet(page) : \E op \in b.ops : ~op.resolved, {<<"unresolved">>})

(* The shed plan: the references of the whole page, then rows from its end. *)
BannerPlan == <<[part |-> "image_refs", paginated |-> TRUE], [part |-> "banners", paginated |-> TRUE]>>

(* get_banners of the service: provenance over all that match, limitations over the page. *)
BannersResult(w, req) ==
  LET all  == BannersOf(w, req)
      page == PageOf(all, req.page, req.size)
  IN [banners |-> page, page |-> SectionPage(req.page, req.size, Len(all)),
      prov |-> {b.snap : b \in ToSet(all)}, lims |-> BannerLimitations(page)]

(* _shape: the base of the references and their caveat go with a page that has some. *)
ShapeBanners(w, req, r) ==
  LET refs == w.refs /\ \E b \in ToSet(r.banners) : \E op \in b.ops : op.resolved
      data == [server  |-> <<[server |-> req.server]>>,
               banners |-> [i \in DOMAIN r.banners |-> BannerRow(r.banners[i], w.refs)],
               page    |-> <<r.page>>]
              ++ (IF r.banners = <<>> THEN Nothing ELSE [enum_legend |-> <<[rule_type |-> TRUE]>>])
  IN BuildShedding("ok", IF refs THEN WithImageRefs(data) ELSE data, r.prov,
                   r.lims \cup If(refs, {<<"image_refs">>}) \cup If(r.banners # <<>>, {<<"enum_note">>}),
                   BannerPlan)

GetBanners(w, req) ==
  IF Inverted(req.since, req.until) THEN Error("invalid_input") ELSE ShapeBanners(w, req, BannersResult(w, req))

(***************************************************************************)
(* get_announcements                                                       *)
(***************************************************************************)
(* _ANNOUNCEMENTS_SQL: dates have no time of day, nor have the bounds by now. *)
AnnouncementsOf(w, req) ==
  NewestFirst({a \in w.announcements : a.server = req.server
                                       /\ InWindow(a.date, DayBound(req.since), DayBound(req.until))}, "date")

(* Whether the feed has ever been imported decides first. *)
WhyEmpty(w, req) ==
  IF req.server \notin w.feeds THEN {<<"feed_not_imported">>}
  ELSE IF req.since # None \/ req.until # None THEN {<<"empty_window">>} ELSE {<<"feed_empty">>}

(* get_announcements of the service *)
AnnouncementsResult(w, req) ==
  LET all == AnnouncementsOf(w, req)
  IN [announcements |-> PageOf(all, req.page, req.size), page |-> SectionPage(req.page, req.size, Len(all)),
      prov |-> {a.snap : a \in ToSet(all)},
      lims |-> If(CoarsenedBounds(req) # {}, {<<"day_bounds", CoarsenedBounds(req)>>})
               \cup If(all = <<>>, WhyEmpty(w, req))]

AnnouncementRow(a) ==
  [announce_id |-> a.id, title |-> a.title, date |-> a.date, url |-> a.url, category |-> a.category]
ShapeAnnouncements(req, r) ==
  Build("ok", [server |-> <<[server |-> req.server]>>,
               announcements |-> [i \in DOMAIN r.announcements |-> AnnouncementRow(r.announcements[i])],
               page |-> <<r.page>>], r.prov, r.lims)

GetAnnouncements(w, req) ==
  IF Inverted(req.since, req.until) THEN Error("invalid_input")
  ELSE ShapeAnnouncements(req, AnnouncementsResult(w, req))
===============================================================================
