------------------------------- MODULE SearchView -------------------------------
(***************************************************************************)
(* search_entities and search_stages: services/search.py, tools/search.py  *)
(* and the queries of db/repositories/search.py over the full-text index   *)
(* that importers/search_index.py builds.                                  *)
(*                                                                         *)
(* A document holds words of its own and, in its aliases, more; a stage's  *)
(* aliases are the names of its zone and of its event.  A token stands for *)
(* the words it begins.  Ids of different kinds of entity never compare    *)
(* equal and score alike.                                                  *)
(***************************************************************************)
EXTENDS StageView

CONSTANTS Bm25(_, _),   \* rank of a document for a query: the less, the better
          MaxTokens     \* _MAX_TOKENS

(***************************************************************************)
(* The index                                                               *)
(***************************************************************************)
Document(type, row, code, own, alias) ==
  [type |-> type, server |-> row.server, pk |-> row.pk, id |-> row.id, name |-> row.name, code |-> code,
   own |-> own \ {None, Mask}, alias |-> alias \ {None, Mask}]
(* build_search_index: an operator's and an enemy's aliases are its own names. *)
Documents(w) ==
  {Document("stage", s, s.code, {s.name, s.id, s.code}, {s.zone, s.event}) : s \in w.stages}
  \cup {Document("operator", o, None, {o.name, o.id} \cup o.tags, o.names) : o \in w.operators}
  \cup {Document("enemy", e, None, {e.name, e.id}, e.names) : e \in w.enemies}
  \cup {Document("item", i, None, {i.name, i.id}, {}) : i \in w.items}

(* _match_expression: every token, up to the cap, is in some column. *)
MatchExpression(req) == ToSet(Limit(req.query, MaxTokens))
Matches(d, tokens) == tokens \subseteq d.own \cup d.alias

(* _ALIAS_ONLY_GROUP: found only by a name that is another's. *)
AliasOnly(d, tokens) == d.type = "stage" /\ tokens \cap d.own = {}
(* exact_grp: the query spells the stage's code. *)
Exact(d, req) == req.tool = "search_stages" /\ d.code # None /\ d.code = req.spells

(***************************************************************************)
(* _SEARCH_SQL and _STAGE_SEARCH_SQL                                       *)
(***************************************************************************)
Found(w, req) ==
  {d \in Documents(w) : /\ Matches(d, MatchExpression(req))
                        /\ req.server # None => d.server = req.server
                        /\ req.type # None => d.type = req.type}

Group(d, req)   == (IF Exact(d, req) THEN 0 ELSE 2) + (IF AliasOnly(d, MatchExpression(req)) THEN 1 ELSE 0)
RegionOrder(d)  == IF d.server = "en" THEN 0 ELSE 1
Score(d, req)   == Bm25(d, MatchExpression(req))
Precedes(a, b) == \E i \in DOMAIN a : a[i] < b[i] /\ \A j \in 1..(i - 1) : a[j] = b[j]
Strength(d, req) == <<Group(d, req), Score(d, req), RegionOrder(d), d.id>>
Display(d, req)  == <<Group(d, req), RegionOrder(d), Score(d, req), d.id>>

(* The strongest are kept, whatever their region; those kept are told region by region. *)
Hits(w, req) ==
  LET strongest == Limit(OrderBy(Found(w, req), LAMBDA a, b : Precedes(Strength(a, req), Strength(b, req))), req.size)
  IN OrderBy(ToSet(strongest), LAMBDA a, b : Precedes(Display(a, req), Display(b, req)))

(***************************************************************************)
(* The answer                                                              *)
(***************************************************************************)
(* active_servers: the regions with a snapshot in the build. *)
ActiveServers(w) == {s.server : s \in w.snapshots}
(* _region_gate: before absence is asserted. *)
RegionGate(w, req) ==
  IF req.server = None THEN ActiveServers(w) # {} ELSE req.server \in ActiveServers(w)

(* _hit_to_dict: a stage with its variant, and with the names of its zone and event. *)
HitToDict(w, d) ==
  [entity_type |-> d.type, server |-> d.server, game_id |-> d.id, display_name |-> d.name]
  ++ (IF d.type # "stage" THEN Nothing
      ELSE LET s == CHOOSE t \in w.stages : t.pk = d.pk /\ t.server = d.server
           IN [stage_code |-> d.code, difficulty |-> StageVariant(s),
               zone_display_name |-> s.zone, event_name |-> s.event])

(* search_entities and search_stages of the service: the region, then the tokens, then the
   index; an answer without hits has its reason. *)
SearchEntities(w, req) ==
  LET tokens == MatchExpression(req)
      hits   == IF tokens = {} THEN <<>> ELSE Hits(w, req)
  IN IF ~RegionGate(w, req) THEN [status |-> "data_stale", hits |-> <<>>, reason |-> None]
     ELSE [status |-> "ok", hits |-> hits,
           reason |-> IF tokens = {} THEN "no_searchable_tokens" ELSE IF hits = <<>> THEN "no_match" ELSE None]

(* _guarded_search *)
Search(w, req) ==
  LET result == SearchEntities(w, req)
      rows   == [i \in DOMAIN result.hits |-> HitToDict(w, result.hits[i])]
      staged == \E i \in DOMAIN result.hits : result.hits[i].type = "stage"
  IN IF result.status # "ok" THEN Error(result.status)
     ELSE Build("ok", [about |-> <<[query |-> req.query, count |-> Len(rows)]>>, results |-> rows]
                      ++ (IF staged THEN [enum_legend |-> <<[difficulty |-> TRUE]>>] ELSE Nothing),
                {}, If(result.reason # None, {<<result.reason>>}))
===============================================================================
