------------------------------- MODULE Envelope -------------------------------
(***************************************************************************)
(* What every tool answers with (mcp/envelopes.py) and how an answer over  *)
(* the size cap is cut down (mcp/shed.py): the payload is shrunk along the *)
(* tool's plan, or withheld.                                               *)
(*                                                                         *)
(* A payload maps each of its keys to a sequence of rows; a block that is  *)
(* not a list is a sequence of one.  A row maps its fields to values; None *)
(* is a value the source has not, Mask a text without a readable           *)
(* character.  Limitations are tuples that start with the name of what     *)
(* they say.  A size counts fields, limitations and provenance rows.       *)
(***************************************************************************)
EXTENDS Integers, Sequences, FiniteSets, SequencesExt, FiniteSetsExt

CONSTANTS None, Mask,
          Cap       \* MAX_RESPONSE_BYTES

(* Fields of both, the first's where they share one. *)
f ++ g == [k \in DOMAIN f \cup DOMAIN g |-> IF k \in DOMAIN f THEN f[k] ELSE g[k]]

Failures == {"not_found", "ambiguous", "invalid_input", "unsupported_server",
             "database_unavailable", "schema_incompatible", "analysis_unavailable",
             "internal_error"}
Statuses == Failures \cup {"ok", "partial", "data_stale"}

(***************************************************************************)
(* Sizes                                                                   *)
(***************************************************************************)
(* Fields that hold rows of their own, and the one that holds a document. *)
Nested == {"checkpoints", "featured_ops", "base_skills"}
Bytes(row) ==
  Cardinality(DOMAIN row)
  + MapThenSumSet(LAMBDA k : MapThenSumSet(LAMBDA i : Cardinality(DOMAIN row[k][i]), DOMAIN row[k]),
                  DOMAIN row \cap Nested)
  + IF "svg" \in DOMAIN row THEN row.svg ELSE 0
Weight(data, key) ==
  IF key \notin DOMAIN data THEN 0
  ELSE MapThenSumSet(LAMBDA i : Bytes(data[key][i]), DOMAIN data[key])

(* wire_size: the payload goes out twice, structured and as text. *)
WireSize(env) ==
  2 * (MapThenSumSet(LAMBDA k : Weight(env.data, k), DOMAIN env.data)
       + Cardinality(env.lims) + Cardinality(env.prov))

(***************************************************************************)
(* clean_payload                                                           *)
(***************************************************************************)
Maskable == {"display_name", "zone_display_name", "item_display_name", "operator_name", "event_name", "title",
             "stage_code"}
MaskedRow(row) == \E f \in DOMAIN row \cap Maskable : row[f] = Mask
Masked(data) ==
  \E k \in DOMAIN data : \E i \in DOMAIN data[k] :
    \/ MaskedRow(data[k][i])
    \/ \E f \in DOMAIN data[k][i] \cap Nested : \E j \in DOMAIN data[k][i][f] : MaskedRow(data[k][i][f][j])
DropNulls(row) == [f \in {g \in DOMAIN row : row[g] # None} |-> row[f]]
CleanRow(row) == [f \in DOMAIN DropNulls(row) |->
                    IF f \in Nested THEN [i \in DOMAIN row[f] |-> DropNulls(row[f][i])] ELSE row[f]]
CleanPayload(data) == [k \in DOMAIN data |-> [i \in DOMAIN data[k] |-> CleanRow(data[k][i])]]

(***************************************************************************)
(* What the tools' shed plans cut, part by part                            *)
(*                                                                         *)
(* A part has so many depths, the shallowest first; none when the payload  *)
(* has nothing of it.                                                      *)
(***************************************************************************)
Nothing == [k \in {} |-> <<>>]
ImageRefKeys == {"image_refs_base_url", "image_refs_source_id", "image_refs_legend"}

Depths(part, env) ==
  IF part = "image_refs" THEN IF ImageRefKeys \subseteq DOMAIN env.data THEN 1 ELSE 0
  ELSE IF part \notin DOMAIN env.data THEN 0
  ELSE IF part = "map_image" THEN 1 ELSE Max({0, Len(env.data[part]) - 1})

(* Slip: the trim tells the size that was asked for. *)
KeepRowsEcho(part, env, kept) ==
  [env EXCEPT !.data[part] = SubSeq(@, 1, kept),
              !.lims = @ \cup {<<"trimmed", IF part = "routes" THEN env.data.routes_page[1].page_size ELSE kept,
                                Len(env.data[part])>>}]

(* A prefix of the page, and what is said of it (_shed_routes, _shed_rows). *)
KeepRows(part, env, kept) ==
  [env EXCEPT !.data[part] = SubSeq(@, 1, kept), !.lims = @ \cup {<<"trimmed", kept, Len(env.data[part])>>}]

(* _shed_map_image *)
DropImage(env) ==
  [env EXCEPT !.data = [k \in DOMAIN @ \ {"map_image"} |-> @[k]], !.lims = @ \cup {<<"image_shed">>}]

(* _shed_image_refs: the references of every row, their base and their caveat. *)
WithoutRefs(row) ==
  IF "featured_ops" \notin DOMAIN row THEN row
  ELSE [row EXCEPT !.featured_ops =
          [i \in DOMAIN @ |-> [f \in DOMAIN @[i] \ {"image_refs"} |-> @[i][f]]]]
DropRefs(env) ==
  [env EXCEPT !.data = [k \in DOMAIN @ \ ImageRefKeys |->
                          IF k = "banners" THEN [i \in DOMAIN @[k] |-> WithoutRefs(@[k][i])] ELSE @[k]],
              !.lims = (@ \ {<<"image_refs">>}) \cup {<<"refs_shed">>}]

Cut(part, env, depth) ==
  CASE part = "map_image"  -> DropImage(env)
    [] part = "image_refs" -> DropRefs(env)
    [] OTHER               -> KeepRows(part, env, Len(env.data[part]) - 1 - depth)

(***************************************************************************)
(* shed_to_fit                                                             *)
(***************************************************************************)
(* Slip: stops at the first depth that fits. *)
ShallowestAnyFitting(count, fits) ==
  LET probe[span \in (0..count) \X (-1..(count - 1))] ==
        LET low == span[1]  high == span[2]  mid == (low + high) \div 2
        IN IF low > high THEN count
           ELSE IF fits[mid] THEN mid ELSE probe[<<mid + 1, high>>]
  IN probe[<<0, count - 1>>]

(* _shallowest_fitting: the least depth that fits, by bisection; count if none does. *)
Shallowest(count, fits) ==
  LET probe[span \in (0..count) \X (-1..(count - 1))] ==
        LET low == span[1]  high == span[2]  mid == (low + high) \div 2
        IN IF low > high THEN count
           ELSE IF fits[mid] THEN Min({mid, probe[<<low, mid - 1>>]}) ELSE probe[<<mid + 1, high>>]
  IN probe[<<0, count - 1>>]

(* The steps of the plan in their order, each from the deepest result of the one before.
   A step names the part it cuts and whether that is a page or a section. *)
ShedToFit(env, plan) ==
  LET take(shed, step) ==
        LET count == Depths(step.part, shed.env)
            depth == Shallowest(count, [d \in 0..(count - 1) |-> WireSize(Cut(step.part, shed.env, d)) <= Cap])
        IN IF shed.fitted \/ count <= 0 THEN shed
           ELSE [env     |-> Cut(step.part, shed.env, Min({depth, count - 1})),
                 section |-> shed.section \/ ~step.paginated,
                 fitted  |-> depth < count]
  IN FoldLeft(take, [env |-> env, section |-> FALSE, fitted |-> FALSE], plan)

(***************************************************************************)
(* build_envelope                                                          *)
(***************************************************************************)
(* _enforce_cap *)
EnforceCap(env, plan) ==
  LET shed == ShedToFit(env, plan)
  IN IF WireSize(env) <= Cap THEN env
     ELSE IF ~shed.fitted
          THEN [env EXCEPT !.status = "partial", !.data = Nothing, !.lims = @ \cup {<<"withheld">>}]
     ELSE [shed.env EXCEPT !.status = IF shed.section THEN "partial" ELSE @]

BuildShedding(status, data, prov, lims, plan) ==
  EnforceCap([status |-> status, data |-> CleanPayload(data), prov |-> prov,
              lims |-> lims \cup IF Masked(data) THEN {<<"masked">>} ELSE {}], plan)

(* Without a plan an answer over the cap is withheld. *)
Build(status, data, prov, lims) == BuildShedding(status, data, prov, lims, <<>>)

Error(status) == Build(status, [message |-> <<[text |-> status]>>], {}, {})

(* run_guarded: no build to open, or any failure of the query. *)
Unavailable   == Error("database_unavailable")
InternalError == Error("internal_error")

(***************************************************************************)
(* Shared by the tools                                                     *)
(***************************************************************************)
(* page_to_dict of _section_page, and the rows of a page *)
SectionPage(page, size, total) ==
  [page |-> page, page_size |-> size, total |-> total, has_more |-> page * size < total]
PageOf(s, page, size) == SubSeq(s, (page - 1) * size + 1, Min({page * size, Len(s)}))

(* ORDER BY, for an order that tells all of them apart; and a list in no order. *)
OrderBy(S, Before(_, _)) ==
  [i \in 1..Cardinality(S) |-> CHOOSE x \in S : Cardinality({y \in S : Before(y, x)}) = i - 1]
Listed(S) == FoldSet(LAMBDA x, s : Append(s, x), <<>>, S)

(* LIMIT, and what is left of a sequence when repeats go: what is there for the first time. *)
Limit(s, n) == SubSeq(s, 1, Min({n, Len(s)}))
Distinct(s) ==
  LET firsts == OrderBy({i \in DOMAIN s : \A j \in 1..(i - 1) : s[j] # s[i]}, LAMBDA i, j : i < j)
  IN [n \in DOMAIN firsts |-> s[firsts[n]]]

If(condition, lims) == IF condition THEN lims ELSE {}

(* attach_image_ref_disclosures *)
WithImageRefs(data) == [k \in ImageRefKeys |-> <<[value |-> k]>>] ++ data
===============================================================================
