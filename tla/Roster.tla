-------------------------------- MODULE Roster --------------------------------
(***************************************************************************)
(* The account roster as data: what parse_sync_data keeps of a syncData    *)
(* answer (importers/account.py).                                          *)
(*                                                                         *)
(* Ids are positive numbers, ordered as the code orders their text; NoId   *)
(* is one that is missing or malformed.  Counts are naturals, Bad a value  *)
(* that is not one.                                                        *)
(***************************************************************************)
EXTENDS Envelope

NoId == 0
Bad  == -1

(* The module slot every operator carries: an id prefix in the code. *)
CONSTANT InitialModules
ASSUME InitialModulesAssumption == InitialModules \subseteq Nat

(***************************************************************************)
(* parse_sync_data                                                         *)
(***************************************************************************)
GoodSkill(s) == s.id # NoId /\ s.mastery # Bad
(* _Parser.skills: malformed entries are skipped; a slot is a position in the file. *)
ParseSkills(form, raw) ==
  {[form |-> form, slot |-> i, id |-> raw[i].id, mastery |-> raw[i].mastery,
    unlocked |-> raw[i].unlock > 0] : i \in {j \in DOMAIN raw : GoodSkill(raw[j])}}

(* _Parser.modules: unlocked ones that are not the initial slot. *)
ParseModules(form, raw) ==
  {[form |-> form, id |-> m.id, level |-> m.level] :
     m \in {x \in ToSet(raw) : /\ x.id \notin InitialModules \cup {NoId}
                               /\ x.level # Bad /\ x.locked \in {Bad, 0}}}

(* The playable forms of an entry: those of tmpl, or the entry itself. *)
Forms(entry) == IF entry.tmpl = <<>> THEN <<[form |-> entry.char] ++ entry>>
                ELSE SelectSeq(entry.tmpl, LAMBDA f : f.form # NoId)

Equipped(entry) ==
  LET form    == IF entry.current # NoId THEN entry.current ELSE entry.char
      current == {f \in ToSet(entry.tmpl) : f.form = form /\ f.equipped # NoId}
      id      == IF current # {} THEN (CHOOSE f \in current : TRUE).equipped ELSE entry.equipped
  IN IF id \in InitialModules THEN NoId ELSE id

WellFormed(entry) ==
  entry.char # NoId /\ Bad \notin {entry.elite, entry.level, entry.potential, entry.rank}

(* _Parser.operator; the skills and modules of all forms, in no order. *)
ParseOperator(entry) ==
  [char |-> entry.char, elite |-> entry.elite, level |-> entry.level,
   potential |-> entry.potential + 1, rank |-> entry.rank, skin |-> entry.skin,
   equipped |-> Equipped(entry),
   skills  |-> UNION {ParseSkills(f.form, f.skills) : f \in ToSet(Forms(entry))},
   modules |-> UNION {ParseModules(f.form, f.equip) : f \in ToSet(Forms(entry))}]

(* The first well-formed entry of a character wins. *)
Kept(chars) ==
  {i \in DOMAIN chars : /\ WellFormed(chars[i])
                        /\ \A j \in 1..(i - 1) : WellFormed(chars[j]) => chars[j].char # chars[i].char}

ParseSyncData(user) ==
  [lmd       |-> user.gold,
   operators |-> {ParseOperator(user.chars[i]) : i \in Kept(user.chars)},
   skins     |-> user.skins \ {NoId},
   inventory |-> [i \in {x \in DOMAIN user.inventory : x # NoId /\ user.inventory[x] > 0}
                    |-> user.inventory[i]]]

(* The skeleton parse_sync_data insists on: status.gold and troop.chars. *)
Readable(user) == user.shape = "ok" /\ user.gold # Bad
===============================================================================
